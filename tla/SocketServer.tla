---------------------------- MODULE SocketServer ----------------------------
(***************************************************************************)
(* The socket server, socketServer/elastic_beanstalk_app/index.js.         *)
(* Clients connect with filters, which are validated by a request to the   *)
(* Plenario query API; the answer comes later, and the client may be gone  *)
(* by then.  The consumer application connects with a token and sends      *)
(* internal_data, which is passed on to every room whose filters it meets. *)
(*                                                                         *)
(* rooms is the server's own count of sockets per room; the membership     *)
(* that decides who gets a message is socket.io's (external): join() adds  *)
(* a socket to it whether or not the socket is still connected, and        *)
(* emit() reaches connected members only.                                  *)
(***************************************************************************)
EXTENDS Integers, FiniteSets, Functions

CONSTANTS
  Sockets,      \* client connections; each one is made once
  Queries,      \* the handshake queries a client may send
  Data          \* the observations the consumer may send

VARIABLES
  query,         \* the handshake query of each client
  connected,     \* the clients connected now
  validating,    \* the clients whose validation request is not answered yet
  members,       \* socket.io: the clients that joined their room
  rooms,         \* the server's count of sockets per room
  socket_count,  \* the server's count of all sockets
  consumer,      \* is the consumer application connected and accepted?
  received,      \* history: the observations each client was sent
  owed,          \* history: those it asked for and was there to be sent
  left           \* history: the clients that left and did not join so far

vars == <<query, connected, validating, members, rooms, socket_count,
          consumer, received, owed, left>>

----------------------------------------------------------------------------
(* Query arguments.  A list of names comes as an array or as comma         *)
(* separated text, as text in brackets, as something that is neither, or   *)
(* not at all.                                                             *)
NoList == {}

NoQuery == [network |-> "none"]

Forms == {"absent", "plain", "bracketed", "object"}

\* Text that is split at its commas has a name, if only the empty one; a query
\* string has no way to write an array with nothing in it; and no
\* observation names a node, a feature or a sensor with a bracket in it.
ASSUME QueriesAssumption ==
  /\ NoQuery \notin Queries
  /\ \A q \in Queries : \A list \in {q.nodes, q.features, q.sensors} :
       /\ list.form \in Forms
       /\ list.form \in {"plain", "bracketed"} => list.names # {}
       /\ \A data \in Data, n \in list.names :
            [bracketed |-> n] \notin {data.node, data.feature, data.sensor}

\* What the server makes of one list.  The brackets of a bracketed text stay:
\* replace() returns a new string, which is dropped.  In a list of one or two
\* names both ends carry one, so no name is left as it was written.
ParseList(list) ==
  CASE list.form = "absent"    -> NoList
    [] list.form = "plain"     -> list.names
    [] list.form = "bracketed" -> {[bracketed |-> n] : n \in list.names}

Lists(q)  == {q.nodes, q.features, q.sensors}
Parses(q) == \A list \in Lists(q) : list.form # "object"

\* A query that means to the server what it says.
Plain(q)  == \A list \in Lists(q) : list.form \in {"absent", "plain"}

Unfiltered(q) == \A list \in Lists(q) : list.form = "absent"

\* The room: the parsed arguments.
Args(q) == [nodes    |-> ParseList(q.nodes),
            features |-> ParseList(q.features),
            sensors  |-> ParseList(q.sensors),
            network  |-> IF q.network = "none" THEN "ArrayOfThings" ELSE q.network]

\* Mutant: the lists are alternatives.
WantsAnyList(args, data) ==
  \/ args.nodes = NoList    \/ data.node \in args.nodes
  \/ args.features = NoList \/ data.feature \in args.features
  \/ args.sensors = NoList  \/ data.sensor \in args.sensors

\* The filter applied to an observation.
Wants(args, data) ==
  /\ args.nodes = NoList    \/ data.node \in args.nodes
  /\ args.features = NoList \/ data.feature \in args.features
  /\ args.sensors = NoList  \/ data.sensor \in args.sensors

\* What the client asked for, read off the lists of its query.  Its
\* sensor_network is no filter: an observation does not say which network it is
\* of (mapper.js:214-218), and the argument only names the table that validates
\* the others and a part of the room (index.js:81-88).
AsksFor(q, data) ==
  /\ q.nodes.form = "absent"    \/ data.node \in q.nodes.names
  /\ q.features.form = "absent" \/ data.feature \in q.features.names
  /\ q.sensors.form = "absent"  \/ data.sensor \in q.sensors.names

RoomOf(s) == Args(query[s])

----------------------------------------------------------------------------
Init ==
  /\ query = [s \in Sockets |-> NoQuery]
  /\ connected = {}
  /\ validating = {}
  /\ members = {}
  /\ rooms = << >>
  /\ socket_count = 0
  /\ consumer = FALSE
  /\ received = [s \in Sockets |-> {}]
  /\ owed = [s \in Sockets |-> {}]
  /\ left = {}

\* The increment after a successful validation.
Entered(counts, room) ==
  IF room \in DOMAIN counts
  THEN [counts EXCEPT ![room] = @ + 1]
  ELSE [r \in DOMAIN counts \cup {room} |-> IF r = room THEN 1 ELSE counts[r]]

\* Mutant: an empty room's entry is kept.
LeftKeepsEntry(counts, room) ==
  IF room \in DOMAIN counts THEN [counts EXCEPT ![room] = @ - 1] ELSE counts

\* Mutant: the entry is deleted whoever is left in the room.
LeftDeletesEntry(counts, room) == Restrict(counts, DOMAIN counts \ {room})

\* The decrement in the disconnect handler; delete of a missing entry is a
\* no-op, and so is the comparison with undefined.
Left(counts, room) ==
  IF room \in DOMAIN counts /\ counts[room] > 1
  THEN [counts EXCEPT ![room] = @ - 1]
  ELSE Restrict(counts, DOMAIN counts \ {room})

\* A client connects.  If its arguments cannot be parsed it is told so and
\* disconnected, before a disconnect handler exists; otherwise the validation
\* request is sent.
ConnectClient(s, q) ==
  /\ query[s] = NoQuery
  /\ query' = [query EXCEPT ![s] = q]
  /\ IF Parses(q)
     THEN connected' = connected \cup {s} /\ validating' = validating \cup {s}
     ELSE UNCHANGED <<connected, validating>>
  /\ UNCHANGED <<members, rooms, socket_count, consumer, received, owed, left>>

\* The API accepts the arguments: the socket joins its room and is counted.
ValidationSucceeds(s) ==
  /\ s \in validating
  /\ validating' = validating \ {s}
  /\ members' = members \cup {s}
  /\ rooms' = Entered(rooms, RoomOf(s))
  /\ socket_count' = socket_count + 1
  /\ left' = left \ {s}
  /\ UNCHANGED <<query, connected, consumer, received, owed>>

\* The disconnect handler; it runs for every socket whose arguments parsed.
OnDisconnect(s) ==
  /\ connected' = connected \ {s}
  /\ members' = members \ {s}
  /\ rooms' = Left(rooms, RoomOf(s))
  /\ socket_count' = socket_count - 1
  /\ left' = IF s \in members THEN left ELSE left \cup {s}

\* The API reports an error, or answers something that is not JSON: the
\* client is told and disconnected.  disconnect() runs the disconnect handler
\* at once, and does nothing for a socket that is gone.
ValidationRejects(s) ==
  /\ s \in validating
  /\ validating' = validating \ {s}
  /\ IF s \in connected
     THEN OnDisconnect(s)
     ELSE UNCHANGED <<connected, members, rooms, socket_count, left>>
  /\ UNCHANGED <<query, consumer, received, owed>>

\* The client goes away.
ClientDisconnects(s) ==
  /\ s \in connected
  /\ OnDisconnect(s)
  /\ UNCHANGED <<query, validating, consumer, received, owed>>

\* The request itself fails: http.get has no error handler, so the server
\* ends, and is started again with nothing.
ValidationRequestFails(s) ==
  /\ s \in validating
  /\ connected' = {}
  /\ validating' = {}
  /\ members' = {}
  /\ rooms' = << >>
  /\ socket_count' = 0
  /\ consumer' = FALSE
  /\ left' = {}
  /\ UNCHANGED <<query, received, owed>>

\* The consumer application connects with its token.  A socket with a wrong
\* token is disconnected and changes nothing.
ConnectConsumer ==
  /\ ~consumer
  /\ consumer' = TRUE
  /\ UNCHANGED <<query, connected, validating, members, rooms, socket_count,
                 received, owed, left>>

ConsumerDisconnects ==
  /\ consumer
  /\ consumer' = FALSE
  /\ UNCHANGED <<query, connected, validating, members, rooms, socket_count,
                 received, owed, left>>

\* internal_data: the observation goes to the connected members of every
\* counted room whose filters it meets.
Recipients(data) ==
  {s \in members \cap connected :
     RoomOf(s) \in DOMAIN rooms /\ Wants(RoomOf(s), data)}

\* The members of a room, connected or not; those that are connected; and the
\* clients that left it without ever joining it.
MembersOf(r) == {s \in members : RoomOf(s) = r}
JoinedIn(r)  == {s \in members \cap connected : RoomOf(s) = r}
LeftEarly(r) == {s \in left : RoomOf(s) = r}

\* A room that lost fewer clients before they joined than it has.
Survives(r) == Cardinality(LeftEarly(r)) < Cardinality(JoinedIn(r))

InternalData(data) ==
  /\ consumer
  /\ received' = [s \in Sockets |-> IF s \in Recipients(data)
                                    THEN received[s] \cup {data}
                                    ELSE received[s]]
  /\ owed' = [s \in Sockets |->
                IF /\ s \in members \cap connected /\ AsksFor(query[s], data)
                   /\ Survives(RoomOf(s))
                THEN owed[s] \cup {data}
                ELSE owed[s]]
  /\ UNCHANGED <<query, connected, validating, members, rooms, socket_count,
                 consumer, left>>

Next ==
  \/ \E s \in Sockets, q \in Queries : ConnectClient(s, q)
  \/ \E s \in Sockets : ValidationSucceeds(s)
  \/ \E s \in Sockets : ValidationRejects(s)
  \/ \E s \in Sockets : ClientDisconnects(s)
  \/ \E s \in Sockets : ValidationRequestFails(s)
  \/ ConnectConsumer
  \/ ConsumerDisconnects
  \/ \E data \in Data : InternalData(data)

Spec == Init /\ [][Next]_vars

----------------------------------------------------------------------------
\* Clients that are connected and joined; the counts are whole numbers, and
\* the server's own total may even be negative.
TypeOK ==
  /\ query \in [Sockets -> Queries \cup {NoQuery}]
  /\ connected \in SUBSET Sockets
  /\ validating \in SUBSET Sockets
  /\ members \in SUBSET Sockets
  /\ IsFiniteSet(DOMAIN rooms)
  /\ \A r \in DOMAIN rooms : rooms[r] \in Nat \ {0}
  /\ socket_count \in Int
  /\ consumer \in BOOLEAN
  /\ received \in [Sockets -> SUBSET Data]
  /\ owed \in [Sockets -> SUBSET Data]
  /\ left \in SUBSET Sockets

\* Whatever order validations and disconnections come in, a client is never
\* sent an observation outside the filters of its query (index.js:20-32).
OnlyWhatWasAskedFor ==
  \A s \in Sockets : \A data \in received[s] : AsksFor(query[s], data)

\* A client that leaves before it joined takes one from the total that it
\* never put there, until it joins after all: the total is the number of
\* connected members less those, and may be negative (index.js:119, 146).
TotalMissesTheEarly ==
  socket_count = Cardinality(members \cap connected) - Cardinality(left)

\* What a room is counted as; one without an entry is empty.
CountOf(r) == IF r \in DOMAIN rooms THEN rooms[r] ELSE 0

\* index.js:138, "decrements the correct property of the room object on
\* disconnection": a room counts its connected members, less at most one for
\* each client that left it before it joined (whose handler took one of the
\* others' places), plus at most one for each that joined it dead (index.js:109
\* runs after the disconnection).  With neither the count is exact, however
\* joins, departures and restarts interleave and whatever happens in other
\* rooms; and no room is kept that nobody joined.
RoomsCountMembers ==
  \A r \in DOMAIN rooms \cup {RoomOf(s) : s \in members} :
    /\ CountOf(r) >= Cardinality(JoinedIn(r)) - Cardinality(LeftEarly(r))
    /\ CountOf(r) <= Cardinality(MembersOf(r))

\* A client whose query means to the server what it says was sent every
\* observation it asked for that came while it was a connected member of a room
\* that had lost fewer clients before they joined than it had members.  A room
\* that lost as many may have no entry, and its members are sent nothing
\* (index.js:20-32, 110-115, 140-145).
PlainMembersServed ==
  \A s \in Sockets : query[s] # NoQuery /\ Plain(query[s])
                    => owed[s] \subseteq received[s]

\* The server's two counts of its clients (index.js:103-146) err by the clients
\* that leave before they join and by nothing else: the total exactly by their
\* number, each room by no more than the number of its own.
CountsAreSound == TypeOK /\ TotalMissesTheEarly /\ RoomsCountMembers
=============================================================================
