------------------------- MODULE SocketServerProofs -------------------------
(***************************************************************************)
(* Proofs about SocketServer, for every set of clients, of queries and of  *)
(* observations.                                                           *)
(***************************************************************************)
EXTENDS SocketServer, FiniteSetTheorems, TLAPS

\* What socket.io and the server agree on whatever the order of events.
KnownSockets ==
  /\ \A s \in connected \cup validating \cup members :
       query[s] \in Queries /\ Parses(query[s])
  /\ \A s \in Sockets : query[s] = NoQuery => received[s] = {} /\ owed[s] = {}
  /\ members \cap validating = {}
  /\ IsFiniteSet(members)

\* The clients that left before they joined: everyone whose validation is not
\* answered and who is gone is among them, and nobody who is there.
LeftBehind ==
  /\ left \subseteq Sockets
  /\ \A s \in left : query[s] # NoQuery
  /\ validating \ connected \subseteq left
  /\ left \cap (connected \cup members) = {}
  /\ IsFiniteSet(left)

\* What a count of the rooms may be.
CountsOK(counts) ==
  /\ counts = [r \in DOMAIN counts |-> counts[r]]
  /\ IsFiniteSet(DOMAIN counts)
  /\ \A r \in DOMAIN counts : counts[r] \in Nat \ {0}

In(M, q, r) == {s \in M : Args(q[s]) = r}

CountIn(counts, r) == IF r \in DOMAIN counts THEN counts[r] ELSE 0

\* Each count is that of the sockets of J in its room, less some of those of L,
\* and no more than that of M.
Within(n, J, M, L, q, r) ==
  /\ n >= Cardinality(In(J, q, r)) - Cardinality(In(L, q, r))
  /\ n <= Cardinality(In(M, q, r))

CountsWithin(counts, J, M, L, q) ==
  \A r : Within(CountIn(counts, r), J, M, L, q, r)

SocketTypes ==
  /\ query \in [Sockets -> Queries \cup {NoQuery}]
  /\ connected \in SUBSET Sockets
  /\ validating \in SUBSET Sockets
  /\ members \in SUBSET Sockets
  /\ socket_count \in Int
  /\ consumer \in BOOLEAN
  /\ received \in [Sockets -> SUBSET Data]
  /\ owed \in [Sockets -> SUBSET Data]

SocketInv ==
  /\ SocketTypes
  /\ CountsOK(rooms)
  /\ KnownSockets
  /\ LeftBehind
  /\ OnlyWhatWasAskedFor
  /\ CountsWithin(rooms, members \cap connected, members, left, query)
  /\ TotalMissesTheEarly
  /\ PlainMembersServed

-----------------------------------------------------------------------------
(* The counts of the rooms.                                                *)

\* A room of a finite set has a number of sockets, none only if it is no room.
LEMMA RoomSize ==
  ASSUME NEW M, IsFiniteSet(M), NEW q, NEW r
  PROVE  /\ IsFiniteSet(In(M, q, r))
         /\ Cardinality(In(M, q, r)) \in Nat
         /\ Cardinality(In(M, q, r)) = 0 <=> In(M, q, r) = {}
<1>1. In(M, q, r) \subseteq M
  BY DEF In
<1>2. IsFiniteSet(In(M, q, r))
  BY <1>1, FS_Subset
<1>3. QED
  BY <1>2, FS_CardinalityType, FS_EmptySet

\* A socket more in a set, in its own room and in the others.
LEMMA OneMore ==
  ASSUME NEW M, IsFiniteSet(M), NEW q, NEW s, s \notin M, NEW r
  PROVE  Cardinality(In(M \cup {s}, q, r))
           = IF r = Args(q[s]) THEN Cardinality(In(M, q, r)) + 1
                               ELSE Cardinality(In(M, q, r))
<1>1. CASE r = Args(q[s])
  <2>1. In(M \cup {s}, q, r) = In(M, q, r) \cup {s} /\ s \notin In(M, q, r)
    BY <1>1 DEF In
  <2> QED
    BY <1>1, <2>1, RoomSize, FS_AddElement
<1>2. CASE r # Args(q[s])
  <2>1. In(M \cup {s}, q, r) = In(M, q, r)
    BY <1>2 DEF In
  <2> QED
    BY <1>2, <2>1
<1> QED
  BY <1>1, <1>2

\* A socket less in a set, likewise.
LEMMA OneLess ==
  ASSUME NEW M, IsFiniteSet(M), NEW q, NEW s \in M, NEW r
  PROVE  Cardinality(In(M \ {s}, q, r))
           = IF r = Args(q[s]) THEN Cardinality(In(M, q, r)) - 1
                               ELSE Cardinality(In(M, q, r))
<1>1. CASE r = Args(q[s])
  <2> DEFINE I == In(M, q, r)
  <2>1. In(M \ {s}, q, r) = I \ {s} /\ s \in I
    BY <1>1 DEF In
  <2>2. IsFiniteSet(I)
    BY RoomSize
  <2> HIDE DEF I
  <2>3. Cardinality(I \ {s}) = Cardinality(I) - 1
    BY <2>1, <2>2, FS_RemoveElement
  <2> QED
    BY <1>1, <2>1, <2>3 DEF I
<1>2. CASE r # Args(q[s])
  <2>1. In(M \ {s}, q, r) = In(M, q, r)
    BY <1>2 DEF In
  <2> QED
    BY <1>2, <2>1
<1> QED
  BY <1>1, <1>2

\* The increment (index.js:110-115) adds one to one room.
LEMMA EnteredCounts ==
  ASSUME NEW counts, CountsOK(counts), NEW room, NEW r
  PROVE  CountIn(Entered(counts, room), r)
           = IF r = room THEN CountIn(counts, r) + 1 ELSE CountIn(counts, r)
BY DEF CountIn, Entered, CountsOK

\* The decrement (index.js:140-145) takes one from one room, if it has one.
LEMMA LeftCounts ==
  ASSUME NEW counts, CountsOK(counts), NEW room, NEW r
  PROVE  /\ CountIn(counts, r) \in Nat
         /\ CountIn(Left(counts, room), r)
              = IF r = room /\ CountIn(counts, r) > 0
                THEN CountIn(counts, r) - 1 ELSE CountIn(counts, r)
<1>1. CountIn(counts, r) \in Nat
  BY DEF CountIn, CountsOK
<1>2. CASE room \in DOMAIN counts /\ counts[room] > 1
  BY <1>1, <1>2 DEF CountIn, Left, CountsOK
<1>3. CASE ~(room \in DOMAIN counts /\ counts[room] > 1)
  <2>1. /\ DOMAIN Left(counts, room) = DOMAIN counts \ {room}
        /\ \A x \in DOMAIN counts \ {room} : Left(counts, room)[x] = counts[x]
    BY <1>3 DEF Left, Restrict
  <2>2. room \in DOMAIN counts => counts[room] = 1
    BY <1>3 DEF CountsOK
  <2> QED
    BY <1>1, <2>1, <2>2 DEF CountIn
<1> QED
  BY <1>1, <1>2, <1>3

\* A socket that joins (index.js:109-115), connected or not.
LEMMA JoinKeepsCounts ==
  ASSUME NEW J, NEW M, NEW L, IsFiniteSet(J), IsFiniteSet(M), IsFiniteSet(L), NEW q,
         NEW s, s \notin M, NEW JJ, NEW LL,
         \/ s \notin J /\ JJ = J \cup {s} /\ LL = L
         \/ JJ = J /\ s \in L /\ LL = L \ {s},
         NEW counts, CountsOK(counts), CountsWithin(counts, J, M, L, q)
  PROVE  CountsWithin(Entered(counts, Args(q[s])), JJ, M \cup {s}, LL, q)
<1> SUFFICES ASSUME NEW r
             PROVE  Within(CountIn(Entered(counts, Args(q[s])), r), JJ, M \cup {s}, LL, q, r)
  BY DEF CountsWithin
<1> DEFINE n == CountIn(counts, r)  nn == CountIn(Entered(counts, Args(q[s])), r)
           j == Cardinality(In(J, q, r))  jj == Cardinality(In(JJ, q, r))
           l == Cardinality(In(L, q, r))  ll == Cardinality(In(LL, q, r))
           m == Cardinality(In(M, q, r))  mm == Cardinality(In(M \cup {s}, q, r))
<1>1. n \in Nat /\ j \in Nat /\ l \in Nat /\ m \in Nat
  BY RoomSize, LeftCounts
<1>2. n >= j - l /\ n <= m
  BY DEF CountsWithin, Within
<1>3. nn = IF r = Args(q[s]) THEN n + 1 ELSE n
  BY EnteredCounts
<1>4. mm = IF r = Args(q[s]) THEN m + 1 ELSE m
  BY OneMore
<1>5. \/ jj = (IF r = Args(q[s]) THEN j + 1 ELSE j) /\ ll = l
      \/ jj = j /\ ll = (IF r = Args(q[s]) THEN l - 1 ELSE l)
  <2>1. CASE s \notin J /\ JJ = J \cup {s} /\ LL = L
    BY <2>1, OneMore
  <2>2. CASE JJ = J /\ s \in L /\ LL = L \ {s}
    BY <2>2, OneLess
  <2> QED
    BY <2>1, <2>2
<1> HIDE DEF n, nn, j, jj, l, ll, m, mm
<1>6. nn >= jj - ll /\ nn <= mm
  BY <1>1, <1>2, <1>3, <1>4, <1>5
<1> QED
  BY <1>6 DEF Within, nn, jj, ll, mm

\* A socket that leaves (index.js:140-145), a member or not.
LEMMA LeaveKeepsCounts ==
  ASSUME NEW J, NEW M, NEW L, IsFiniteSet(J), IsFiniteSet(M), IsFiniteSet(L), NEW q,
         NEW s, NEW JJ, NEW MM, NEW LL,
         \/ s \in J /\ s \in M /\ JJ = J \ {s} /\ MM = M \ {s} /\ LL = L
         \/ s \notin L /\ JJ = J /\ MM = M /\ LL = L \cup {s},
         NEW counts, CountsOK(counts), CountsWithin(counts, J, M, L, q)
  PROVE  CountsWithin(Left(counts, Args(q[s])), JJ, MM, LL, q)
<1> SUFFICES ASSUME NEW r
             PROVE  Within(CountIn(Left(counts, Args(q[s])), r), JJ, MM, LL, q, r)
  BY DEF CountsWithin
<1> DEFINE n == CountIn(counts, r)  nn == CountIn(Left(counts, Args(q[s])), r)
           j == Cardinality(In(J, q, r))  jj == Cardinality(In(JJ, q, r))
           l == Cardinality(In(L, q, r))  ll == Cardinality(In(LL, q, r))
           m == Cardinality(In(M, q, r))  mm == Cardinality(In(MM, q, r))
<1>1. n \in Nat /\ j \in Nat /\ l \in Nat /\ m \in Nat
  BY RoomSize, LeftCounts
<1>2. n >= j - l /\ n <= m
  BY DEF CountsWithin, Within
<1>3. nn = IF r = Args(q[s]) /\ n > 0 THEN n - 1 ELSE n
  BY LeftCounts
<1>4. \/ /\ jj = (IF r = Args(q[s]) THEN j - 1 ELSE j) /\ ll = l
         /\ mm = (IF r = Args(q[s]) THEN m - 1 ELSE m)
         /\ r = Args(q[s]) => m >= 1
      \/ jj = j /\ ll = (IF r = Args(q[s]) THEN l + 1 ELSE l) /\ mm = m
  <2>1. CASE s \in J /\ s \in M /\ JJ = J \ {s} /\ MM = M \ {s} /\ LL = L
    <3>1. r = Args(q[s]) => s \in In(M, q, r)
      BY <2>1 DEF In
    <3>2. r = Args(q[s]) => m >= 1
      BY <1>1, <3>1, RoomSize
    <3> QED
      BY <2>1, <3>2, OneLess
  <2>2. CASE s \notin L /\ JJ = J /\ MM = M /\ LL = L \cup {s}
    BY <2>2, OneMore
  <2> QED
    BY <2>1, <2>2
<1> HIDE DEF n, nn, j, jj, l, ll, m, mm
<1>5. nn >= jj - ll /\ nn <= mm
  BY <1>1, <1>2, <1>3, <1>4
<1> QED
  BY <1>5 DEF Within, nn, jj, ll, mm

-----------------------------------------------------------------------------
(* The filters.                                                            *)

\* The filter, on the parsed arguments of a query (index.js:20-32) lets nothing
\* pass that the query does not ask for.
LEMMA FiltersAreStrict ==
  ASSUME NEW q \in Queries, Parses(q), NEW data \in Data, Wants(Args(q), data)
  PROVE  AsksFor(q, data)
<1>1. ASSUME NEW list \in Lists(q), NEW x \in {data.node, data.feature, data.sensor},
             ParseList(list) = NoList \/ x \in ParseList(list)
      PROVE  list.form = "absent" \/ x \in list.names
  <2>1. list.form \in {"absent", "plain", "bracketed"}
    BY QueriesAssumption DEF Lists, Parses, Forms
  <2>2. CASE list.form = "plain"
    <3>1. ParseList(list) = list.names /\ list.names # {}
      BY <2>2, QueriesAssumption DEF ParseList, Lists
    <3>2. QED
      BY <1>1, <3>1 DEF NoList
  <2>3. CASE list.form = "bracketed"
    <3>1. ParseList(list) = {[bracketed |-> n] : n \in list.names} /\ list.names # {}
      BY <2>3, QueriesAssumption DEF ParseList, Lists
    <3>2. \A n \in list.names : [bracketed |-> n] # x
      BY QueriesAssumption DEF Lists
    <3>3. QED
      BY <1>1, <3>1, <3>2 DEF NoList
  <2>4. QED
    BY <2>1, <2>2, <2>3
<1>2. /\ ParseList(q.nodes) = NoList \/ data.node \in ParseList(q.nodes)
      /\ ParseList(q.features) = NoList \/ data.feature \in ParseList(q.features)
      /\ ParseList(q.sensors) = NoList \/ data.sensor \in ParseList(q.sensors)
  BY DEF Wants, Args
<1>3. q.nodes \in Lists(q) /\ q.features \in Lists(q) /\ q.sensors \in Lists(q)
  BY DEF Lists
<1>4. /\ q.nodes.form = "absent" \/ data.node \in q.nodes.names
      /\ q.features.form = "absent" \/ data.feature \in q.features.names
      /\ q.sensors.form = "absent" \/ data.sensor \in q.sensors.names
  BY <1>1, <1>2, <1>3
<1>5. QED
  BY <1>4 DEF AsksFor

\* A query that means what it says is given all it asks for.
LEMMA PlainFiltersPass ==
  ASSUME NEW q, Plain(q), NEW data, AsksFor(q, data)
  PROVE  Wants(Args(q), data)
<1>1. ASSUME NEW list \in Lists(q), NEW x, list.form = "absent" \/ x \in list.names
      PROVE  ParseList(list) = NoList \/ x \in ParseList(list)
  BY <1>1 DEF Plain, ParseList
<1>2. q.nodes \in Lists(q) /\ q.features \in Lists(q) /\ q.sensors \in Lists(q)
  BY DEF Lists
<1>3. /\ ParseList(q.nodes) = NoList \/ data.node \in ParseList(q.nodes)
      /\ ParseList(q.features) = NoList \/ data.feature \in ParseList(q.features)
      /\ ParseList(q.sensors) = NoList \/ data.sensor \in ParseList(q.sensors)
  BY <1>1, <1>2 DEF AsksFor
<1>4. QED
  BY <1>3 DEF Wants, Args

-----------------------------------------------------------------------------
(* The steps.                                                              *)

\* RoomsCountMembers in the words of the lemmas above.
LEMMA RoomsAreCounted ==
  ASSUME CountsWithin(rooms, members \cap connected, members, left, query)
  PROVE  RoomsCountMembers
<1>1. \A r : /\ JoinedIn(r) = In(members \cap connected, query, r)
             /\ MembersOf(r) = In(members, query, r)
             /\ LeftEarly(r) = In(left, query, r)
             /\ CountOf(r) = CountIn(rooms, r)
  BY DEF JoinedIn, MembersOf, LeftEarly, In, RoomOf, CountOf, CountIn
<1>2. QED
  BY <1>1 DEF RoomsCountMembers, CountsWithin, Within

\* The increment leaves a count of the rooms.
LEMMA EnteredType ==
  ASSUME NEW counts, CountsOK(counts), NEW room
  PROVE  CountsOK(Entered(counts, room))
<1> DEFINE new == Entered(counts, room)
<1>1. DOMAIN new = DOMAIN counts \cup {room} /\ new = [r \in DOMAIN new |-> new[r]]
  BY DEF Entered, CountsOK
<1>2. \A r \in DOMAIN new : new[r] \in Nat \ {0}
  BY DEF Entered, CountsOK
<1>3. IsFiniteSet(DOMAIN new)
  BY <1>1, FS_AddElement DEF CountsOK
<1>4. QED
  BY <1>1, <1>2, <1>3 DEF CountsOK

\* The decrement leaves one, and no room with nobody in it.
LEMMA LeftType ==
  ASSUME NEW counts, CountsOK(counts), NEW room
  PROVE  CountsOK(Left(counts, room))
<1> DEFINE new == Left(counts, room)
<1>1. DOMAIN new \subseteq DOMAIN counts /\ new = [r \in DOMAIN new |-> new[r]]
  BY DEF Left, CountsOK, Restrict
<1>2. \A r \in DOMAIN new : new[r] \in Nat \ {0}
  BY DEF Left, CountsOK, Restrict
<1>3. IsFiniteSet(DOMAIN new)
  BY <1>1, FS_Subset DEF CountsOK
<1>4. QED
  BY <1>1, <1>2, <1>3 DEF CountsOK

\* Nobody is counted when the server starts (index.js:11-12).
LEMMA NothingCounted ==
  ASSUME NEW q
  PROVE  CountsOK(<< >>) /\ CountsWithin(<< >>, {}, {}, {}, q)
<1>1. DOMAIN << >> = {} /\ << >> = [r \in {} |-> << >>[r]]
  OBVIOUS
<1>2. CountsOK(<< >>)
  BY <1>1, FS_EmptySet DEF CountsOK
<1>3. \A r : In({}, q, r) = {} /\ CountIn(<< >>, r) = 0
  BY <1>1 DEF In, CountIn
<1>4. CountsWithin(<< >>, {}, {}, {}, q)
  BY <1>3, FS_EmptySet DEF CountsWithin, Within
<1>5. QED
  BY <1>2, <1>4

\* The server starts with nobody.
LEMMA SocketStarts == Init => SocketInv
<1> SUFFICES ASSUME Init PROVE SocketInv
  OBVIOUS
<1>1. SocketTypes
  <2>1. consumer \in BOOLEAN
    BY Zenon DEF Init
  <2>2. QED
    BY <2>1 DEF Init, SocketTypes
<1>2. KnownSockets /\ LeftBehind
  BY FS_EmptySet DEF Init, KnownSockets, LeftBehind
<1>3. OnlyWhatWasAskedFor /\ PlainMembersServed
  BY DEF Init, OnlyWhatWasAskedFor, PlainMembersServed
<1>4. members \cap connected = {} /\ members = {} /\ left = {} /\ rooms = << >>
      /\ socket_count = 0
  BY DEF Init
<1>5. CountsOK(rooms) /\ CountsWithin(rooms, members \cap connected, members, left, query)
  BY <1>4, NothingCounted
<1>6. TotalMissesTheEarly
  BY <1>4, FS_EmptySet DEF TotalMissesTheEarly
<1>7. QED
  BY <1>1, <1>2, <1>3, <1>5, <1>6 DEF SocketInv

\* A step that leaves queries and observations alone keeps what was promised
\* about them.
LEMMA HistoryKept ==
  ASSUME SocketInv, UNCHANGED <<query, received, owed>>
  PROVE  OnlyWhatWasAskedFor' /\ PlainMembersServed'
BY DEF SocketInv, OnlyWhatWasAskedFor, PlainMembersServed

\* Connected members can be counted.
LEMMA JoinedAreFinite ==
  ASSUME SocketInv
  PROVE  /\ IsFiniteSet(members \cap connected)
         /\ IsFiniteSet(members)
         /\ IsFiniteSet(left)
         /\ Cardinality(members \cap connected) \in Nat
         /\ Cardinality(left) \in Nat
<1>1. IsFiniteSet(members) /\ IsFiniteSet(left) /\ members \cap connected \subseteq members
  BY DEF SocketInv, KnownSockets, LeftBehind
<1>2. IsFiniteSet(members \cap connected)
  BY <1>1, FS_Subset
<1> QED
  BY <1>1, <1>2, FS_CardinalityType

\* A new client is in no room yet (index.js:42-94).
LEMMA ConnectClientKeeps ==
  ASSUME SocketInv, NEW s \in Sockets, NEW q \in Queries, ConnectClient(s, q)
  PROVE  SocketInv'
<1>1. /\ query \in [Sockets -> Queries \cup {NoQuery}]
      /\ query[s] = NoQuery /\ query' = [query EXCEPT ![s] = q]
      /\ q # NoQuery
  BY QueriesAssumption DEF SocketInv, SocketTypes, ConnectClient
<1>2. /\ query'[s] = q
      /\ \A t \in Sockets : t # s => query'[t] = query[t]
      /\ query' \in [Sockets -> Queries \cup {NoQuery}]
  BY <1>1
<1>3. /\ s \notin members /\ s \notin connected /\ s \notin validating
      /\ received[s] = {} /\ owed[s] = {}
      /\ members \subseteq Sockets /\ connected \subseteq Sockets /\ validating \subseteq Sockets
  BY <1>1, QueriesAssumption DEF SocketInv, SocketTypes, KnownSockets
<1>4. UNCHANGED <<members, rooms, socket_count, consumer, received, owed, left>>
  BY DEF ConnectClient
<1>5. \/ Parses(q) /\ connected' = connected \cup {s} /\ validating' = validating \cup {s}
      \/ UNCHANGED <<connected, validating>>
  BY DEF ConnectClient
<1>6. SocketTypes'
  BY <1>2, <1>3, <1>4, <1>5 DEF SocketInv, SocketTypes
<1>7. KnownSockets'
  <2>1. \A t \in connected' \cup validating' \cup members' :
          query'[t] \in Queries /\ Parses(query'[t])
    BY <1>2, <1>3, <1>4, <1>5 DEF SocketInv, KnownSockets
  <2>2. members' \cap validating' = {} /\ IsFiniteSet(members')
    BY <1>3, <1>4, <1>5 DEF SocketInv, KnownSockets
  <2>3. \A t \in Sockets : query'[t] = NoQuery => received'[t] = {} /\ owed'[t] = {}
    BY <1>1, <1>2, <1>4 DEF SocketInv, KnownSockets
  <2>4. QED
    BY <2>1, <2>2, <2>3 DEF KnownSockets
<1>8. LeftBehind' /\ s \notin left
  BY <1>1, <1>2, <1>3, <1>4, <1>5 DEF SocketInv, LeftBehind
<1>9. OnlyWhatWasAskedFor' /\ PlainMembersServed'
  BY <1>2, <1>3, <1>4, <1>1
    DEF SocketInv, OnlyWhatWasAskedFor, PlainMembersServed
<1>10. members' \cap connected' = members \cap connected
  BY <1>3, <1>4, <1>5
<1>11. CountsWithin(rooms', members' \cap connected', members', left', query')
  <2>1. \A r : /\ In(members \cap connected, query', r) = In(members \cap connected, query, r)
               /\ In(members, query', r) = In(members, query, r)
               /\ In(left, query', r) = In(left, query, r)
    BY <1>2, <1>3, <1>8 DEF In, SocketInv, LeftBehind
  <2>2. QED
    BY <1>4, <1>10, <2>1 DEF SocketInv, CountsWithin, Within
<1>12. CountsOK(rooms')
  BY <1>4 DEF SocketInv
<1>13. TotalMissesTheEarly'
  BY <1>4, <1>10 DEF SocketInv, TotalMissesTheEarly
<1>14. QED
  BY <1>6, <1>7, <1>8, <1>9, <1>11, <1>12, <1>13 DEF SocketInv

\* A validated client is counted once, dead or alive (index.js:103-119).
LEMMA ValidationSucceedsKeeps ==
  ASSUME SocketInv, NEW s \in Sockets, ValidationSucceeds(s)
  PROVE  SocketInv'
<1>1. /\ s \in validating /\ validating' = validating \ {s}
      /\ members' = members \cup {s}
      /\ rooms' = Entered(rooms, Args(query[s]))
      /\ socket_count' = socket_count + 1
      /\ left' = left \ {s}
      /\ UNCHANGED <<query, connected, consumer, received, owed>>
  BY DEF ValidationSucceeds, RoomOf
<1>2. SocketTypes'
  BY <1>1 DEF SocketInv, SocketTypes
<1>3. IsFiniteSet(members')
  BY <1>1, FS_AddElement DEF SocketInv, KnownSockets
<1>4. KnownSockets'
  BY <1>1, <1>3 DEF SocketInv, KnownSockets
<1>5. LeftBehind'
  <2>1. IsFiniteSet(left')
    BY <1>1, FS_RemoveElement, FS_Subset DEF SocketInv, LeftBehind
  <2> QED
    BY <1>1, <2>1 DEF SocketInv, LeftBehind
<1>6. OnlyWhatWasAskedFor' /\ PlainMembersServed'
  BY <1>1, HistoryKept
<1>7. CountsOK(rooms')
  BY <1>1, EnteredType DEF SocketInv
<1> DEFINE J == members \cap connected
           JJ == members' \cap connected'
<1>8. s \notin members
  BY <1>1 DEF SocketInv, KnownSockets
<1>9. \/ s \notin J /\ JJ = J \cup {s} /\ left' = left
      \/ JJ = J /\ s \in left /\ left' = left \ {s}
  BY <1>1, <1>8 DEF SocketInv, LeftBehind
<1>10. /\ IsFiniteSet(J) /\ IsFiniteSet(members) /\ IsFiniteSet(left) /\ CountsOK(rooms)
       /\ Cardinality(J) \in Nat /\ Cardinality(left) \in Nat
       /\ CountsWithin(rooms, J, members, left, query)
       /\ socket_count = Cardinality(J) - Cardinality(left)
  BY JoinedAreFinite DEF SocketInv, TotalMissesTheEarly
<1> HIDE DEF J, JJ
<1>11. CountsWithin(rooms', JJ, members', left', query')
  <2>1. CountsWithin(Entered(rooms, Args(query[s])), JJ, members \cup {s}, left', query)
    BY <1>8, <1>9, <1>10, JoinKeepsCounts
  <2> QED
    BY <1>1, <2>1
<1>12. socket_count' = Cardinality(JJ) - Cardinality(left')
  <2>1. CASE s \notin J /\ JJ = J \cup {s} /\ left' = left
    <3>1. Cardinality(JJ) = Cardinality(J) + 1
      BY <1>10, <2>1, FS_AddElement
    <3>2. Cardinality(left') = Cardinality(left) /\ socket_count' = socket_count + 1
      BY <1>1, <2>1
    <3> QED
      BY <1>10, <3>1, <3>2
  <2>2. CASE JJ = J /\ s \in left /\ left' = left \ {s}
    <3>1. Cardinality(left') = Cardinality(left) - 1
      BY <1>10, <2>2, FS_RemoveElement
    <3> QED
      BY <1>1, <1>10, <2>2, <3>1
  <2> QED
    BY <1>9, <2>1, <2>2
<1>13. QED
  BY <1>2, <1>4, <1>5, <1>6, <1>7, <1>11, <1>12 DEF SocketInv, TotalMissesTheEarly, JJ

\* The disconnect handler (index.js:138-146), with the validation of the socket
\* still under way or given up.
LEMMA OnDisconnectKeeps ==
  ASSUME SocketInv, NEW s \in connected, OnDisconnect(s),
         validating' \in {validating, validating \ {s}},
         UNCHANGED <<query, consumer, received, owed>>
  PROVE  SocketInv'
<1>1. /\ connected' = connected \ {s} /\ members' = members \ {s}
      /\ rooms' = Left(rooms, Args(query[s]))
      /\ socket_count' = socket_count - 1
      /\ left' = IF s \in members THEN left ELSE left \cup {s}
  BY DEF OnDisconnect, RoomOf
<1>2. SocketTypes'
  BY <1>1 DEF SocketInv, SocketTypes
<1>3. KnownSockets'
  <2>1. members' \subseteq members
    BY <1>1
  <2>2. IsFiniteSet(members')
    BY <2>1, FS_Subset DEF SocketInv, KnownSockets
  <2>3. QED
    BY <1>1, <2>2 DEF SocketInv, KnownSockets
<1>4. s \in Sockets /\ s \notin left /\ query[s] # NoQuery
  BY QueriesAssumption DEF SocketInv, SocketTypes, LeftBehind, KnownSockets
<1>5. LeftBehind'
  <2>1. IsFiniteSet(left')
    BY <1>1, FS_AddElement DEF SocketInv, LeftBehind
  <2>2. left' \subseteq Sockets /\ \A t \in left' : query'[t] # NoQuery
    BY <1>1, <1>4 DEF SocketInv, LeftBehind
  <2>3. validating' \ connected' \subseteq left'
    BY <1>1 DEF SocketInv, LeftBehind, KnownSockets
  <2>4. left' \cap (connected' \cup members') = {}
    BY <1>1 DEF SocketInv, LeftBehind
  <2> QED
    BY <2>1, <2>2, <2>3, <2>4 DEF LeftBehind
<1>6. OnlyWhatWasAskedFor' /\ PlainMembersServed'
  BY HistoryKept
<1>7. CountsOK(rooms')
  BY <1>1, LeftType DEF SocketInv
<1> DEFINE J == members \cap connected
           JJ == members' \cap connected'
<1>8. \/ s \in J /\ s \in members /\ JJ = J \ {s} /\ members' = members \ {s} /\ left' = left
      \/ s \notin left /\ JJ = J /\ members' = members /\ left' = left \cup {s}
  BY <1>1, <1>4
<1>9. /\ IsFiniteSet(J) /\ IsFiniteSet(members) /\ IsFiniteSet(left) /\ CountsOK(rooms)
      /\ Cardinality(J) \in Nat /\ Cardinality(left) \in Nat
      /\ CountsWithin(rooms, J, members, left, query)
      /\ socket_count = Cardinality(J) - Cardinality(left)
  BY JoinedAreFinite DEF SocketInv, TotalMissesTheEarly
<1> HIDE DEF J, JJ
<1>10. CountsWithin(rooms', JJ, members', left', query')
  <2>1. CountsWithin(Left(rooms, Args(query[s])), JJ, members', left', query)
    BY <1>8, <1>9, LeaveKeepsCounts
  <2> QED
    BY <1>1, <2>1
<1>11. socket_count' = Cardinality(JJ) - Cardinality(left')
  <2>1. CASE s \in J /\ JJ = J \ {s} /\ left' = left
    <3>1. Cardinality(JJ) = Cardinality(J) - 1
      BY <1>9, <2>1, FS_RemoveElement
    <3> QED
      BY <1>1, <1>9, <2>1, <3>1
  <2>2. CASE s \notin left /\ JJ = J /\ left' = left \cup {s}
    <3>1. Cardinality(left') = Cardinality(left) + 1
      BY <1>9, <2>2, FS_AddElement
    <3> QED
      BY <1>1, <1>9, <2>2, <3>1
  <2> QED
    BY <1>8, <2>1, <2>2
<1>12. QED
  BY <1>2, <1>3, <1>5, <1>6, <1>7, <1>10, <1>11 DEF SocketInv, TotalMissesTheEarly, JJ

\* A rejected client that is still there leaves before it joined.
LEMMA ValidationRejectsKeeps ==
  ASSUME SocketInv, NEW s \in Sockets, ValidationRejects(s)
  PROVE  SocketInv'
<1>1. CASE s \in connected
  BY <1>1, OnDisconnectKeeps DEF ValidationRejects
<1>2. CASE s \notin connected
  <2>1. /\ s \in validating /\ validating' = validating \ {s}
        /\ UNCHANGED <<connected, members, rooms, socket_count, left,
                       query, consumer, received, owed>>
    BY <1>2 DEF ValidationRejects
  <2>2. SocketTypes' /\ KnownSockets' /\ LeftBehind' /\ CountsOK(rooms')
    BY <2>1 DEF SocketInv, SocketTypes, KnownSockets, LeftBehind
  <2>3. OnlyWhatWasAskedFor' /\ PlainMembersServed'
    BY <2>1, HistoryKept
  <2>4. /\ CountsWithin(rooms', members' \cap connected', members', left', query')
        /\ TotalMissesTheEarly'
    BY <2>1 DEF SocketInv, TotalMissesTheEarly
  <2>5. QED
    BY <2>2, <2>3, <2>4 DEF SocketInv
<1>3. QED
  BY <1>1, <1>2

\* After a restart nobody is counted and nobody is connected.
LEMMA ValidationRequestFailsKeeps ==
  ASSUME SocketInv, NEW s \in Sockets, ValidationRequestFails(s)
  PROVE  SocketInv'
<1>1. /\ connected' = {} /\ validating' = {} /\ members' = {} /\ rooms' = << >>
      /\ socket_count' = 0 /\ consumer' = FALSE
      /\ left' = {} /\ UNCHANGED <<query, received, owed>>
  BY DEF ValidationRequestFails
<1>2. SocketTypes'
  <2>1. consumer' \in BOOLEAN
    BY <1>1
  <2>2. QED
    BY <1>1, <2>1 DEF SocketInv, SocketTypes
<1>3. KnownSockets' /\ LeftBehind'
  BY <1>1, FS_EmptySet DEF SocketInv, KnownSockets, LeftBehind
<1>4. OnlyWhatWasAskedFor' /\ PlainMembersServed'
  BY <1>1, HistoryKept
<1>5. members' \cap connected' = {}
  BY <1>1
<1>6. CountsOK(rooms') /\ CountsWithin(rooms', members' \cap connected', members', left', query')
  BY <1>1, <1>5, NothingCounted
<1>7. TotalMissesTheEarly'
  BY <1>1, <1>5, FS_EmptySet DEF TotalMissesTheEarly
<1>8. QED
  BY <1>2, <1>3, <1>4, <1>6, <1>7 DEF SocketInv

\* The consumer application comes and goes, or nothing happens.
LEMMA ConsumerConnectionKeeps ==
  ASSUME SocketInv, ConnectConsumer \/ ConsumerDisconnects \/ UNCHANGED vars
  PROVE  SocketInv'
<1>1. /\ UNCHANGED <<query, connected, validating, members, rooms, socket_count,
                     received, owed, left>>
      /\ consumer' \in BOOLEAN
  BY DEF ConnectConsumer, ConsumerDisconnects, vars, SocketInv, SocketTypes
<1>2. SocketTypes' /\ KnownSockets' /\ LeftBehind' /\ CountsOK(rooms')
  BY <1>1 DEF SocketInv, SocketTypes, KnownSockets, LeftBehind
<1>3. OnlyWhatWasAskedFor' /\ PlainMembersServed'
  BY <1>1, HistoryKept
<1>4. /\ CountsWithin(rooms', members' \cap connected', members', left', query')
      /\ TotalMissesTheEarly'
  BY <1>1 DEF SocketInv, TotalMissesTheEarly
<1>5. QED
  BY <1>2, <1>3, <1>4 DEF SocketInv

\* An observation goes to the members whose filters it meets (index.js:20-32).
LEMMA InternalDataKeeps ==
  ASSUME SocketInv, NEW data \in Data, InternalData(data)
  PROVE  SocketInv'
<1>1. /\ received' = [s \in Sockets |-> IF s \in Recipients(data)
                                        THEN received[s] \cup {data}
                                        ELSE received[s]]
      /\ owed' = [s \in Sockets |->
                    IF /\ s \in members \cap connected /\ AsksFor(query[s], data)
                       /\ Survives(RoomOf(s))
                    THEN owed[s] \cup {data}
                    ELSE owed[s]]
      /\ UNCHANGED <<query, connected, validating, members, rooms, socket_count,
                     consumer, left>>
  BY DEF InternalData
<1>2. /\ \A s \in Recipients(data) : /\ s \in members \cap connected
                                     /\ Args(query[s]) \in DOMAIN rooms
                                     /\ Wants(Args(query[s]), data)
      /\ \A s \in members \cap connected : query[s] \in Queries /\ Parses(query[s])
      /\ received \in [Sockets -> SUBSET Data] /\ owed \in [Sockets -> SUBSET Data]
  BY DEF Recipients, RoomOf, SocketInv, SocketTypes, KnownSockets
<1>3. SocketTypes'
  <2>1. received' \in [Sockets -> SUBSET Data] /\ owed' \in [Sockets -> SUBSET Data]
    BY <1>1, <1>2
  <2>2. QED
    BY <1>1, <2>1 DEF SocketInv, SocketTypes
<1>4. KnownSockets'
  <2>1. \A s \in Sockets : query[s] = NoQuery => received'[s] = {} /\ owed'[s] = {}
    BY <1>1, <1>2, QueriesAssumption DEF SocketInv, KnownSockets
  <2>2. QED
    BY <1>1, <2>1 DEF SocketInv, KnownSockets
<1>5. LeftBehind' /\ CountsOK(rooms')
  BY <1>1 DEF SocketInv, LeftBehind
<1>6. OnlyWhatWasAskedFor'
  <2>1. ASSUME NEW s \in Sockets, NEW d \in received'[s]
        PROVE  AsksFor(query[s], d)
    <3>1. CASE d \in received[s]
      BY <3>1 DEF SocketInv, OnlyWhatWasAskedFor
    <3>2. CASE d = data /\ s \in Recipients(data)
      BY <1>2, <3>2, FiltersAreStrict
    <3>3. QED
      BY <1>1, <2>1, <3>1, <3>2
  <2>2. QED
    BY <1>1, <2>1 DEF OnlyWhatWasAskedFor
<1>7. PlainMembersServed'
  <2>1. ASSUME NEW s \in Sockets, query[s] # NoQuery, Plain(query[s]),
               NEW d \in owed'[s]
        PROVE  d \in received'[s]
    <3>1. CASE d \in owed[s]
      BY <1>1, <2>1, <3>1 DEF SocketInv, PlainMembersServed
    <3>2. CASE /\ d = data /\ s \in members \cap connected /\ AsksFor(query[s], data)
               /\ Survives(RoomOf(s))
      <4>1. Wants(Args(query[s]), data)
        BY <2>1, <3>2, PlainFiltersPass
      <4>2. Args(query[s]) \in DOMAIN rooms
        <5> DEFINE r == Args(query[s])
        <5>1. /\ JoinedIn(r) = In(members \cap connected, query, r)
              /\ LeftEarly(r) = In(left, query, r)
          BY DEF JoinedIn, LeftEarly, In, RoomOf
        <5>2. /\ Cardinality(In(left, query, r)) < Cardinality(In(members \cap connected, query, r))
              /\ CountIn(rooms, r) >= Cardinality(In(members \cap connected, query, r))
                                        - Cardinality(In(left, query, r))
          BY <3>2, <5>1 DEF Survives, RoomOf, SocketInv, CountsWithin, Within
        <5>3. /\ Cardinality(In(left, query, r)) \in Nat
              /\ Cardinality(In(members \cap connected, query, r)) \in Nat
          BY JoinedAreFinite, RoomSize
        <5> HIDE DEF r
        <5>4. CountIn(rooms, r) # 0
          BY <5>2, <5>3
        <5> QED
          BY <5>4 DEF CountIn, r
      <4>3. s \in Recipients(data)
        BY <3>2, <4>1, <4>2 DEF Recipients, RoomOf
      <4>4. QED
        BY <1>1, <3>2, <4>3
    <3>3. QED
      BY <1>1, <2>1, <3>1, <3>2
  <2>2. QED
    BY <1>1, <2>1 DEF PlainMembersServed
<1>8. /\ CountsWithin(rooms', members' \cap connected', members', left', query')
      /\ TotalMissesTheEarly'
  BY <1>1 DEF SocketInv, TotalMissesTheEarly
<1>9. QED
  BY <1>3, <1>4, <1>5, <1>6, <1>7, <1>8 DEF SocketInv

\* Every step keeps the invariant.
LEMMA SocketStepKeeps == SocketInv /\ [Next]_vars => SocketInv'
<1> SUFFICES ASSUME SocketInv, [Next]_vars PROVE SocketInv'
  OBVIOUS
<1>1. ASSUME NEW s \in Sockets, NEW q \in Queries, ConnectClient(s, q) PROVE SocketInv'
  BY <1>1, ConnectClientKeeps
<1>2. ASSUME NEW s \in Sockets, ValidationSucceeds(s) PROVE SocketInv'
  BY <1>2, ValidationSucceedsKeeps
<1>3. ASSUME NEW s \in Sockets, ValidationRejects(s) PROVE SocketInv'
  BY <1>3, ValidationRejectsKeeps
<1>4. ASSUME NEW s \in Sockets, ClientDisconnects(s) PROVE SocketInv'
  BY <1>4, OnDisconnectKeeps DEF ClientDisconnects
<1>5. ASSUME NEW s \in Sockets, ValidationRequestFails(s) PROVE SocketInv'
  BY <1>5, ValidationRequestFailsKeeps
<1>6. CASE ConnectConsumer \/ ConsumerDisconnects \/ UNCHANGED vars
  BY <1>6, ConsumerConnectionKeeps
<1>7. ASSUME NEW data \in Data, InternalData(data) PROVE SocketInv'
  BY <1>7, InternalDataKeeps
<1>8. QED
  BY <1>1, <1>2, <1>3, <1>4, <1>5, <1>6, <1>7, Zenon DEF Next

-----------------------------------------------------------------------------
\* The invariant of the server's bookkeeping (index.js:90-146).
THEOREM SocketInvariant == Spec => []SocketInv
<1>1. QED
  BY SocketStarts, SocketStepKeeps, PTL DEF Spec

\* In whatever order validations, departures, failures and observations come, no
\* client is sent an observation that its query does not ask for
\* (index.js:20-32).
THEOREM SocketsGetOnlyWhatTheyAsked == Spec => []OnlyWhatWasAskedFor
<1>1. SocketInv => OnlyWhatWasAskedFor
  BY DEF SocketInv
<1>2. QED
  BY <1>1, SocketInvariant, PTL

\* Each client with plain filters gets every observation it asked for that comes
\* while it is a connected member and its room has lost fewer clients before
\* they joined than it has members (index.js:20-32, 110-115, 140-145).
THEOREM PlainMembersAreServed == Spec => []PlainMembersServed
<1>1. SocketInv => PlainMembersServed
  BY DEF SocketInv
<1>2. QED
  BY <1>1, SocketInvariant, PTL

\* The server's two counts err by the clients that leave before they join and
\* by nothing else, whatever the order of joins, departures and restarts: the
\* total is the number of connected members less those clients, and each room's
\* count is between its connected members less its own such clients and all that
\* ever joined it and did not leave (index.js:103-146).
THEOREM CountsAreAlwaysSound == Spec => []CountsAreSound
<1>1. SocketInv => CountsAreSound
  BY RoomsAreCounted
    DEF SocketInv, SocketTypes, CountsOK, TypeOK, LeftBehind, CountsAreSound
<1> QED
  BY <1>1, SocketInvariant, PTL
=============================================================================
