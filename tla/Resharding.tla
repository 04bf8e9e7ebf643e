----------------------------- MODULE Resharding -----------------------------
(***************************************************************************)
(* Moving a hash slot from one master to another while clients use it      *)
(* (cluster.c): SETSLOT, MIGRATE with its socket cache, RESTORE, and the   *)
(* redirections of getNodeByQuery.  The operator is redis-trib's move_slot *)
(* (redis-trib.rb).                                                        *)
(*                                                                         *)
(* MIGRATE blocks the source until the target has answered or the timeout  *)
(* has passed; the target serves other clients meanwhile.  What was sent   *)
(* on a connection that the source closed may still be executed.           *)
(***************************************************************************)
EXTENDS Integers, Sequences, FiniteSets, SequencesExt

CONSTANTS SlotKeys,      \* the keys of the slot
          MaxWrites,     \* bound: writes of the client
          ReshardSetups  \* what may happen, see below

(***************************************************************************)
(* A setup is a record:                                                    *)
(*   faults    "early": a MIGRATE times out before the first answer;       *)
(*             "late": it times out after some; "reset": the connection    *)
(*             is reset before the first answer                            *)
(*   mishaps   how many of them                                            *)
(*   fix       redis-trib runs with its fix option: REPLACE after BUSYKEY  *)
(*   inorder   what a closed connection still carries is executed before   *)
(*             what comes on a newer one, and before other clients' queries*)
(*   expiries  the TTLs of written keys: "none", or one of their "own"     *)
(***************************************************************************)
ASSUME ReshardAssumption ==
  /\ IsFiniteSet(SlotKeys) /\ MaxWrites \in Nat
  /\ \A c \in ReshardSetups : /\ c.faults \subseteq {"early", "late", "reset"}
                              /\ c.mishaps \in Nat /\ c.fix \in BOOLEAN /\ c.inorder \in BOOLEAN
                              /\ c.expiries \subseteq {"none", "own"} /\ c.expiries # {}

VARIABLES resh,    \* the setup; it never changes
          slotOf,  \* each node's slots[slot]
          open,    \* nodes with migrating_slots_to (A) or importing_slots_from (B)
          store,   \* each master's keys: a value, or Missing
          sock,    \* A's cached connection to B
          late,    \* RESTOREs on connections A has closed
          mig,     \* the MIGRATE that A executes, or Idle
          trib,    \* how far move_slot is
          query,   \* the client's query on its way, or Idle
          latest,  \* history: what the client was told is stored
          misread, \* history: keys that A deleted for an answer that was not theirs
          wrong,   \* history: keys the client read an old value of
          failed,  \* timeouts and resets so far
          writes   \* SETs so far

reshVars == <<resh, slotOf, open, store, sock, late, mig, trib, query, latest, misread, wrong, failed, writes>>

A == "source"
B == "target"
C == "slave"     \* a slave of A
Missing == [ver |-> 0, ttl |-> "none"]
Idle == [op |-> "none"]
NoSock == [open |-> FALSE, selected |-> FALSE, reqs |-> <<>>, reps |-> <<>>]
KeysAt(n) == {k \in SlotKeys : store[n][k] # Missing}
MasterKeys(n) == IF n = C THEN KeysAt(A) ELSE KeysAt(n)

(***************************************************************************)
(* getNodeByQuery: who serves a query for keys K sent to node n.  asking:  *)
(* the client sent ASKING, or the command is RESTORE-ASKING.  The cluster  *)
(* is up and the slot bound; all keys are in one slot.                     *)
(***************************************************************************)
\* Mutant: a migrating node serves what it lacks.
ServesWhatItLacks(n, K, asking, readonly) ==
  LET importing == n = B /\ B \in open
  IN  IF importing /\ asking
      THEN IF Cardinality(K) > 1 /\ K \ MasterKeys(n) # {}
           THEN [code |-> "tryagain", node |-> n] ELSE [code |-> "none", node |-> n]
      ELSE IF readonly /\ n = C /\ slotOf[C] = A THEN [code |-> "none", node |-> C]
      ELSE IF slotOf[n] # n THEN [code |-> "moved", node |-> slotOf[n]]
      ELSE [code |-> "none", node |-> n]

GetNodeByQuery(n, K, asking, readonly) ==
  LET migrating == n = A /\ slotOf[A] = A /\ A \in open
      importing == n = B /\ B \in open
      missing == K \ MasterKeys(n) # {}
  IN  IF migrating /\ missing THEN [code |-> "ask", node |-> B]
      ELSE IF importing /\ asking
      THEN IF Cardinality(K) > 1 /\ missing
           THEN [code |-> "tryagain", node |-> n] ELSE [code |-> "none", node |-> n]
      ELSE IF readonly /\ n = C /\ slotOf[C] = A THEN [code |-> "none", node |-> C]
      ELSE IF slotOf[n] # n THEN [code |-> "moved", node |-> slotOf[n]]
      ELSE [code |-> "none", node |-> n]

(***************************************************************************)
(* The client: one query at a time, following redirections.                *)
(***************************************************************************)
Ready(n) == (n = A => mig = Idle) /\ (n = B /\ resh.inorder => late = <<>>)

SendQuery(op, K, n, readonly) ==
  /\ query = Idle
  /\ (op = "set" => writes < MaxWrites)
  /\ query' = [op |-> op, keys |-> K, at |-> n, asking |-> FALSE, readonly |-> readonly]
  /\ UNCHANGED <<resh, slotOf, open, store, sock, late, mig, trib, latest, misread, wrong, failed, writes>>

\* processCommand: the query is executed, or clusterRedirectClient answers.
ServeQuery ==
  LET q == query
      r == GetNodeByQuery(q.at, q.keys, q.asking, q.readonly)
      Now(ttl) == [ver |-> writes + 2, ttl |-> ttl]
  IN  /\ q # Idle /\ Ready(q.at)
      /\ CASE r.code = "none" /\ q.op = "set" ->
                \E ttl \in resh.expiries :
                  /\ store' = [store EXCEPT ![q.at] = [k \in SlotKeys |->
                                 IF k \in q.keys THEN Now(ttl) ELSE store[q.at][k]]]
                  /\ latest' = [k \in SlotKeys |-> IF k \in q.keys THEN Now(ttl)
                                                   ELSE latest[k]]
                  /\ query' = Idle /\ UNCHANGED wrong
           [] r.code = "none" /\ q.op = "del" ->
                /\ store' = [store EXCEPT ![q.at] = [k \in SlotKeys |->
                               IF k \in q.keys THEN Missing ELSE store[q.at][k]]]
                /\ latest' = [k \in SlotKeys |-> IF k \in q.keys THEN Missing ELSE latest[k]]
                /\ query' = Idle /\ UNCHANGED wrong
           [] r.code = "none" /\ q.op = "get" ->
                /\ wrong' = wrong \cup {k \in q.keys : q.at # C /\ store[q.at][k].ver # latest[k].ver}
                /\ query' = Idle /\ UNCHANGED <<store, latest>>
           [] r.code = "tryagain" ->
                query' = Idle /\ UNCHANGED <<store, latest, wrong>>
           [] OTHER ->
                /\ query' = [q EXCEPT !.at = r.node, !.asking = r.code = "ask"]
                /\ UNCHANGED <<store, latest, wrong>>
      /\ writes' = IF r.code = "none" /\ q.op = "set" THEN writes + 1 ELSE writes
      /\ UNCHANGED <<resh, slotOf, open, sock, late, mig, trib, misread, failed>>

(***************************************************************************)
(* CLUSTER SETSLOT, as move_slot sends it.                                 *)
(***************************************************************************)
SetSlotImportingFrom ==
  /\ trib = "start" /\ slotOf[B] # B
  /\ open' = open \cup {B} /\ trib' = "importing"
  /\ UNCHANGED <<resh, slotOf, store, sock, late, mig, query, latest, misread, wrong, failed, writes>>

SetSlotMigratingTo ==
  /\ trib = "importing" /\ mig = Idle /\ slotOf[A] = A
  /\ open' = open \cup {A} /\ trib' = "moving"
  /\ UNCHANGED <<resh, slotOf, store, sock, late, mig, query, latest, misread, wrong, failed, writes>>

\* GETKEYSINSLOT finds no key: the loop of move_slot ends.
NoKeysLeft ==
  /\ trib = "moving" /\ mig = Idle /\ KeysAt(A) = {}
  /\ trib' = "closing"
  /\ UNCHANGED <<resh, slotOf, open, store, sock, late, mig, query, latest, misread, wrong, failed, writes>>

\* SETSLOT NODE at either master, in any order.  The source refuses while it
\* holds keys.
SetSlotNodeTo(n) ==
  /\ trib = "closing" /\ slotOf[n] # B /\ Ready(n)
  /\ n = A => KeysAt(A) = {}
  /\ slotOf' = [slotOf EXCEPT ![n] = B]
  /\ open' = open \ {n}
  /\ UNCHANGED <<resh, store, sock, late, mig, trib, query, latest, misread, wrong, failed, writes>>

\* SETSLOT STABLE at both: an operator gives up a move that has failed.
SetSlotStable ==
  /\ trib = "error" /\ mig = Idle
  /\ open' = {} /\ trib' = "start"
  /\ UNCHANGED <<resh, slotOf, store, sock, late, mig, query, latest, misread, wrong, failed, writes>>

\* clusterUpdateSlotsConfigWith at a node that hears of the new owner: the
\* source deletes the keys that it still has.
HearOfNewOwner(n) ==
  /\ slotOf[B] = B /\ slotOf[n] # B /\ Ready(n)
  /\ slotOf' = [slotOf EXCEPT ![n] = B]
  /\ store' = IF n = A THEN [store EXCEPT ![A] = [k \in SlotKeys |-> Missing]] ELSE store
  /\ UNCHANGED <<resh, open, sock, late, mig, trib, query, latest, misread, wrong, failed, writes>>

(***************************************************************************)
(* MIGRATE at the source.                                                  *)
(***************************************************************************)
\* createDumpPayload and the RESTORE commands.  The variable ttl of the code is
\* cleared once and keeps its value from key to key, and into a second attempt
\* (again): a key without expire is lent the TTL of an earlier one.
Restores(ks, replace, again) ==
  [j \in 1..Len(ks) |->
     [key |-> ks[j], ver |-> store[A][ks[j]].ver, replace |-> replace, old |-> FALSE,
      ttl |-> IF store[A][ks[j]].ttl = "own" THEN "own"
              ELSE IF \E i \in 1..(IF again THEN Len(ks) ELSE j) : store[A][ks[i]].ttl = "own"
              THEN "lent" ELSE "none"]]

\* migrateGetSocket: the cached connection, or a new one; then the commands
\* are written, with SELECT if the connection's last database is not known.
\* What the connection still carries is of an earlier MIGRATE.
Connected == IF sock.open THEN sock ELSE [NoSock EXCEPT !.open = TRUE]
Select == [key |-> "select", old |-> FALSE]
Aged(xs) == [i \in 1..Len(xs) |-> [xs[i] EXCEPT !.old = TRUE]]
Unserved == SelectSeq(sock.reqs, LAMBDA r : r.key # "select")

Send(ks, replace, retry) ==
  /\ sock' = [Connected EXCEPT !.reqs = Aged(@) \o (IF Connected.selected THEN <<>> ELSE <<Select>>)
                                                \o Restores(ks, replace, FALSE),
                               !.reps = Aged(@)]
  /\ mig' = [op |-> "migrate", keys |-> ks, replace |-> replace, retry |-> retry, j |-> 0,
             select |-> ~Connected.selected, selectErr |-> FALSE, err |-> FALSE, del |-> 0]

Migrate(ks, replace) ==
  /\ trib = "moving" /\ mig = Idle /\ KeysAt(A) # {}
  /\ ToSet(ks) = KeysAt(A)
  /\ replace => resh.fix /\ failed > 0
  /\ Send(ks, replace, TRUE)
  /\ UNCHANGED <<resh, slotOf, open, store, late, trib, query, latest, misread, wrong, failed, writes>>

\* Mutant: a key is deleted whatever the target answered.
DeletesAnyway(answer, selectErr) == FALSE

\* An answer of the target is an error, or that of SELECT was.
IsError(answer, selectErr) == selectErr \/ answer = "err"

\* What tells, in the history, a key's answer from an earlier MIGRATE's and from SELECT's.
IsAnswerFor(k) == Head(sock.reps).key = k /\ ~Head(sock.reps).old

\* The source reads an answer: the first to SELECT, then one per key.
ReadReply ==
  LET answer == Head(sock.reps).answer
      k == mig.keys[mig.j + 1]
      bad == IsError(answer, mig.selectErr)
      last == mig.j + 1 = Len(mig.keys)
      anyErr == mig.err \/ bad
  IN  /\ mig # Idle /\ sock.reps # <<>>
      /\ IF mig.select
         THEN /\ mig' = [mig EXCEPT !.select = FALSE, !.selectErr = answer = "err"]
              /\ sock' = [sock EXCEPT !.reps = Tail(@)]
              /\ UNCHANGED <<store, trib, misread>>
         ELSE /\ store' = IF bad THEN store ELSE [store EXCEPT ![A][k] = Missing]
              /\ misread' = IF ~bad /\ ~IsAnswerFor(k) THEN misread \cup {k} ELSE misread
              /\ mig' = IF last THEN Idle
                        ELSE [mig EXCEPT !.j = @ + 1, !.err = anyErr,
                                         !.del = IF bad THEN @ ELSE @ + 1]
              /\ sock' = [sock EXCEPT !.reps = Tail(@), !.selected = ~anyErr /\ (last \/ @)]
              /\ trib' = IF last /\ anyErr /\ ~resh.fix THEN "error" ELSE trib
      /\ UNCHANGED <<resh, slotOf, open, late, query, latest, wrong, failed, writes>>

\* migrateCloseSocket.  After the command was rewritten as DEL, its arguments
\* no longer name the target, and the connection stays in the cache.
CloseSocket ==
  IF mig.del > 0 THEN UNCHANGED <<sock, late>>
  ELSE sock' = NoSock /\ late' = late \o Unserved

\* No answer within the timeout: the MIGRATE ends with an error.
MigrateTimeout ==
  /\ mig # Idle /\ sock.reps = <<>> /\ failed < resh.mishaps
  /\ (IF mig.j = 0 THEN "early" ELSE "late") \in resh.faults
  /\ CloseSocket
  /\ mig' = Idle /\ trib' = "error" /\ failed' = failed + 1
  /\ UNCHANGED <<resh, slotOf, open, store, query, latest, misread, wrong, writes>>

\* The connection is reset before the first answer: MIGRATE tries once more,
\* on a new connection, and fails if it happens again.  The target may have
\* executed some of the commands.
ConnectionReset ==
  /\ mig # Idle /\ mig.j = 0 /\ failed < resh.mishaps /\ "reset" \in resh.faults
  /\ late' = late \o Unserved
  /\ IF mig.retry
     THEN LET ks == mig.keys
              fresh == [NoSock EXCEPT !.open = TRUE, !.reqs = <<Select>> \o Restores(ks, mig.replace, TRUE)]
          IN  /\ sock' = fresh
              /\ mig' = [mig EXCEPT !.retry = FALSE, !.select = TRUE, !.selectErr = FALSE,
                                    !.err = FALSE]
              /\ UNCHANGED trib
     ELSE sock' = NoSock /\ mig' = Idle /\ trib' = "error"
  /\ failed' = failed + 1
  /\ UNCHANGED <<resh, slotOf, open, store, query, latest, misread, wrong, writes>>

\* migrateCloseTimedoutSockets: a connection unused for ten seconds is closed.
CloseTimedoutSocket ==
  /\ mig = Idle /\ sock.open /\ sock' = NoSock
  /\ late' = late \o Unserved
  /\ UNCHANGED <<resh, slotOf, open, store, mig, trib, query, latest, misread, wrong, failed, writes>>

(***************************************************************************)
(* RESTORE-ASKING at the target.                                           *)
(***************************************************************************)
\* Mutant: the TTL is dropped.
RestoreWithoutTtl(r) ==
  IF \/ GetNodeByQuery(B, {r.key}, TRUE, FALSE).code # "none"
     \/ ~r.replace /\ store[B][r.key] # Missing
  THEN store[B]
  ELSE [store[B] EXCEPT ![r.key] = [ver |-> r.ver, ttl |-> "none"]]

\* restoreCommand: the keys of the target after it.
RestoreCommand(r) ==
  IF \/ GetNodeByQuery(B, {r.key}, TRUE, FALSE).code # "none"
     \/ ~r.replace /\ store[B][r.key] # Missing
  THEN store[B]
  ELSE [store[B] EXCEPT ![r.key] = [ver |-> r.ver, ttl |-> r.ttl]]

Refused(r) == /\ r.key # "select"
              /\ \/ GetNodeByQuery(B, {r.key}, TRUE, FALSE).code # "none"
                 \/ ~r.replace /\ store[B][r.key] # Missing

TargetServes ==
  LET r == Head(sock.reqs)
  IN  /\ sock.reqs # <<>> /\ Ready(B)
      /\ store' = IF r.key = "select" THEN store ELSE [store EXCEPT ![B] = RestoreCommand(r)]
      /\ sock' = [sock EXCEPT !.reqs = Tail(@),
                              !.reps = Append(@, [answer |-> IF Refused(r) THEN "err" ELSE "ok", key |-> r.key,
                                                   old |-> r.old])]
      /\ UNCHANGED <<resh, slotOf, open, late, mig, trib, query, latest, misread, wrong, failed, writes>>

\* A command of a closed connection is executed, or was lost with it.
LateRestore ==
  /\ late # <<>> /\ late' = Tail(late)
  /\ \/ store' = [store EXCEPT ![B] = RestoreCommand(Head(late))]
     \/ UNCHANGED store
  /\ UNCHANGED <<resh, slotOf, open, sock, mig, trib, query, latest, misread, wrong, failed, writes>>

(***************************************************************************)
(* The specification.                                                      *)
(***************************************************************************)
ReshardInit ==
  /\ resh \in ReshardSetups
  /\ \E ttl \in [SlotKeys -> resh.expiries] :
       LET first == [k \in SlotKeys |-> [ver |-> 1, ttl |-> ttl[k]]]
       IN  /\ store = [n \in {A, B} |-> IF n = A THEN first ELSE [k \in SlotKeys |-> Missing]]
           /\ latest = first
  /\ slotOf = [n \in {A, B, C} |-> A] /\ open = {} /\ sock = NoSock /\ late = <<>>
  /\ mig = Idle /\ trib = "start" /\ query = Idle /\ misread = {} /\ wrong = {} /\ failed = 0
  /\ writes = 0

ReshardNext ==
  \/ \E op \in {"set", "del", "get"}, k \in SlotKeys, n \in {A, B} :
       SendQuery(op, {k}, n, FALSE)
  \/ \E n \in {A, B, C} : SendQuery("get", SlotKeys, n, n = C)
  \/ ServeQuery
  \/ SetSlotImportingFrom \/ SetSlotMigratingTo \/ NoKeysLeft \/ SetSlotStable
  \/ \E n \in {A, B} : SetSlotNodeTo(n)
  \/ \E n \in {A, C} : HearOfNewOwner(n)
  \/ \E ks \in SetToSeqs(KeysAt(A)), replace \in BOOLEAN : Migrate(ks, replace)
  \/ ReadReply \/ MigrateTimeout \/ ConnectionReset \/ CloseTimedoutSocket
  \/ TargetServes \/ LateRestore

(***************************************************************************)
(* Properties.                                                             *)
(***************************************************************************)
\* What the client was told is stored is stored by one of the masters: migrateCommand
\* deletes only what the target has acknowledged, and a source that loses the slot
\* has no key left to delete.  The TTL of a key comes with it; a key without one
\* may be lent one that an earlier key of its MIGRATE had, and then expires
\* (cluster.c:4670, 4745-4750).  And a key may be lost if the source took an answer
\* that was not the key's for it: a MIGRATE that times out after it has deleted
\* a key does not close its connection (cluster.c:4849, 4872-4891).
Keeps(stored, told) ==
  /\ stored.ver = told.ver
  /\ \/ stored.ttl = told.ttl
     \/ stored.ttl = "lent" /\ told.ttl = "none"

NoKeyIsLost ==
  \A k \in SlotKeys \ misread : latest[k] # Missing => \E n \in {A, B} : Keeps(store[n][k], latest[k])

\* Only a MIGRATE that timed out after its first answer leaves such a connection.
MisreadAfterLateTimeout == misread # {} => failed > 0 /\ "late" \in resh.faults

\* A query that a master serves sees the last value, also while the slot moves
\* and also for several keys at once, unless a MIGRATE has failed or was tried
\* again (its keys may then be on both sides).
ReadsAreCurrent == wrong # {} => failed > 0

\* A slot that moves key by key (cluster.c:4472-4905, 4974-5135): no key gets
\* lost on the way, and a client that follows the redirections reads its value.
MovingKeysAreSafe == NoKeyIsLost /\ MisreadAfterLateTimeout /\ ReadsAreCurrent
=============================================================================
