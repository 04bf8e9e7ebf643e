--------------------------- MODULE ConsumerProofs ---------------------------
(***************************************************************************)
(* Proofs about Consumer, for any number of records, sensors, metadata     *)
(* rows, changes of the metadata, crashes, and clients in the two pools,   *)
(* and every combination of failures.                                      *)
(***************************************************************************)
EXTENDS Consumer, FiniteSetTheorems, SequenceTheorems, TLAPS

Snapshots == [rows : RowSets, age : 0 .. MaxUpdates]

PullStates ==
  [stage : {"none", "waiting", "query", "done"}]
    \cup [stage : {"answered"}, new : Snapshots]

\* An INSERT that is under way is a record of three fields; it has finitely
\* many rows.
InsertOK(x) ==
  \/ x = NoInsert
  \/ /\ x = [stage |-> x.stage, rows |-> x.rows, age |-> x.age]
     /\ x.stage \in {"waiting", "sent"}
     /\ x.age \in Nat
     /\ IsFiniteSet(x.rows)

\* Pulls that hold a client of the Postgres pool.
Holding == {p \in Pulls : pull[p].stage \in {"query", "answered"}}

\* The blacklist names no sensor twice, and the errors that were not taken back
\* are those of the sensors on it and of those dropped from its end.
NoDuplicates(list) ==
  \A i, j \in 1 .. Len(list) : list[i] = list[j] => i = j

Reported(list, told, gone) ==
  \A s \in Sensors : told[s] = "error" <=> Contains(list, s) \/ s \in gone

Messages == {"error", "resolve"}
Told     == [Sensors -> {"nothing", "error", "resolve"}]

BlacklistOK(list, told, gone) ==
  /\ list \in Seq(Sensors)
  /\ told \in Told
  /\ NoDuplicates(list)
  /\ Reported(list, told, gone)

\* What apiary shows in the end, when the posts of a queue have arrived.
Outcome(queue, seen) == IF queue = << >> THEN seen ELSE Last(queue)

\* Of a sensor whose posts all arrive and in order apiary shows the last one.
ApiaryOK(told, queues, seen, bad) ==
  /\ queues \in [Sensors -> Seq(Messages)]
  /\ seen \in Told
  /\ \A s \in Sensors : s \notin bad /\ told[s] # "nothing" => told[s] = Outcome(queues[s], seen[s])

MemoryTypes ==
  /\ stream \in [Positions -> Contents]
  /\ metadata \in Snapshots
  /\ map = Snapshot(NoRows, 0)
  /\ pull \in [Pulls -> PullStates]
  /\ insert = [i \in Positions |-> insert[i]]
  /\ \A i \in Positions : InsertOK(insert[i])
  /\ pgFree \in Nat /\ rsFree \in Nat /\ leaked \in Nat /\ repeated \in Nat
  /\ readAt \in [Positions -> Nat]

ProgressTypes ==
  /\ alive \in BOOLEAN
  /\ position \in 0 .. Records
  /\ resumed \in 0 .. position
  /\ checkpointed \in 0 .. position
  /\ crashes \in 0 .. MaxCrashes

\* Every client of the pool is free or held by one pull.
PoolIsWhole == pgFree + Cardinality(Holding) = PgPool

\* Nothing is under way for the app's own map, for a record that was not given
\* to the process or is not JSON, or in a process that is gone.
Idle(i) == pull[<<"record", i>>].stage = "none" /\ insert[i] = NoInsert

NothingElseUnderWay ==
  /\ \A i \in Positions : pull[<<"map", i>>].stage = "none"
  /\ \A i \in Positions :
       ~alive \/ i > position \/ stream[i].kind = "garbage" => Idle(i)

\* A record that waits for Postgres has no INSERT yet.
OneThingAtATime ==
  \A i \in Positions :
    pull[<<"record", i>>].stage \in {"waiting", "query", "answered"}
      => insert[i] = NoInsert

\* What Postgres answered is at least as recent as the record it is for.
AnswersAreFresh ==
  /\ \A i \in Positions : readAt[i] <= metadata.age
  /\ \A i \in Positions :
       pull[<<"record", i>>].stage = "answered"
         => pull[<<"record", i>>].new.age >= readAt[i]

ReportsOK == BlacklistOK(blacklist, said, dropped) /\ ApiaryOK(said, posts, shown, marred)

\* What is inserted is at least as recent as the record: while nobody fills the
\* processor's own map, that is so of every INSERT.
InsertsAreFresh ==
  \A i \in Positions : insert[i].stage # "none" => insert[i].age >= readAt[i]

ConsumerInv ==
  /\ MemoryTypes /\ ProgressTypes /\ PoolIsWhole /\ RedshiftPoolIsExact
  /\ ReportsOK
  /\ NothingElseUnderWay /\ OneThingAtATime
  /\ AnswersAreFresh /\ InsertsAreFresh
  /\ EveryRecordAccountedFor

-----------------------------------------------------------------------------
(* The blacklist.                                                          *)

\* send_error (mapper.js:264-277): a sensor that is not on the list is put there
\* when it is reported.
LEMMA PushKeeps ==
  ASSUME NEW list, NEW told, NEW gone, BlacklistOK(list, told, gone),
         NEW sensor \in Sensors, ~Contains(list, sensor)
  PROVE  BlacklistOK(Append(list, sensor), [told EXCEPT ![sensor] = "error"], gone \ {sensor})
<1> DEFINE new == Append(list, sensor)
<1>1. list \in Seq(Sensors) /\ told \in Told
  BY DEF BlacklistOK
<1>2. /\ new \in Seq(Sensors) /\ Len(new) = Len(list) + 1 /\ Len(list) \in Nat
      /\ \A i \in 1 .. Len(list) : new[i] = list[i]
      /\ new[Len(list) + 1] = sensor
  BY <1>1
<1>3. \A i \in 1 .. Len(list) : list[i] # sensor
  BY DEF Contains
<1> HIDE DEF new
<1>4. NoDuplicates(new)
  BY <1>2, <1>3 DEF NoDuplicates, BlacklistOK
<1>5. \A s \in Sensors : Contains(new, s) <=> Contains(list, s) \/ s = sensor
  BY <1>2 DEF Contains
<1>6. Reported(new, [told EXCEPT ![sensor] = "error"], gone \ {sensor})
  BY <1>1, <1>5 DEF Reported, BlacklistOK, Told
<1>7. [told EXCEPT ![sensor] = "error"] \in Told
  BY <1>1 DEF Told
<1>8. QED
  BY <1>2, <1>4, <1>6, <1>7 DEF new, BlacklistOK

\* What the list keeps when one element goes: the others.
Shorter(new, list, gone) ==
  /\ new \in Seq(Sensors)
  /\ NoDuplicates(new)
  /\ \A s : Contains(new, s) <=> Contains(list, s) /\ s # gone

\* The list without its k-th element.
LEMMA CutKeeps ==
  ASSUME NEW list \in Seq(Sensors), NoDuplicates(list), NEW k \in 1 .. Len(list)
  PROVE  Shorter(RemoveAt(list, k), list, list[k])
<1> DEFINE a == SubSeq(list, 1, k - 1)
           b == SubSeq(list, k + 1, Len(list))
           new == RemoveAt(list, k)
           old(i) == IF i < k THEN i ELSE i + 1
           now(i) == IF i < k THEN i ELSE i - 1
<1>1. /\ a \in Seq(Sensors) /\ Len(a) = k - 1
      /\ \A i \in 1 .. k - 1 : a[i] = list[i]
  OBVIOUS
<1>2. /\ b \in Seq(Sensors) /\ Len(b) = Len(list) - k
      /\ \A i \in 1 .. Len(list) - k : b[i] = list[i + k]
  OBVIOUS
<1>3. new = a \o b
  BY DEF RemoveAt
<1> HIDE DEF a, b, new
<1>4. a \in Seq(Sensors) /\ b \in Seq(Sensors)
  BY <1>1, <1>2
<1>5. /\ new \in Seq(Sensors) /\ Len(new) = Len(a) + Len(b)
      /\ \A i \in 1 .. Len(a) + Len(b) :
           new[i] = IF i <= Len(a) THEN a[i] ELSE b[i - Len(a)]
  BY <1>3, <1>4, ConcatProperties
<1>6. /\ Len(list) \in Nat /\ Len(new) = Len(list) - 1
      /\ \A i \in 1 .. Len(new) : old(i) \in 1 .. Len(list) /\ old(i) # k
      /\ \A i, j \in 1 .. Len(new) : old(i) = old(j) => i = j
      /\ \A i \in 1 .. Len(list) : i # k => now(i) \in 1 .. Len(new) /\ old(now(i)) = i
  BY <1>1, <1>2, <1>5
<1>7. ASSUME NEW i \in 1 .. Len(new) PROVE new[i] = list[old(i)]
  <2>1. CASE i < k
    BY <1>1, <1>2, <1>5, <1>6, <2>1
  <2>2. CASE ~(i < k)
    <3>1. i - Len(a) \in 1 .. Len(list) - k /\ (i - Len(a)) + k = i + 1
      BY <1>1, <1>6, <2>2
    <3>2. new[i] = b[i - Len(a)]
      BY <1>1, <1>2, <1>5, <1>6, <2>2
    <3>3. QED
      BY <1>2, <2>2, <3>1, <3>2
  <2>3. QED
    BY <2>1, <2>2
<1> HIDE DEF old, now
<1>8. NoDuplicates(new)
  BY <1>6, <1>7 DEF NoDuplicates
<1>9. \A s : Contains(new, s) => Contains(list, s) /\ s # list[k]
  BY <1>6, <1>7 DEF Contains, NoDuplicates
<1>10. \A s : Contains(list, s) /\ s # list[k] => Contains(new, s)
  BY <1>6, <1>7 DEF Contains
<1>11. QED
  BY <1>5, <1>8, <1>9, <1>10 DEF new, Shorter

\* splice (mapper.js:301) for a sensor on the list.
LEMMA SpliceKeeps ==
  ASSUME NEW list, NEW told, NEW gone, BlacklistOK(list, told, gone), NEW sensor \in Sensors,
         Contains(list, sensor) \/ list = << >>
  PROVE  BlacklistOK(RemoveFirst(list, sensor), [told EXCEPT ![sensor] = "resolve"], gone \ {sensor})
<1> DEFINE new == RemoveFirst(list, sensor)
<1>1. list \in Seq(Sensors) /\ NoDuplicates(list) /\ told \in Told
  BY DEF BlacklistOK
<1>2. Shorter(new, list, sensor)
  <2>1. CASE Contains(list, sensor)
    <3>1. PICK k \in 1 .. Len(list) : list[k] = sensor
      BY <2>1 DEF Contains
    <3>2. {i \in 1 .. Len(list) : list[i] = sensor} = {k}
      BY <1>1, <3>1 DEF NoDuplicates
    <3>3. Min({k}) = k
      BY <1>1 DEF Min
    <3>4. RemoveFirst(list, sensor) = RemoveAt(list, k)
      BY <3>1, <3>2, <3>3 DEF RemoveFirst, SelectInSeq
    <3>5. QED
      BY <1>1, <3>1, <3>4, CutKeeps
  <2>2. CASE list = << >>
    <3>1. new = << >>
      BY <2>2 DEF RemoveFirst
    <3> HIDE DEF new
    <3>2. QED
      BY <1>1, <2>2, <3>1 DEF Contains, NoDuplicates, Shorter
  <2>3. QED
    BY <2>1, <2>2
<1> HIDE DEF new
<1>3. Reported(new, [told EXCEPT ![sensor] = "resolve"], gone \ {sensor})
  BY <1>1, <1>2 DEF Reported, BlacklistOK, Shorter, Told
<1>4. [told EXCEPT ![sensor] = "resolve"] \in Told
  BY <1>1 DEF Told
<1>5. QED
  BY <1>1, <1>2, <1>3, <1>4 DEF new, BlacklistOK, Shorter

\* splice(-1, 1) (mapper.js:301), for a sensor that is not on the list: the last
\* one goes, and its error is not taken back.
LEMMA StrayKeeps ==
  ASSUME NEW list, NEW told, NEW gone, BlacklistOK(list, told, gone), NEW sensor \in Sensors,
         ~Contains(list, sensor), list # << >>
  PROVE  BlacklistOK(Front(list), [told EXCEPT ![sensor] = "resolve"],
                     (gone \cup {Last(list)}) \ {sensor})
<1> DEFINE new == Front(list)
           last == list[Len(list)]
<1>1. list \in Seq(Sensors) /\ NoDuplicates(list) /\ told \in Told
  BY DEF BlacklistOK
<1>2. Shorter(new, list, last) /\ Last(list) = last /\ Contains(list, last)
  <2>1. Len(list) \in 1 .. Len(list)
    BY <1>1
  <2>2. SubSeq(list, Len(list) + 1, Len(list)) = << >>
    BY <1>1
  <2>3. Front(list) \in Seq(Sensors)
    BY <1>1, <2>1 DEF Front
  <2>4. Front(list) = Front(list) \o << >>
    BY <2>3
  <2>5. new = RemoveAt(list, Len(list))
    BY <2>2, <2>4 DEF Front, RemoveAt
  <2>6. Shorter(new, list, last)
    BY <1>1, <2>1, <2>5, CutKeeps
  <2>7. QED
    BY <2>1, <2>6 DEF Last, Contains
<1> HIDE DEF new, last
<1>3. last # sensor
  BY <1>2
<1>4. Reported(new, [told EXCEPT ![sensor] = "resolve"], (gone \cup {last}) \ {sensor})
  BY <1>1, <1>2, <1>3 DEF Reported, BlacklistOK, Shorter, Told
<1>5. [told EXCEPT ![sensor] = "resolve"] \in Told
  BY <1>1 DEF Told
<1>6. QED
  BY <1>1, <1>2, <1>4, <1>5 DEF new, BlacklistOK, Shorter

-----------------------------------------------------------------------------
(* apiary.                                                                 *)

\* A post is sent (mapper.js:265-276, 289-300): it is the last on its way.
LEMMA PostKeeps ==
  ASSUME ApiaryOK(said, posts, shown, marred), said \in Told,
         NEW sensor \in Sensors, NEW what \in Messages, Post(sensor, what)
  PROVE  ApiaryOK(said', posts', shown, marred)
<1>1. /\ said' = [said EXCEPT ![sensor] = what]
      /\ posts' = [posts EXCEPT ![sensor] = Append(posts[sensor], what)]
      /\ posts \in [Sensors -> Seq(Messages)]
  BY DEF Post, ApiaryOK
<1>2. /\ Append(posts[sensor], what) \in Seq(Messages)
      /\ Append(posts[sensor], what) # << >>
      /\ Last(Append(posts[sensor], what)) = what
  <2> DEFINE queue == posts[sensor]
             longer == Append(queue, what)
  <2>1. queue \in Seq(Messages)
    BY <1>1
  <2> HIDE DEF queue
  <2>2. /\ longer \in Seq(Messages) /\ Len(longer) = Len(queue) + 1
        /\ Len(queue) \in Nat /\ longer[Len(queue) + 1] = what
    BY <2>1
  <2>3. longer # << >> /\ longer[Len(longer)] = what
    <3> HIDE DEF longer
    <3>1. QED
      BY <2>2
  <2>4. QED
    BY <2>2, <2>3 DEF Last, queue
<1>3. posts' \in [Sensors -> Seq(Messages)]
  BY <1>1, <1>2
<1>4. /\ posts'[sensor] = Append(posts[sensor], what) /\ said'[sensor] = what
      /\ \A s \in Sensors : s # sensor => posts'[s] = posts[s] /\ said'[s] = said[s]
  BY <1>1 DEF Told
<1>5. \A s \in Sensors : s \notin marred /\ said'[s] # "nothing"
        => said'[s] = Outcome(posts'[s], shown[s])
  BY <1>2, <1>4 DEF ApiaryOK, Outcome
<1>6. QED
  BY <1>3, <1>5 DEF ApiaryOK

\* A queue without one of its posts.
LEMMA QueueShrinks ==
  ASSUME NEW queue \in Seq(Messages), NEW k \in 1 .. Len(queue)
  PROVE  /\ RemoveAt(queue, k) \in Seq(Messages)
         /\ queue[k] \in Messages
         /\ \A seen : k = 1 => Outcome(RemoveAt(queue, 1), queue[1]) = Outcome(queue, seen)
<1> DEFINE a == SubSeq(queue, 1, k - 1)
           b == SubSeq(queue, k + 1, Len(queue))
<1>1. a \in Seq(Messages) /\ b \in Seq(Messages) /\ Len(b) = Len(queue) - k
  OBVIOUS
<1>2. RemoveAt(queue, k) = a \o b
  BY DEF RemoveAt
<1>3. RemoveAt(queue, k) \in Seq(Messages)
  <2> HIDE DEF a, b
  <2>1. QED
    BY <1>1, <1>2, ConcatProperties
<1>4. ASSUME k = 1, NEW seen
      PROVE  Outcome(RemoveAt(queue, 1), queue[1]) = Outcome(queue, seen)
  <2>1. a = << >>
    BY <1>4
  <2>2. RemoveAt(queue, 1) = b
    <3> HIDE DEF a, b
    <3>1. << >> \o b = b
      BY <1>1
    <3>2. QED
      BY <1>2, <1>4, <2>1, <3>1
  <2>3. Last(queue) = queue[Len(queue)] /\ queue # << >>
    BY DEF Last
  <2>4. CASE Len(queue) = 1
    <3>1. b = << >>
      BY <1>4, <2>4
    <3>2. QED
      BY <2>2, <2>3, <2>4, <3>1 DEF Outcome
  <2>5. CASE Len(queue) # 1
    <3>1. \A j \in 1 .. Len(queue) - 1 : b[j] = queue[j + 1]
      BY <1>4
    <3> HIDE DEF b
    <3>2. Len(b) = Len(queue) - 1 /\ Len(queue) \in Nat /\ Len(queue) > 1
      BY <1>1, <1>4, <2>5
    <3>3. b[Len(b)] = queue[Len(queue)] /\ b # << >>
      BY <3>1, <3>2
    <3>4. QED
      BY <2>2, <2>3, <3>3 DEF Outcome, Last
  <2>6. QED
    BY <2>4, <2>5
<1>5. QED
  BY <1>3, <1>4

\* A post arrives or fails (mapper.js:271-276, 295-300).
LEMMA ApiaryKeeps ==
  ASSUME ApiaryOK(said, posts, shown, marred), NEW s \in Sensors, NEW k \in 1 .. Len(posts[s]),
         PostArrives(s, k) \/ PostFails(s, k)
  PROVE  ApiaryOK(said, posts', shown', marred')
<1> DEFINE rest == RemoveAt(posts[s], k)
<1>1. /\ posts \in [Sensors -> Seq(Messages)] /\ shown \in Told
      /\ posts' = [posts EXCEPT ![s] = rest]
      /\ marred \subseteq marred'
  BY DEF ApiaryOK, PostArrives, PostFails
<1>2. /\ rest \in Seq(Messages) /\ posts[s][k] \in Messages
      /\ \A seen : k = 1 => Outcome(RemoveAt(posts[s], 1), posts[s][1]) = Outcome(posts[s], seen)
  BY <1>1, QueueShrinks
<1> HIDE DEF rest
<1>3. posts' \in [Sensors -> Seq(Messages)]
  BY <1>1, <1>2
<1>4. \A t \in Sensors : t # s => posts'[t] = posts[t] /\ shown'[t] = shown[t]
  BY <1>1 DEF PostArrives, PostFails, Told
<1>5. shown' \in Told
  BY <1>1, <1>2 DEF PostArrives, PostFails, Told, Messages
<1>6. s \notin marred' => k = 1 /\ posts'[s] = RemoveAt(posts[s], 1) /\ shown'[s] = posts[s][1]
  BY <1>1 DEF PostArrives, PostFails, Told, rest
<1>7. s \notin marred' => Outcome(posts'[s], shown'[s]) = Outcome(posts[s], shown[s])
  BY <1>2, <1>6
<1>8. \A t \in Sensors : t \notin marred' /\ said[t] # "nothing"
        => said[t] = Outcome(posts'[t], shown'[t])
  BY <1>1, <1>4, <1>7 DEF ApiaryOK
<1>9. QED
  BY <1>3, <1>5, <1>8 DEF ApiaryOK

-----------------------------------------------------------------------------
(* The record processor's map, and the pool.                               *)

\* The processor's map is {} (sample_kcl_app.js): it knows no sensor.
LEMMA EmptyMap ==
  /\ NoRows \in RowSets
  /\ DOMAIN NoRows = {}
  /\ Snapshot(NoRows, 0) \in Snapshots
<1>1. DOMAIN NoRows = {} /\ NoRows \in [{} -> Rows]
  BY DEF NoRows
<1>2. NoRows \in RowSets
  BY <1>1 DEF RowSets
<1>3. QED
  BY <1>1, <1>2, BoundsAssumption DEF Snapshot, Snapshots

\* There are finitely many calls of update_map.
LEMMA PullsAreFinite == IsFiniteSet(Pulls) /\ IsFiniteSet({}) /\ Cardinality({}) = 0
<1>1. IsFiniteSet(Positions)
  BY RecordsAssumption, FS_Interval DEF Positions
<1>2. IsFiniteSet({"record", "map"})
  <2>1. {"record", "map"} = ({} \cup {"record"}) \cup {"map"}
    OBVIOUS
  <2>2. QED
    BY <2>1, FS_EmptySet, FS_AddElement
<1>3. QED
  BY <1>1, <1>2, FS_Product, FS_EmptySet DEF Pulls

\* One more pull holds a client.
LEMMA ClientTaken ==
  ASSUME NEW H, NEW p, IsFiniteSet(H), p \notin H
  PROVE  Cardinality(H \cup {p}) = Cardinality(H) + 1
BY FS_AddElement

\* done(): one pull fewer holds a client.
LEMMA ClientGivenBack ==
  ASSUME NEW H, NEW p, IsFiniteSet(H), p \in H
  PROVE  Cardinality(H \ {p}) = Cardinality(H) - 1
BY FS_RemoveElement

\* The pulls that hold a client can be counted.
LEMMA HoldingIsFinite == IsFiniteSet(Holding) /\ Cardinality(Holding) \in Nat
<1>1. Holding \subseteq Pulls
  BY DEF Holding
<1>2. QED
  BY <1>1, PullsAreFinite, FS_Subset, FS_CardinalityType

-----------------------------------------------------------------------------
(* The steps.                                                              *)

\* A process begins with nothing in memory.
LEMMA ConsumerStarts == Init => ConsumerInv
<1> SUFFICES ASSUME Init PROVE ConsumerInv
  OBVIOUS
<1>1. MemoryTypes
  <2>1. metadata \in Snapshots
    BY BoundsAssumption DEF Init, Snapshot, Snapshots
  <2>2. QED
    BY <2>1, PoolsAssumption
      DEF Init, VolatileInit, MemoryTypes, PullStates, NoPull, InsertOK
<1>2. ProgressTypes
  BY RecordsAssumption, BoundsAssumption DEF Init, ProgressTypes
<1>3. Holding = {}
  BY DEF Init, VolatileInit, Holding, NoPull
<1>4. PoolIsWhole
  BY <1>3, PullsAreFinite, PoolsAssumption DEF PoolIsWhole, Init, VolatileInit
<1>5. /\ ReportsOK
      /\ RedshiftPoolIsExact
  BY PoolsAssumption
     DEF Init, VolatileInit, ReportsOK, BlacklistOK, NoDuplicates, Reported, Contains, Told, ApiaryOK,
         RedshiftPoolIsExact
<1>6. NothingElseUnderWay /\ OneThingAtATime
  BY DEF Init, VolatileInit, NothingElseUnderWay, OneThingAtATime, Idle, NoPull, Pulls
<1>7. AnswersAreFresh /\ InsertsAreFresh
  BY DEF Init, VolatileInit, AnswersAreFresh, InsertsAreFresh, NoPull, NoInsert, Pulls, Snapshot
<1>8. EveryRecordAccountedFor
  BY DEF Init, EveryRecordAccountedFor, Mine
<1>9. QED
  BY <1>1, <1>2, <1>4, <1>5, <1>6, <1>7, <1>8 DEF ConsumerInv

\* A crash leaves nothing under way.
LEMMA CrashKeeps ==
  ASSUME ConsumerInv, crashes < MaxCrashes, Crash
  PROVE  ConsumerInv'
<1>1. MemoryTypes'
  BY PoolsAssumption
    DEF ConsumerInv, Crash, MemoryTypes, PullStates, NoPull, InsertOK
<1>2. ProgressTypes'
  <2>1. crashes' \in 0 .. MaxCrashes
    BY BoundsAssumption DEF ConsumerInv, Crash, ProgressTypes
  <2>2. alive' \in BOOLEAN
    BY DEF Crash
  <2>3. QED
    BY <2>1, <2>2, RecordsAssumption DEF ConsumerInv, Crash, ProgressTypes
<1>3. Holding' = {}
  BY DEF Crash, Holding, NoPull
<1>4. PoolIsWhole'
  BY <1>3, PullsAreFinite, PoolsAssumption DEF PoolIsWhole, Crash
<1>5. /\ ReportsOK'
      /\ RedshiftPoolIsExact'
  BY PoolsAssumption
     DEF ConsumerInv, Crash, ReportsOK, BlacklistOK, NoDuplicates, Reported, Contains, Told, ApiaryOK,
         RedshiftPoolIsExact
<1>6. NothingElseUnderWay' /\ OneThingAtATime'
  BY DEF Crash, NothingElseUnderWay, OneThingAtATime, Idle, NoPull, Pulls
<1>7. AnswersAreFresh' /\ InsertsAreFresh'
  BY DEF ConsumerInv, Crash, AnswersAreFresh, InsertsAreFresh, NoPull, NoInsert, Pulls
<1>8. EveryRecordAccountedFor'
  BY DEF Crash, EveryRecordAccountedFor
<1>9. QED
  BY <1>1, <1>2, <1>4, <1>5, <1>6, <1>7, <1>8 DEF ConsumerInv

\* A pull of a record gets on: its client is there, or its answer.
LEMMA PullKeeps ==
  ASSUME ConsumerInv, NEW p \in Pulls, NEW x \in PullStates,
         pull[p].stage \in {"waiting", "query"},
         x.stage \in {"query", "answered"},
         x.stage = "answered" => x.new = metadata,
         pull' = [pull EXCEPT ![p] = x],
         pgFree' \in Nat, pgFree' + Cardinality(Holding') = PgPool,
         UNCHANGED <<stream, metadata, map, blacklist, insert, rsFree, leaked, repeated,
                     outside, readAt, progress>>
  PROVE  ConsumerInv'
<1> USE DEF outside, apiary, progress
<1>1. MemoryTypes'
  BY DEF ConsumerInv, MemoryTypes
<1>2. ProgressTypes'
  BY DEF ConsumerInv, ProgressTypes
<1>3. PICK i \in Positions : p = <<"record", i>>
  <2>1. pull \in [Pulls -> PullStates]
    BY DEF ConsumerInv, MemoryTypes
  <2>2. QED
    BY <2>1 DEF ConsumerInv, NothingElseUnderWay, Pulls
<1>4. /\ pull'[<<"record", i>>] = x
      /\ \A j \in Positions : j # i => pull'[<<"record", j>>] = pull[<<"record", j>>]
      /\ \A j \in Positions : pull'[<<"map", j>>] = pull[<<"map", j>>]
      /\ pull[<<"record", i>>].stage \in {"waiting", "query"}
  BY <1>3 DEF ConsumerInv, MemoryTypes, Pulls
<1>5. NothingElseUnderWay'
  BY <1>4 DEF ConsumerInv, NothingElseUnderWay, Idle
<1>6. OneThingAtATime'
  BY <1>4 DEF ConsumerInv, OneThingAtATime
<1>7. AnswersAreFresh'
  BY <1>4 DEF ConsumerInv, AnswersAreFresh
<1>8. InsertsAreFresh'
  BY DEF ConsumerInv, InsertsAreFresh
<1>9. EveryRecordAccountedFor'
  <2>1. ASSUME alive', NEW j \in Mine'
        PROVE  \/ pull'[<<"record", j>>].stage \in {"waiting", "query", "answered"}
               \/ insert'[j].stage = "waiting"
               \/ Pending(j)' # {}
               \/ Over(j)'
    <3>1. j \in Mine /\ j \in Positions
      BY <2>1, RecordsAssumption DEF Mine, ConsumerInv, ProgressTypes, Positions
    <3>2. CASE j = i
      BY <1>4, <3>2
    <3>3. CASE j # i
      BY <1>4, <2>1, <3>1, <3>3
        DEF ConsumerInv, EveryRecordAccountedFor, Pending, Over
    <3>4. QED
      BY <3>2, <3>3
  <2>2. QED
    BY <2>1 DEF EveryRecordAccountedFor
<1>10. PoolIsWhole' /\ ReportsOK' /\ RedshiftPoolIsExact'
  BY DEF ConsumerInv, PoolIsWhole, ReportsOK, RedshiftPoolIsExact
<1>11. QED
  BY <1>1, <1>2, <1>5, <1>6, <1>7, <1>8, <1>9, <1>10 DEF ConsumerInv

\* A client of the Postgres pool is handed out (mapper.js:23-37).
LEMMA PgConnectKeeps ==
  ASSUME ConsumerInv, NEW p \in Pulls, PgConnect(p)
  PROVE  ConsumerInv'
<1>1. pull \in [Pulls -> PullStates] /\ pgFree \in Nat /\ PgPool \in Nat
  BY PoolsAssumption DEF ConsumerInv, MemoryTypes
<1>2. Holding' = Holding \cup {p} /\ p \notin Holding
  BY <1>1 DEF PgConnect, Holding
<1>3. Cardinality(Holding') = Cardinality(Holding) + 1
  BY <1>2, HoldingIsFinite, ClientTaken
<1>4. pgFree' \in Nat /\ pgFree' + Cardinality(Holding') = PgPool
  <2>1. pgFree > 0 /\ pgFree' = pgFree - 1
    BY DEF PgConnect
  <2>2. pgFree + Cardinality(Holding) = PgPool
    BY DEF ConsumerInv, PoolIsWhole
  <2>3. QED
    BY <1>1, <1>3, <2>1, <2>2, HoldingIsFinite
<1>5. [stage |-> "query"] \in PullStates
  BY DEF PullStates
<1>6. QED
  BY <1>4, <1>5, PullKeeps DEF PgConnect

\* Postgres reads the rows of the moment.
LEMMA PgReadKeeps ==
  ASSUME ConsumerInv, NEW p \in Pulls, PgRead(p)
  PROVE  ConsumerInv'
<1>1. /\ pull \in [Pulls -> PullStates] /\ pgFree \in Nat /\ metadata \in Snapshots
      /\ pgFree + Cardinality(Holding) = PgPool
  BY DEF ConsumerInv, MemoryTypes, PoolIsWhole
<1>2. Holding' = Holding
  BY <1>1 DEF PgRead, Holding
<1>3. pgFree' \in Nat /\ pgFree' + Cardinality(Holding') = PgPool
  BY <1>1, <1>2 DEF PgRead
<1>4. [stage |-> "answered", new |-> metadata] \in PullStates
  BY <1>1 DEF PullStates
<1>5. QED
  BY <1>3, <1>4, PullKeeps DEF PgRead

\* A step that changes one INSERT, or begins it, and nothing else that is under
\* way.
LEMMA InsertKeeps ==
  ASSUME ConsumerInv, NEW i \in Positions, NEW x,
         InsertOK(x), x.stage = "sent", x.age = insert[i].age,
         insert[i].stage \in {"waiting", "sent"},
         insert' = [insert EXCEPT ![i] = x],
         rsFree' \in Nat, leaked' \in Nat, repeated' \in Nat, RedshiftPoolIsExact',
         UNCHANGED <<stream, metadata, map, blacklist, apiary, pull, pgFree,
                     readAt, progress>>
  PROVE  ConsumerInv'
<1> USE DEF progress, apiary
<1>1. /\ insert = [j \in Positions |-> insert[j]]
      /\ \A j \in Positions : InsertOK(insert[j])
  BY DEF ConsumerInv, MemoryTypes
<1>2. /\ insert'[i] = x
      /\ \A j \in Positions : j # i => insert'[j] = insert[j]
      /\ insert' = [j \in Positions |-> insert'[j]]
  BY <1>1
<1>3. MemoryTypes'
  BY <1>1, <1>2 DEF ConsumerInv, MemoryTypes
<1>4. ProgressTypes'
  BY DEF ConsumerInv, ProgressTypes
<1>5. alive /\ i <= position /\ insert[i] # NoInsert /\ stream[i].kind # "garbage"
  <2>1. insert[i] # NoInsert
    BY DEF NoInsert
  <2>2. alive /\ ~(i > position) /\ stream[i].kind # "garbage"
    BY <2>1 DEF ConsumerInv, NothingElseUnderWay, Idle
  <2>3. i \in Int /\ position \in Int
    BY RecordsAssumption DEF ConsumerInv, ProgressTypes, Positions
  <2>4. QED
    BY <2>1, <2>2, <2>3
<1>6. NothingElseUnderWay'
  BY <1>2, <1>5, RecordsAssumption
    DEF ConsumerInv, NothingElseUnderWay, Idle, ProgressTypes, Positions
<1>7. OneThingAtATime'
  BY <1>2, <1>5 DEF ConsumerInv, OneThingAtATime
<1>8. AnswersAreFresh'
  BY DEF ConsumerInv, AnswersAreFresh
<1>9. InsertsAreFresh'
  BY <1>2 DEF ConsumerInv, InsertsAreFresh
<1>10. EveryRecordAccountedFor'
  <2>1. ASSUME alive', NEW j \in Mine'
        PROVE  \/ pull'[<<"record", j>>].stage \in {"waiting", "query", "answered"}
               \/ insert'[j].stage = "waiting"
               \/ Pending(j)' # {}
               \/ Over(j)'
    <3>1. j \in Mine /\ j \in Positions
      BY <2>1, RecordsAssumption DEF Mine, ConsumerInv, ProgressTypes, Positions
    <3>2. CASE j = i
      BY <1>2, <3>2 DEF Pending, Over
    <3>3. CASE j # i
      BY <1>2, <2>1, <3>1, <3>3
        DEF ConsumerInv, EveryRecordAccountedFor, Pending, Over
    <3>4. QED
      BY <3>2, <3>3
  <2>2. QED
    BY <2>1 DEF EveryRecordAccountedFor
<1>11. PoolIsWhole' /\ ReportsOK'
  BY DEF ConsumerInv, PoolIsWhole, Holding, ReportsOK
<1>12. QED
  BY <1>3, <1>4, <1>6, <1>7, <1>8, <1>9, <1>10, <1>11 DEF ConsumerInv

\* A client of the Redshift pool is there, or there is none and no INSERT, or
\* Redshift answers (mapper.js:134-186).
LEMMA RedshiftKeeps ==
  ASSUME ConsumerInv, NEW i \in Positions,
         \/ RsConnect(i)
         \/ RsConnectFails(i)
         \/ \E row \in Pending(i) : RsAnswer(i, row)
  PROVE  ConsumerInv'
<1>1. /\ insert = [j \in Positions |-> insert[j]] /\ InsertOK(insert[i])
      /\ rsFree \in Nat /\ leaked \in Nat /\ repeated \in Nat /\ RsPool \in Nat
      /\ RsPool <= rsFree + leaked /\ rsFree + leaked <= RsPool + repeated
  BY PoolsAssumption DEF ConsumerInv, MemoryTypes, RedshiftPoolIsExact
<1> DEFINE sent == [insert[i] EXCEPT !.stage = "sent"]
<1>2. ASSUME insert[i].stage = "waiting"
      PROVE  InsertOK(sent) /\ sent.stage = "sent" /\ sent.age = insert[i].age
  BY <1>1, <1>2 DEF InsertOK, NoInsert
<1>3. CASE RsConnect(i)
  <2> DEFINE rows == insert[i].rows
             n == Cardinality(rows)
  <2>1. insert[i].stage = "waiting" /\ insert' = [insert EXCEPT ![i] = sent] /\ rsFree > 0
    BY <1>1, <1>3 DEF RsConnect
  <2>2. rows # {} => n \in Nat \ {0}
    <3>1. IsFiniteSet(rows)
      BY <1>1, <2>1 DEF InsertOK, NoInsert
    <3> HIDE DEF rows
    <3>2. QED
      BY <3>1, FS_CardinalityType, FS_EmptySet
  <2>3. \/ rsFree' = rsFree - 1 /\ leaked' = leaked + 1 /\ repeated' = repeated
        \/ /\ rows # {} /\ rsFree' \in (rsFree - 1) + 1 .. (rsFree - 1) + 1 + (n - 1)
           /\ repeated' = repeated + (n - 1) /\ leaked' = leaked
    BY <1>3 DEF RsConnect, Done
  <2> HIDE DEF n, rows
  <2>4. /\ rsFree' \in Nat /\ leaked' \in Nat /\ repeated' \in Nat
        /\ RsPool <= rsFree' + leaked' /\ rsFree' + leaked' <= RsPool + repeated'
    BY <1>1, <2>1, <2>2, <2>3
  <2>5. UNCHANGED <<stream, metadata, map, blacklist, apiary, pull, pgFree, readAt, progress>>
    BY <1>3 DEF RsConnect, outside
  <2>6. RedshiftPoolIsExact'
    BY <2>4 DEF RedshiftPoolIsExact
  <2>7. QED
    BY <1>2, <2>1, <2>4, <2>5, <2>6, InsertKeeps
<1>4. CASE RsConnectFails(i)
  <2>1. CASE insert[i].rows # {}
    BY <1>4, <2>1, CrashKeeps DEF RsConnectFails
  <2>2. CASE insert[i].rows = {}
    <3>1. /\ insert[i].stage = "waiting" /\ insert' = [insert EXCEPT ![i] = sent]
          /\ UNCHANGED <<rsFree, leaked, repeated>>
      BY <1>1, <1>4, <2>2 DEF RsConnectFails
    <3>2. UNCHANGED <<stream, metadata, map, blacklist, apiary, pull, pgFree, readAt, progress>>
      BY <1>4, <2>2 DEF RsConnectFails, outside
    <3>3. QED
      BY <1>1, <1>2, <3>1, <3>2, InsertKeeps DEF RedshiftPoolIsExact
  <2>3. QED
    BY <2>1, <2>2
<1>5. ASSUME NEW row \in Pending(i), RsAnswer(i, row)
      PROVE  ConsumerInv'
  <2> DEFINE x == [insert[i] EXCEPT !.rows = insert[i].rows \ {row}]
  <2>1. /\ insert[i].stage = "sent" /\ insert' = [insert EXCEPT ![i] = x]
        /\ UNCHANGED <<rsFree, leaked, repeated>>
    BY <1>1, <1>5 DEF RsAnswer
  <2>2. UNCHANGED <<stream, metadata, map, blacklist, apiary, pull, pgFree, readAt, progress>>
    BY <1>5 DEF RsAnswer
  <2>3. IsFiniteSet(insert[i].rows \ {row})
    BY <1>1, <2>1, FS_RemoveElement, FS_Subset DEF InsertOK, NoInsert
  <2>4. InsertOK(x) /\ x.stage = "sent" /\ x.age = insert[i].age
    <3> DEFINE less == insert[i].rows \ {row}
    <3>1. /\ insert[i] = [stage |-> insert[i].stage, rows |-> insert[i].rows, age |-> insert[i].age]
          /\ insert[i].age \in Nat
      BY <1>1, <2>1 DEF InsertOK, NoInsert
    <3> HIDE DEF less
    <3>2. x = [stage |-> "sent", rows |-> less, age |-> insert[i].age]
      BY <2>1, <3>1 DEF less
    <3>3. IsFiniteSet(less)
      BY <2>3 DEF less
    <3> HIDE DEF x
    <3>4. x.stage = "sent" /\ x.rows = less /\ x.age = insert[i].age
      BY <3>2
    <3>5. x = [stage |-> x.stage, rows |-> x.rows, age |-> x.age]
      BY <3>2, <3>4
    <3>6. QED
      BY <3>1, <3>3, <3>4, <3>5 DEF InsertOK
  <2>5. QED
    BY <1>1, <2>1, <2>2, <2>4, InsertKeeps DEF RedshiftPoolIsExact
<1>6. QED
  BY <1>3, <1>4, <1>5

\* The INSERTs of an observation can be counted: there is one per feature of a row.
LEMMA InsertsAreFinite ==
  ASSUME NEW obs, NEW new \in Snapshots, NEW misfit \in BOOLEAN,
         misfit \/ obs.sensor \in DOMAIN new.rows
  PROVE  IsFiniteSet(Inserts(obs, new.rows, misfit))
<1>1. CASE misfit
  <2> DEFINE one == [table |-> Island, sound |-> TRUE]
  <2>1. Inserts(obs, new.rows, misfit) = {} \cup {one}
    BY <1>1 DEF Inserts
  <2> HIDE DEF one
  <2>2. QED
    BY <2>1, FS_EmptySet, FS_AddElement
<1>2. CASE ~misfit
  <2> DEFINE row == new.rows[obs.sensor]
             F(f) == [table |-> f, sound |-> \A k \in DOMAIN row : row[k] = f => k \in obs.keys]
  <2>1. row \in Rows
    BY <1>2 DEF Snapshots, RowSets
  <2>2. IsFiniteSet(DOMAIN row)
    BY <2>1, RowsAssumption
  <2>3. IsFiniteSet(Features(row))
    <3> DEFINE G == [k \in DOMAIN row |-> row[k]]
    <3> HIDE DEF row
    <3>1. Features(row) = {G[k] : k \in DOMAIN row}
      BY DEF Features
    <3>2. G \in [DOMAIN row -> Features(row)] /\ \A f \in Features(row) : \E k \in DOMAIN row : G[k] = f
      BY DEF Features
    <3>3. G \in Surjection(DOMAIN row, Features(row))
      BY <3>2 DEF Surjection
    <3>4. QED
      BY <2>2, <3>3, FS_Surjection
  <2>4. Inserts(obs, new.rows, misfit) = {F(f) : f \in Features(row)}
    BY <1>2 DEF Inserts
  <2> HIDE DEF row, F
  <2>5. QED
    <3> DEFINE G == [f \in Features(row) |-> F(f)]
               T == {F(f) : f \in Features(row)}
    <3>1. G \in [Features(row) -> T] /\ \A t \in T : \E f \in Features(row) : G[f] = t
      OBVIOUS
    <3>2. G \in Surjection(Features(row), T)
      BY <3>1 DEF Surjection
    <3>3. QED
      BY <2>3, <2>4, <3>2, FS_Surjection
<1>3. QED
  BY <1>1, <1>2

\* parse_insert_emit on the new map (mapper.js:63-98): the blacklist stays
\* sound, and the observation gets an INSERT under the map that arrived, unless
\* it has no data.
Settled(i, obs, new, old, x) ==
  \/ x = old /\ obs.kind = "no data"
  \/ x.stage = "waiting" /\ InsertOK(x) /\ x.age = new.age

\* What OnNewMap does to the blacklist and to the INSERT of the record.
LEMMA NewMapSettles ==
  ASSUME NEW i \in Positions, NEW obs, obs.sensor \in Sensors, NEW new \in Snapshots,
         insert = [j \in Positions |-> insert[j]],
         ReportsOK, UNCHANGED <<shown, marred>>, OnNewMap(i, obs, new)
  PROVE  /\ ReportsOK'
         /\ insert' = [j \in Positions |-> IF j = i THEN insert'[i] ELSE insert[j]]
         /\ Settled(i, obs, new, insert[i], insert'[i])
<1>1. ASSUME NEW misfit \in BOOLEAN, misfit \/ obs.sensor \in DOMAIN new.rows,
             insert' = [insert EXCEPT ![i] = RedshiftInsert(obs, new, misfit)]
      PROVE  /\ insert' = [j \in Positions |-> IF j = i THEN insert'[i] ELSE insert[j]]
             /\ Settled(i, obs, new, insert[i], insert'[i])
  <2> DEFINE x == RedshiftInsert(obs, new, misfit)
  <2>1. /\ x.stage = "waiting" /\ x.age = new.age
        /\ x = [stage |-> x.stage, rows |-> x.rows, age |-> x.age]
    BY DEF RedshiftInsert
  <2>2. new.age \in Nat
    BY BoundsAssumption DEF Snapshots
  <2>3. InsertOK(x)
    <3>1. x.rows = Inserts(obs, new.rows, misfit)
      BY DEF RedshiftInsert
    <3>2. IsFiniteSet(x.rows)
      BY <1>1, <3>1, InsertsAreFinite
    <3>3. QED
      BY <2>1, <2>2, <3>2 DEF InsertOK
  <2> HIDE DEF x
  <2>4. insert'[i] = x /\ insert' = [j \in Positions |-> IF j = i THEN x ELSE insert[j]]
    BY <1>1 DEF x
  <2>5. QED
    BY <2>1, <2>3, <2>4 DEF Settled
<1>2. ASSUME SendError(obs.sensor)
      PROVE  ReportsOK'
  <2>1. CASE Contains(blacklist, obs.sensor)
    BY <1>2, <2>1 DEF SendError, ReportsOK
  <2>2. CASE ~Contains(blacklist, obs.sensor)
    <3>1. /\ Post(obs.sensor, "error") /\ blacklist' = Append(blacklist, obs.sensor)
          /\ dropped' = dropped \ {obs.sensor}
      BY <1>2, <2>2 DEF SendError
    <3>2. BlacklistOK(blacklist', said', dropped')
      BY <2>2, <3>1, PushKeeps DEF ReportsOK, Post
    <3>3. ApiaryOK(said', posts', shown', marred')
      BY <3>1, PostKeeps DEF ReportsOK, BlacklistOK, Messages
    <3>4. QED
      BY <3>2, <3>3 DEF ReportsOK
  <2>3. QED
    BY <2>1, <2>2
<1>3. ASSUME SendCorrect(obs.sensor)
      PROVE  ReportsOK'
  <2>1. ApiaryOK(said', posts', shown', marred')
    BY <1>3, PostKeeps DEF SendCorrect, ReportsOK, BlacklistOK, Messages
  <2>2. BlacklistOK(blacklist', said', dropped')
    <3>1. CASE ~Contains(blacklist, obs.sensor) /\ blacklist # << >>
      BY <1>3, <3>1, StrayKeeps DEF SendCorrect, ReportsOK, Post
    <3>2. CASE Contains(blacklist, obs.sensor) \/ blacklist = << >>
      BY <1>3, <3>2, SpliceKeeps DEF SendCorrect, ReportsOK, Post
    <3>3. QED
      BY <3>1, <3>2
  <2>3. QED
    BY <2>1, <2>2 DEF ReportsOK
<1>4. CASE Banish(i, obs, new)
  BY <1>1, <1>2, <1>4 DEF Banish
<1>5. CASE obs.kind = "no data" /\ UNCHANGED <<posts, said, dropped, blacklist, insert>>
  <2>1. insert' = [j \in Positions |-> IF j = i THEN insert'[i] ELSE insert[j]]
    BY <1>5
  <2>2. QED
    BY <1>5, <2>1 DEF Settled, ReportsOK
<1>6. CASE /\ SendCorrect(obs.sensor) /\ obs.sensor \in DOMAIN new.rows
           /\ insert' = [insert EXCEPT ![i] = RedshiftInsert(obs, new, FALSE)]
  BY <1>1, <1>3, <1>6
<1>7. QED
  BY <1>4, <1>5, <1>6 DEF OnNewMap

\* The answer of Postgres arrives: the client goes back and the observation is
\* settled under the rows that were read (mapper.js:23-37, 63-98).
LEMMA PgAnswerKeeps ==
  ASSUME ConsumerInv, NEW p \in Pulls, PgAnswer(p)
  PROVE  ConsumerInv'
<1> USE DEF progress
<1>1. /\ stream \in [Positions -> Contents]
      /\ pull \in [Pulls -> PullStates] /\ pgFree \in Nat /\ PgPool \in Nat
      /\ insert = [j \in Positions |-> insert[j]]
      /\ \A j \in Positions : InsertOK(insert[j])
  BY PoolsAssumption DEF ConsumerInv, MemoryTypes
<1>2. pull[p].stage = "answered" /\ pull' = [pull EXCEPT ![p] = [stage |-> "done"]]
  BY DEF PgAnswer
<1>3. PICK i \in Positions : p = <<"record", i>>
  BY <1>2 DEF ConsumerInv, NothingElseUnderWay, Pulls
<1> DEFINE new == pull[p].new
<1>4. new \in Snapshots
  BY <1>1, <1>2 DEF PullStates
<1> HIDE DEF new
<1>5. OnNewMap(i, stream[i], new) /\ UNCHANGED map
  BY <1>3 DEF PgAnswer, new
<1>6. /\ pull'[<<"record", i>>].stage = "done"
      /\ \A j \in Positions : j # i => pull'[<<"record", j>>] = pull[<<"record", j>>]
      /\ \A j \in Positions : pull'[<<"map", j>>] = pull[<<"map", j>>]
      /\ pull[<<"record", i>>].stage = "answered"
      /\ pull' \in [Pulls -> PullStates]
  BY <1>1, <1>2, <1>3 DEF Pulls, PullStates
<1>7. alive /\ i <= position /\ stream[i].kind # "garbage" /\ insert[i] = NoInsert
  <2>1. alive /\ ~(i > position) /\ stream[i].kind # "garbage" /\ insert[i] = NoInsert
    BY <1>6 DEF ConsumerInv, NothingElseUnderWay, Idle, OneThingAtATime
  <2>2. i \in Int /\ position \in Int
    BY RecordsAssumption DEF ConsumerInv, ProgressTypes, Positions
  <2>3. QED
    BY <2>1, <2>2
<1>8. stream[i].sensor \in Sensors
  BY <1>1, <1>7, ContentsAssumption
<1>9. /\ ReportsOK'
      /\ insert' = [j \in Positions |-> IF j = i THEN insert'[i] ELSE insert[j]]
      /\ Settled(i, stream[i], new, insert[i], insert'[i])
  <2>1. UNCHANGED <<shown, marred>>
    BY DEF PgAnswer
  <2>2. QED
    BY <1>1, <1>4, <1>5, <1>8, <2>1, NewMapSettles DEF ConsumerInv
<1>10. UNCHANGED <<stream, metadata, map, rsFree, leaked, repeated, readAt, progress>>
  BY <1>5 DEF PgAnswer
<1>11. PoolIsWhole' /\ pgFree' \in Nat
  <2>1. Holding' = Holding \ {p} /\ p \in Holding
    BY <1>1, <1>2 DEF Holding
  <2>2. Cardinality(Holding') = Cardinality(Holding) - 1
    BY <2>1, HoldingIsFinite, ClientGivenBack
  <2>3. pgFree' = pgFree + 1
    BY DEF PgAnswer, Done
  <2>4. pgFree + Cardinality(Holding) = PgPool
    BY DEF ConsumerInv, PoolIsWhole
  <2>5. pgFree' + Cardinality(Holding') = PgPool /\ pgFree' \in Nat
    BY <1>1, <2>2, <2>3, <2>4, HoldingIsFinite
  <2>6. QED
    BY <2>5 DEF PoolIsWhole
<1>12. /\ \A j \in Positions : j # i => insert'[j] = insert[j]
       /\ insert' = [j \in Positions |-> insert'[j]]
       /\ \/ insert'[i] = NoInsert /\ stream[i].kind = "no data"
          \/ insert'[i].stage = "waiting" /\ insert'[i].age = new.age
       /\ \A j \in Positions : InsertOK(insert'[j])
  <2>1. \A j \in Positions : j # i => insert'[j] = insert[j]
    BY <1>9
  <2>2. insert' = [j \in Positions |-> insert'[j]]
    BY <1>9
  <2>3. InsertOK(NoInsert)
    BY DEF InsertOK
  <2>4. \/ insert'[i] = NoInsert /\ stream[i].kind = "no data"
        \/ insert'[i].stage = "waiting" /\ insert'[i].age = new.age
    BY <1>7, <1>9 DEF Settled
  <2>5. InsertOK(insert'[i])
    BY <1>7, <1>9, <2>3 DEF Settled
  <2>6. \A j \in Positions : InsertOK(insert'[j])
    BY <1>1, <2>1, <2>5
  <2>7. QED
    BY <2>1, <2>2, <2>4, <2>6
<1>13. MemoryTypes'
  BY <1>6, <1>10, <1>11, <1>12 DEF ConsumerInv, MemoryTypes
<1>14. ProgressTypes'
  BY <1>10 DEF ConsumerInv, ProgressTypes
<1>15. NothingElseUnderWay'
  BY <1>6, <1>7, <1>10, <1>12, RecordsAssumption
    DEF ConsumerInv, NothingElseUnderWay, Idle, ProgressTypes, Positions
<1>16. OneThingAtATime'
  BY <1>6, <1>12 DEF ConsumerInv, OneThingAtATime
<1>17. AnswersAreFresh'
  BY <1>6, <1>10 DEF ConsumerInv, AnswersAreFresh
<1>18. InsertsAreFresh'
  <2>1. new.age >= readAt[i]
    BY <1>3, <1>6 DEF ConsumerInv, AnswersAreFresh, new
  <2>2. NoInsert.stage = "none"
    BY DEF NoInsert
  <2>3. insert'[i].stage # "none" => insert'[i].age = new.age
    BY <1>12, <2>2
  <2>4. \A j \in Positions : insert'[j].stage # "none" => insert'[j].age >= readAt[j]
    BY <1>12, <2>1, <2>3 DEF ConsumerInv, InsertsAreFresh
  <2>5. QED
    BY <1>10, <2>4 DEF InsertsAreFresh
<1>19. EveryRecordAccountedFor'
  <2>1. ASSUME alive', NEW j \in Mine'
        PROVE  \/ pull'[<<"record", j>>].stage \in {"waiting", "query", "answered"}
               \/ insert'[j].stage = "waiting"
               \/ Pending(j)' # {}
               \/ Over(j)'
    <3>1. j \in Mine /\ j \in Positions
      BY <1>10, <2>1, RecordsAssumption DEF Mine, ConsumerInv, ProgressTypes, Positions
    <3>2. CASE j = i
      <4>1. CASE insert'[i] = NoInsert /\ stream[i].kind = "no data"
        <5>0. NoInsert.stage = "none"
          BY DEF NoInsert
        <5>1. insert'[i].stage = "none"
          BY <4>1, <5>0
        <5>2. stream'[i].kind = "no data" /\ pull'[<<"record", i>>].stage = "done"
          BY <1>6, <1>10, <4>1
        <5>3. QED
          BY <3>2, <5>1, <5>2 DEF Over
      <4>2. CASE insert'[i].stage = "waiting"
        BY <3>2, <4>2
      <4>3. QED
        BY <1>12, <4>1, <4>2
    <3>3. CASE j # i
      BY <1>6, <1>10, <1>12, <2>1, <3>1, <3>3
        DEF ConsumerInv, EveryRecordAccountedFor, Pending, Over
    <3>4. QED
      BY <3>2, <3>3
  <2>2. QED
    BY <2>1 DEF EveryRecordAccountedFor
<1>20. RedshiftPoolIsExact'
  BY <1>10 DEF ConsumerInv, RedshiftPoolIsExact
<1>21. QED
  BY <1>9, <1>20, <1>11, <1>13, <1>14, <1>15, <1>16, <1>17, <1>18, <1>19 DEF ConsumerInv

\* With the map that nobody ever fills, every record of a batch that is JSON
\* begins with a pull, and nothing else is begun.
LEMMA ProcessRecordsKeeps ==
  ASSUME ConsumerInv, ProcessRecords
  PROVE  ConsumerInv'
<1>1. /\ stream \in [Positions -> Contents] /\ metadata \in Snapshots
      /\ pull \in [Pulls -> PullStates] /\ map = Snapshot(NoRows, 0)
      /\ insert = [j \in Positions |-> insert[j]]
      /\ readAt \in [Positions -> Nat]
  BY DEF ConsumerInv, MemoryTypes
<1>2. map.rows = NoRows
  BY <1>1 DEF Snapshot
<1>3. \A obs : ~Fits(obs, map.rows) /\ Returns(obs) = "undefined"
  BY <1>2, EmptyMap DEF Fits, Returns
<1>4. \A c : Throws(c) <=> c.kind = "garbage"
  BY <1>2, EmptyMap DEF Throws
<1>5. PICK last \in position + 1 .. Records :
        /\ pull' = [p \in Pulls |->
             IF \E i \in position + 1 .. last :
                   stream[i].kind # "garbage" /\ p = <<"record", i>>
             THEN [stage |-> "waiting"] ELSE pull[p]]
        /\ insert' = insert
        /\ readAt' = [i \in Positions |->
             IF i \in position + 1 .. last THEN metadata.age ELSE readAt[i]]
        /\ position' = last
  <2>1. PICK last \in position + 1 .. Records :
       LET batch == position + 1 .. last
           obs   == {i \in batch : ~Throws(stream[i])}
           fits  == {i \in obs : Fits(stream[i], map.rows)}
           start == {<<"record", i>> : i \in obs \ fits}
                      \cup {<<"map", i>> : i \in {j \in obs : Returns(stream[j]) = "true"}}
       IN  /\ pull' = [p \in Pulls |-> IF p \in start
                                       THEN [stage |-> "waiting"] ELSE pull[p]]
           /\ insert' = [i \in Positions |->
                           IF i \in fits THEN RedshiftInsert(stream[i], map, FALSE)
                                         ELSE insert[i]]
           /\ readAt' = [i \in Positions |->
                           IF i \in batch THEN metadata.age ELSE readAt[i]]
           /\ position' = last
    BY Zenon DEF ProcessRecords
  <2> DEFINE batch == position + 1 .. last
             obs   == {i \in batch : ~Throws(stream[i])}
             fits  == {i \in obs : Fits(stream[i], map.rows)}
             start == {<<"record", i>> : i \in obs \ fits}
                        \cup {<<"map", i>> : i \in {j \in obs : Returns(stream[j]) = "true"}}
  <2>2. /\ pull' = [p \in Pulls |-> IF p \in start
                                    THEN [stage |-> "waiting"] ELSE pull[p]]
        /\ insert' = [i \in Positions |->
                        IF i \in fits THEN RedshiftInsert(stream[i], map, FALSE)
                                      ELSE insert[i]]
        /\ readAt' = [i \in Positions |->
                        IF i \in batch THEN metadata.age ELSE readAt[i]]
        /\ position' = last
    BY <2>1
  <2>3. fits = {}
    BY <1>3
  <2>4. \A p : p \in start <=> \E i \in batch : stream[i].kind # "garbage" /\ p = <<"record", i>>
    BY <1>3, <1>4, <2>3
  <2> HIDE DEF fits, start, obs
  <2>5. insert' = insert
    BY <1>1, <2>2, <2>3
  <2>6. QED
    BY <2>2, <2>4, <2>5
<1>6. /\ UNCHANGED <<stream, metadata, map, blacklist, pgFree, rsFree, leaked, repeated, apiary, alive,
                     resumed, checkpointed, crashes>>
      /\ alive
  BY DEF ProcessRecords
<1>7. /\ position \in Nat /\ last \in Nat /\ position < last /\ last <= Records
  BY RecordsAssumption DEF ConsumerInv, ProgressTypes
<1> DEFINE fresh(i) == i \in position + 1 .. last /\ stream[i].kind # "garbage"
<1>8. /\ \A i \in Positions : fresh(i) => pull'[<<"record", i>>] = [stage |-> "waiting"]
      /\ \A i \in Positions : ~fresh(i) => pull'[<<"record", i>>] = pull[<<"record", i>>]
      /\ \A i \in Positions : pull'[<<"map", i>>] = pull[<<"map", i>>]
      /\ pull' \in [Pulls -> PullStates]
  <2>1. \A i \in Positions : <<"record", i>> \in Pulls /\ <<"map", i>> \in Pulls
    BY DEF Pulls
  <2>2. [stage |-> "waiting"] \in PullStates
    BY DEF PullStates
  <2>3. pull' \in [Pulls -> PullStates]
    BY <1>1, <1>5, <2>2
  <2>4. \A i \in Positions : fresh(i) => pull'[<<"record", i>>] = [stage |-> "waiting"]
    BY <1>5, <2>1
  <2>5. \A i \in Positions : ~fresh(i) => pull'[<<"record", i>>] = pull[<<"record", i>>]
    BY <1>5, <2>1
  <2>6. \A i \in Positions : pull'[<<"map", i>>] = pull[<<"map", i>>]
    BY <1>5, <2>1
  <2>7. QED
    BY <2>3, <2>4, <2>5, <2>6
<1>9. \A i \in Positions : fresh(i) => Idle(i)
  BY <1>7 DEF ConsumerInv, NothingElseUnderWay
<1>10. MemoryTypes'
  BY <1>5, <1>6, <1>8, BoundsAssumption DEF ConsumerInv, MemoryTypes, Snapshots
<1>11. ProgressTypes'
  BY <1>5, <1>6, <1>7 DEF ConsumerInv, ProgressTypes
<1>12. PoolIsWhole'
  <2>1. ASSUME NEW p \in Pulls
        PROVE  pull'[p].stage \in {"query", "answered"}
                 <=> pull[p].stage \in {"query", "answered"}
    <3>1. CASE \E i \in Positions : p = <<"record", i>> /\ fresh(i)
      BY <1>8, <1>9, <3>1 DEF Idle
    <3>2. CASE ~\E i \in Positions : p = <<"record", i>> /\ fresh(i)
      <4>1. pull'[p] = pull[p]
        BY <1>8, <3>2 DEF Pulls
      <4>2. QED
        BY <4>1
    <3>3. QED
      BY <3>1, <3>2
  <2>2. Holding' = Holding
    BY <2>1 DEF Holding
  <2>3. QED
    BY <1>6, <2>2 DEF ConsumerInv, PoolIsWhole
<1> HIDE DEF fresh
<1>13. NothingElseUnderWay'
  <2>1. \A i \in Positions : i > last \/ stream[i].kind = "garbage" => ~fresh(i) /\ Idle(i)
    BY <1>7, RecordsAssumption DEF ConsumerInv, NothingElseUnderWay, fresh, Positions
  <2>2. QED
    BY <1>5, <1>6, <1>8, <2>1 DEF ConsumerInv, NothingElseUnderWay, Idle
<1>14. OneThingAtATime'
  BY <1>5, <1>8, <1>9 DEF ConsumerInv, OneThingAtATime, Idle
<1>15. AnswersAreFresh' /\ InsertsAreFresh'
  <2>1. metadata.age \in Nat
    BY <1>1, BoundsAssumption DEF Snapshots
  <2>2. \A i \in Positions : i \in position + 1 .. last => Idle(i)
    BY <1>7 DEF ConsumerInv, NothingElseUnderWay
  <2>3. InsertsAreFresh'
    <3>0. NoInsert.stage = "none"
      BY DEF NoInsert
    <3>1. \A i \in Positions : i \in position + 1 .. last => insert[i].stage = "none"
      BY <2>2, <3>0 DEF Idle
    <3>2. QED
      BY <1>5, <3>1 DEF ConsumerInv, InsertsAreFresh
  <2>4. ASSUME NEW i \in Positions
        PROVE  /\ readAt'[i] <= metadata'.age
               /\ pull'[<<"record", i>>].stage = "answered"
                    => pull'[<<"record", i>>].new.age >= readAt'[i]
    <3>1. CASE i \in position + 1 .. last
      BY <1>5, <1>6, <1>8, <2>1, <2>2, <3>1 DEF Idle
    <3>2. CASE i \notin position + 1 .. last
      BY <1>5, <1>6, <1>8, <3>2 DEF ConsumerInv, AnswersAreFresh, fresh
    <3>3. QED
      BY <3>1, <3>2
  <2>5. QED
    BY <2>3, <2>4 DEF AnswersAreFresh
<1>16. EveryRecordAccountedFor'
  <2>1. ASSUME NEW j \in Mine'
        PROVE  \/ pull'[<<"record", j>>].stage \in {"waiting", "query", "answered"}
               \/ insert'[j].stage = "waiting"
               \/ Pending(j)' # {}
               \/ Over(j)'
    <3>1. j \in Positions /\ (j \in Mine \/ j \in position + 1 .. last)
      BY <1>5, <1>6, <1>7, <2>1, RecordsAssumption
        DEF Mine, ConsumerInv, ProgressTypes, Positions
    <3>2. CASE fresh(j)
      BY <1>8, <3>1, <3>2
    <3>3. CASE ~fresh(j) /\ stream[j].kind = "garbage"
      BY <1>6, <3>3 DEF Over
    <3>4. CASE ~fresh(j) /\ stream[j].kind # "garbage"
      <4>1. j \in Mine
        BY <3>1, <3>4 DEF fresh
      <4>2. QED
        BY <1>5, <1>6, <1>8, <3>1, <3>4, <4>1
          DEF ConsumerInv, EveryRecordAccountedFor, Pending, Over
    <3>5. QED
      BY <3>2, <3>3, <3>4
  <2>2. QED
    BY <2>1 DEF EveryRecordAccountedFor
<1>17. ReportsOK' /\ RedshiftPoolIsExact'
  BY <1>6 DEF ConsumerInv, ReportsOK, RedshiftPoolIsExact, apiary
<1>18. QED
  BY <1>10, <1>11, <1>12, <1>13, <1>14, <1>15, <1>16, <1>17 DEF ConsumerInv

\* The other steps touch neither the blacklist nor what is under way.
LEMMA OtherStepsKeep ==
  ASSUME ConsumerInv, CheckpointAnswered \/ UpdateMetadata \/ Restart \/ UNCHANGED vars
  PROVE  ConsumerInv'
<1> USE DEF memory, outside, apiary, progress
<1>1. /\ UNCHANGED <<stream, map, blacklist, apiary, leaked, repeated, pull, insert, pgFree, rsFree, readAt>>
      /\ metadata.age \in Nat /\ metadata' \in Snapshots /\ metadata'.age >= metadata.age
  <2>1. metadata \in Snapshots /\ metadata.age \in 0 .. MaxUpdates
    BY DEF ConsumerInv, MemoryTypes, Snapshots
  <2>2. CASE UpdateMetadata
    BY <2>1, <2>2, BoundsAssumption DEF UpdateMetadata, Snapshot, Snapshots
  <2>3. CASE CheckpointAnswered \/ Restart \/ UNCHANGED vars
    BY <2>1, <2>3, BoundsAssumption DEF CheckpointAnswered, Restart, vars
  <2>4. QED
    BY <2>2, <2>3
<1>2. MemoryTypes'
  BY <1>1 DEF ConsumerInv, MemoryTypes
<1>3. PoolIsWhole' /\ ReportsOK' /\ RedshiftPoolIsExact'
  BY <1>1 DEF ConsumerInv, PoolIsWhole, Holding, ReportsOK, RedshiftPoolIsExact
<1>4. OneThingAtATime' /\ InsertsAreFresh'
  BY <1>1 DEF ConsumerInv, OneThingAtATime, InsertsAreFresh
<1>5. AnswersAreFresh'
  <2>1. \A i \in Positions : readAt[i] \in Nat /\ readAt[i] <= metadata.age
    BY DEF ConsumerInv, AnswersAreFresh, MemoryTypes
  <2>2. metadata'.age \in Nat
    BY <1>1, BoundsAssumption DEF Snapshots
  <2>3. \A i \in Positions : readAt[i] <= metadata'.age
    BY <1>1, <2>1, <2>2
  <2>4. QED
    BY <1>1, <2>3 DEF ConsumerInv, AnswersAreFresh
<1>6. CASE CheckpointAnswered \/ UpdateMetadata \/ UNCHANGED vars
  <2>1. UNCHANGED <<alive, position, resumed, crashes>>
    BY <1>6 DEF CheckpointAnswered, UpdateMetadata, vars
  <2>2. checkpointed' \in {checkpointed, position}
    BY <1>6 DEF CheckpointAnswered, UpdateMetadata, vars
  <2>3. ProgressTypes'
    BY <2>1, <2>2, RecordsAssumption DEF ConsumerInv, ProgressTypes
  <2>4. NothingElseUnderWay'
    BY <1>1, <2>1 DEF ConsumerInv, NothingElseUnderWay, Idle
  <2>5. EveryRecordAccountedFor'
    BY <1>1, <2>1 DEF ConsumerInv, EveryRecordAccountedFor, Mine, Pending, Over
  <2>6. QED
    BY <1>2, <1>3, <1>4, <1>5, <2>3, <2>4, <2>5 DEF ConsumerInv
<1>7. CASE Restart
  <2>1. /\ ~alive /\ alive' /\ position' = checkpointed /\ resumed' = checkpointed
        /\ UNCHANGED <<checkpointed, crashes>> /\ alive' \in BOOLEAN
    BY <1>7 DEF Restart
  <2>2. ProgressTypes'
    BY <2>1, RecordsAssumption DEF ConsumerInv, ProgressTypes
  <2>3. NothingElseUnderWay'
    BY <1>1, <2>1 DEF ConsumerInv, NothingElseUnderWay, Idle
  <2>4. Mine' = {}
    <3>1. checkpointed \in Nat
      BY RecordsAssumption DEF ConsumerInv, ProgressTypes
    <3>2. QED
      BY <2>1, <3>1 DEF Mine
  <2>5. EveryRecordAccountedFor'
    BY <2>4 DEF EveryRecordAccountedFor
  <2>6. QED
    BY <1>2, <1>3, <1>4, <1>5, <2>2, <2>3, <2>5 DEF ConsumerInv
<1>8. QED
  BY <1>6, <1>7

\* What happens to a post concerns apiary alone.
LEMMA PostsKeep ==
  ASSUME ConsumerInv, NEW s \in Sensors, NEW k \in 1 .. Len(posts[s]),
         PostArrives(s, k) \/ PostFails(s, k)
  PROVE  ConsumerInv'
<1> USE DEF memory, progress
<1>1. /\ UNCHANGED <<stream, metadata, map, blacklist, pull, insert, pgFree, rsFree, leaked,
                     repeated, said, dropped, readAt, alive, position, resumed, checkpointed, crashes>>
  BY DEF PostArrives, PostFails
<1>2. ReportsOK'
  BY <1>1, ApiaryKeeps DEF ConsumerInv, ReportsOK
<1>3. MemoryTypes' /\ ProgressTypes'
  BY <1>1 DEF ConsumerInv, MemoryTypes, ProgressTypes
<1>4. PoolIsWhole' /\ RedshiftPoolIsExact' /\ NothingElseUnderWay' /\ OneThingAtATime'
  BY <1>1 DEF ConsumerInv, PoolIsWhole, Holding, RedshiftPoolIsExact, NothingElseUnderWay, Idle,
              OneThingAtATime
<1>5. AnswersAreFresh' /\ InsertsAreFresh' /\ EveryRecordAccountedFor'
  BY <1>1 DEF ConsumerInv, AnswersAreFresh, InsertsAreFresh, EveryRecordAccountedFor, Mine, Pending,
              Over
<1>6. QED
  BY <1>2, <1>3, <1>4, <1>5 DEF ConsumerInv

\* Every step keeps the invariant.
LEMMA ConsumerStepKeeps == ConsumerInv /\ [Next]_vars => ConsumerInv'
<1> SUFFICES ASSUME ConsumerInv, [Next]_vars PROVE ConsumerInv'
  OBVIOUS
<1>1. CASE ProcessRecords
  BY <1>1, ProcessRecordsKeeps
<1>2. CASE CheckpointAnswered \/ UpdateMetadata \/ Restart \/ UNCHANGED vars
  BY <1>2, OtherStepsKeep
<1>3. ASSUME NEW p \in Pulls, PgConnect(p) PROVE ConsumerInv'
  BY <1>3, PgConnectKeeps
<1>4. ASSUME NEW p \in Pulls, PgConnectFails(p) \/ PgQueryFails(p) PROVE ConsumerInv'
  BY <1>4, CrashKeeps DEF PgConnectFails, PgQueryFails
<1>5. ASSUME NEW p \in Pulls, PgRead(p) PROVE ConsumerInv'
  BY <1>5, PgReadKeeps
<1>6. ASSUME NEW p \in Pulls, PgAnswer(p) PROVE ConsumerInv'
  BY <1>6, PgAnswerKeeps
<1>7. ASSUME NEW i \in Positions,
             RsConnect(i) \/ RsConnectFails(i) \/ \E row \in Pending(i) : RsAnswer(i, row)
      PROVE  ConsumerInv'
  BY <1>7, RedshiftKeeps
<1>8. ASSUME NEW s \in Sensors, NEW k \in 1 .. Len(posts[s]), PostArrives(s, k) \/ PostFails(s, k)
      PROVE  ConsumerInv'
  BY <1>8, PostsKeep
<1>9. QED
  BY <1>1, <1>2, <1>3, <1>4, <1>5, <1>6, <1>7, <1>8, Zenon DEF Next

-----------------------------------------------------------------------------
\* The invariant: the types, whole pools, a sound blacklist, what apiary will
\* show, at most one thing under way for a record, and fresh answers
\* (mapper.js:23-186, 245-302, sample_kcl_app.js).
THEOREM ConsumerInvariant == Spec => []ConsumerInv
<1>1. QED
  BY ConsumerStarts, ConsumerStepKeeps, PTL DEF Spec

\* Whatever fails and in whatever order answers and posts arrive, each pool has
\* the clients that were not leaked, the blacklist names no sensor twice, it and
\* the splices at its end account for every error not taken back, and apiary
\* shows what the list suppresses unless a post about the sensor failed or was
\* overtaken (mapper.js:11-37, 134-186, 245-302).
THEOREM ConsumerMemory == Spec => []MemoryIsSound
<1>1. ConsumerInv => MemoryIsSound
  <2> SUFFICES ASSUME ConsumerInv PROVE MemoryIsSound
    OBVIOUS
  <2>1. pgFree \in 0 .. PgPool
    BY HoldingIsFinite, PoolsAssumption DEF ConsumerInv, MemoryTypes, PoolIsWhole
  <2>2. \A snapshot \in {metadata, map} :
          snapshot.rows \in RowSets /\ snapshot.age \in 0 .. MaxUpdates
    BY EmptyMap DEF ConsumerInv, MemoryTypes, Snapshots
  <2>3. \A p \in Pulls :
          pull[p].stage \in {"none", "waiting", "query", "answered", "done"}
    <3>1. \A x \in PullStates : x.stage \in {"none", "waiting", "query", "answered", "done"}
      BY DEF PullStates
    <3>2. QED
      BY <3>1 DEF ConsumerInv, MemoryTypes
  <2>4. \A i \in Positions : insert[i].stage \in {"none", "waiting", "sent"}
    BY DEF ConsumerInv, MemoryTypes, InsertOK, NoInsert
  <2>5. /\ resumed <= position /\ position <= Records
        /\ checkpointed <= position /\ crashes \in 0 .. MaxCrashes
    BY RecordsAssumption DEF ConsumerInv, ProgressTypes
  <2>6. TypeOK
    BY <2>1, <2>2, <2>3, <2>4, <2>5
       DEF TypeOK, ConsumerInv, MemoryTypes, ReportsOK, BlacklistOK, ApiaryOK, Told, Messages
  <2>7. BlacklistHasNoDuplicates /\ ListIsWhatWasSaid
    BY DEF ConsumerInv, ReportsOK, BlacklistOK, NoDuplicates, Reported,
           BlacklistHasNoDuplicates, ListIsWhatWasSaid
  <2>8. SuppressedIsShown
    BY <2>7 DEF ConsumerInv, ReportsOK, ApiaryOK, Outcome, ListIsWhatWasSaid, SuppressedIsShown
  <2>9. QED
    BY <2>6, <2>7, <2>8 DEF MemoryIsSound, ConsumerInv
<1>2. QED
  BY <1>1, ConsumerInvariant, PTL

\* However the answers of Postgres overtake each other and the metadata changes
\* meanwhile, no observation that waited for an answer is inserted under metadata
\* older than its arrival (mapper.js:63-98).
THEOREM ConsumerMetadata == Spec => []MetadataIsFresh
<1>1. ConsumerInv => MetadataIsFresh
  BY DEF ConsumerInv, InsertsAreFresh, MetadataIsFresh
<1>2. QED
  BY <1>1, ConsumerInvariant, PTL

\* No observation gets lost between two callbacks (mapper.js:45-186): each one
\* given to the process waits for Postgres, waits for Redshift, or is over.
THEOREM ConsumerAccounts == Spec => []EveryRecordAccountedFor
<1>1. ConsumerInv => EveryRecordAccountedFor
  BY DEF ConsumerInv
<1>2. QED
  BY <1>1, ConsumerInvariant, PTL
=============================================================================
