--------------------------- MODULE SentinelProofs ---------------------------
(***************************************************************************)
(* Proofs about Sentinel, for every number of sentinels, Redis instances,  *)
(* epochs, scripts, masters and addresses: the script queue, the shared    *)
(* links to the other sentinels, and the failover of a group.              *)
(***************************************************************************)
EXTENDS MCSentinel, FiniteSetTheorems, SequenceTheorems, WellFoundedInduction, TLAPS

-----------------------------------------------------------------------------
(* Sets of naturals and their extremes.                                    *)

\* A set of naturals has a least element.
LEMMA LeastNatural ==
  ASSUME NEW T \in SUBSET Nat, T # {}
  PROVE  \E x \in T : \A y \in T : x <= y
<1> DEFINE Less == OpToRel(<, Nat)
<1>1. IsWellFoundedOn(Less, Nat)
  BY NatLessThanWellFounded
<1>2. \A p \in Nat \X Nat : p[1] < p[2] => p \in Less
  BY DEF OpToRel
<1> HIDE DEF Less
<1>3. PICK x \in T : \A y \in T : ~(<<y, x>> \in Less)
  BY <1>1, WFMin
<1>4. \A y \in T : ~(y < x)
  BY <1>2, <1>3
<1> QED
  BY <1>4

\* A bounded set of naturals has a greatest element.
LEMMA GreatestNatural ==
  ASSUME NEW T \in SUBSET Nat, T # {}, NEW n \in Nat, \A x \in T : x <= n
  PROVE  \E x \in T : \A y \in T : y <= x
<1> DEFINE U == {m \in Nat : \A x \in T : x <= m}
<1>1. PICK m \in U : \A u \in U : m <= u
  <2>1. U \in SUBSET Nat /\ n \in U
    OBVIOUS
  <2> HIDE DEF U
  <2> QED
    BY <2>1, LeastNatural
<1>2. m \in T
  <2> SUFFICES ASSUME m \notin T PROVE FALSE
    OBVIOUS
  <2>1. \A x \in T : x <= m - 1
    BY <1>1
  <2>2. PICK x \in T : TRUE
    OBVIOUS
  <2>3. x <= m - 1 /\ x \in Nat /\ m - 1 \in Nat
    BY <1>1, <2>1, <2>2
  <2> QED
    BY <1>1, <2>1, <2>3
<1> QED
  BY <1>1, <1>2

\* The elements that have fewer than n others below them are at most n.
LEMMA FirstOnes ==
  ASSUME NEW S, IsFiniteSet(S), NEW max \in Nat, S \subseteq 1..max, NEW n \in Nat,
         NEW T \in SUBSET S, \A k \in T : Cardinality({j \in S : j < k}) < n
  PROVE  IsFiniteSet(T) /\ Cardinality(T) \in Nat /\ Cardinality(T) <= n
<1>1. IsFiniteSet(T) /\ Cardinality(T) \in Nat
  BY FS_Subset, FS_CardinalityType
<1>2. CASE T = {}
  BY <1>1, <1>2, FS_EmptySet
<1>3. CASE T # {}
  <2>1. PICK k \in T : \A y \in T : y <= k
    <3>1. T \in SUBSET Nat /\ \A x \in T : x <= max
      OBVIOUS
    <3> QED
      BY <1>3, <3>1, GreatestNatural
  <2> DEFINE below == {j \in S : j < k}
  <2>2. IsFiniteSet(below) /\ Cardinality(below) \in Nat /\ k \notin below
    <3>1. below \in SUBSET S /\ k \notin below
      OBVIOUS
    <3> QED
      BY <3>1, FS_Subset, FS_CardinalityType
  <2>3. Cardinality(below) < n
    BY <2>1
  <2>4. T \subseteq below \cup {k}
    BY <2>1
  <2> HIDE DEF below
  <2>5. IsFiniteSet(below \cup {k}) /\ Cardinality(below \cup {k}) = Cardinality(below) + 1
    BY <2>2, FS_AddElement
  <2>6. Cardinality(T) <= Cardinality(below \cup {k})
    BY <2>4, <2>5, FS_Subset
  <2> QED
    BY <1>1, <2>2, <2>3, <2>5, <2>6
<1> QED
  BY <1>2, <1>3

-----------------------------------------------------------------------------
(* The script queue.                                                       *)

Jobs == [id : Nat, running : BOOLEAN, tries : Nat, later : BOOLEAN, dead : BOOLEAN]

\* A queue whose jobs have identifiers of their own, none newer than n.
GoodQueue(q, n) ==
  /\ q \in Seq(Jobs)
  /\ \A k \in DOMAIN q : q[k].id <= n
  /\ \A j, k \in DOMAIN q : q[j].id = q[k].id => j = k

RunningIds(q) == {q[k].id : k \in Running(q)}

ScriptsInv ==
  /\ GoodQueue(scripts, scheduled) /\ scheduled \in Nat /\ runningScripts \in Nat
  /\ IsFiniteSet(alive)
  /\ EndsFindTheirJob

\* Where the job at j of a queue without its k-th job was.
Before(j, k) == IF j < k THEN j ELSE j + 1

\* RemoveAt takes out one element and closes the gap.
LEMMA RemoveAtRemoves ==
  ASSUME NEW q \in Seq(Jobs), NEW k \in 1 .. Len(q)
  PROVE  /\ RemoveAt(q, k) \in Seq(Jobs) /\ Len(RemoveAt(q, k)) = Len(q) - 1
         /\ \A j \in 1 .. Len(q) - 1 : Before(j, k) \in 1 .. Len(q) /\ Before(j, k) # k
                                       /\ RemoveAt(q, k)[j] = q[Before(j, k)]
<1> DEFINE a == SubSeq(q, 1, k - 1)
           b == SubSeq(q, k + 1, Len(q))
           r == RemoveAt(q, k)
<1>1. /\ a \in Seq(Jobs) /\ Len(a) = k - 1
      /\ \A i \in 1 .. k - 1 : a[i] = q[i]
  OBVIOUS
<1>2. /\ b \in Seq(Jobs) /\ Len(b) = Len(q) - k
      /\ \A i \in 1 .. Len(q) - k : b[i] = q[i + k]
  OBVIOUS
<1>3. r = a \o b
  BY DEF RemoveAt
<1> HIDE DEF a, b, r
<1>4. /\ r \in Seq(Jobs) /\ Len(r) = Len(a) + Len(b)
      /\ \A i \in 1 .. Len(a) + Len(b) : r[i] = IF i <= Len(a) THEN a[i] ELSE b[i - Len(a)]
  <2>1. a \in Seq(Jobs) /\ b \in Seq(Jobs)
    BY <1>1, <1>2
  <2> QED
    BY <1>3, <2>1, ConcatProperties
<1>5. Len(q) \in Nat /\ Len(r) = Len(q) - 1
  BY <1>1, <1>2, <1>4
<1>6. ASSUME NEW j \in 1 .. Len(q) - 1
      PROVE  Before(j, k) \in 1 .. Len(q) /\ Before(j, k) # k /\ r[j] = q[Before(j, k)]
  <2>1. CASE j < k
    <3>1. j \in 1 .. k - 1 /\ j \in 1 .. Len(a) + Len(b) /\ j <= Len(a)
      BY <1>1, <1>2, <1>5, <2>1
    <3>2. r[j] = q[j]
      BY <1>1, <1>4, <3>1
    <3> QED
      BY <1>5, <2>1, <3>2 DEF Before
  <2>2. CASE ~(j < k)
    <3> DEFINE i == j - Len(a)
    <3>1. /\ i \in 1 .. Len(q) - k /\ i + k = j + 1 /\ j + 1 \in 1 .. Len(q) /\ j + 1 # k
          /\ j \in 1 .. Len(a) + Len(b) /\ ~(j <= Len(a))
      BY <1>1, <1>2, <1>5, <2>2
    <3>2. r[j] = b[i]
      BY <1>4, <3>1
    <3> HIDE DEF i
    <3>3. b[i] = q[j + 1]
      BY <1>2, <3>1
    <3>4. Before(j, k) = j + 1
      BY <2>2 DEF Before
    <3> QED
      BY <3>1, <3>2, <3>3, <3>4
  <2> QED
    BY <2>1, <2>2
<1> QED
  BY <1>4, <1>5, <1>6 DEF r

\* What is left of a good queue is good, and only that job's identifier is gone.
LEMMA RemovalKeepsQueue ==
  ASSUME NEW q, NEW n \in Nat, GoodQueue(q, n), NEW k \in DOMAIN q
  PROVE  /\ GoodQueue(RemoveAt(q, k), n)
         /\ RunningIds(RemoveAt(q, k)) = RunningIds(q) \ {q[k].id}
<1> DEFINE r == RemoveAt(q, k)
<1>1. r \in Seq(Jobs) /\ Len(r) = Len(q) - 1 /\ q \in Seq(Jobs) /\ k \in 1..Len(q)
  <2>1. q \in Seq(Jobs) /\ k \in 1..Len(q)
    BY DEF GoodQueue
  <2> QED
    BY <2>1, RemoveAtRemoves
<1>2. \A j \in 1..Len(r) : Before(j, k) \in 1..Len(q) /\ Before(j, k) # k /\ r[j] = q[Before(j, k)]
  BY <1>1, RemoveAtRemoves
<1>3. \A i \in 1..Len(q) : i # k => \E j \in 1..Len(r) : Before(j, k) = i
  <2> SUFFICES ASSUME NEW i \in 1..Len(q), i # k PROVE \E j \in 1..Len(r) : Before(j, k) = i
    OBVIOUS
  <2>1. CASE i < k
    <3>1. i \in 1..Len(r) /\ Before(i, k) = i
      BY <1>1, <2>1 DEF Before
    <3> QED
      BY <3>1
  <2>2. CASE i > k
    <3>1. i - 1 \in 1..Len(r) /\ Before(i - 1, k) = i
      BY <1>1, <2>2 DEF Before
    <3> QED
      BY <3>1
  <2> QED
    BY <1>1, <2>1, <2>2
<1>4. \A i, j \in 1..Len(r) : Before(i, k) = Before(j, k) => i = j
  BY <1>1 DEF Before
<1> HIDE DEF r
<1>5. DOMAIN r = 1..Len(r) /\ DOMAIN q = 1..Len(q)
  BY <1>1
<1>6. GoodQueue(r, n)
  <2>1. \A j \in DOMAIN r : r[j].id <= n
    BY <1>1, <1>2 DEF GoodQueue
  <2>2. ASSUME NEW i \in 1..Len(r), NEW j \in 1..Len(r), r[i].id = r[j].id PROVE i = j
    <3>1. q[Before(i, k)].id = q[Before(j, k)].id
      BY <1>2, <2>2
    <3>2. Before(i, k) = Before(j, k)
      BY <1>1, <1>2, <3>1 DEF GoodQueue
    <3> QED
      BY <1>4, <3>2
  <2> QED
    BY <1>1, <1>5, <2>1, <2>2 DEF GoodQueue
<1>7. RunningIds(r) = RunningIds(q) \ {q[k].id}
  <2>1. ASSUME NEW x \in RunningIds(r) PROVE x \in RunningIds(q) /\ x # q[k].id
    <3>1. PICK j \in 1..Len(r) : r[j].running /\ x = r[j].id
      BY <1>5, <2>1 DEF RunningIds, Running
    <3>2. Before(j, k) \in DOMAIN q /\ Before(j, k) # k /\ q[Before(j, k)].running /\ x = q[Before(j, k)].id
      BY <1>2, <1>5, <3>1
    <3>3. x # q[k].id
      BY <3>2 DEF GoodQueue
    <3> QED
      BY <3>2, <3>3 DEF RunningIds, Running
  <2>2. ASSUME NEW x \in RunningIds(q), x # q[k].id PROVE x \in RunningIds(r)
    <3>1. PICK i \in 1..Len(q) : q[i].running /\ x = q[i].id
      BY <1>1, <2>2 DEF RunningIds, Running
    <3>2. i # k
      BY <2>2, <3>1
    <3>3. PICK j \in 1..Len(r) : Before(j, k) = i
      BY <1>3, <3>2
    <3> QED
      BY <1>1, <1>2, <3>1, <3>3 DEF RunningIds, Running
  <2> QED
    BY <2>1, <2>2
<1> QED
  BY <1>6, <1>7 DEF r

\* sentinelScheduleScriptExecution (sentinel.c:671): the new job does not run,
\* so there is one to drop, and the one dropped does not run.
LEMMA ScheduleKeeps ==
  ASSUME ScriptsInv, ScheduleScriptExecution
  PROVE  ScriptsInv'
<1> DEFINE new == [id |-> scheduled + 1, running |-> FALSE, tries |-> 0, later |-> FALSE, dead |-> FALSE]
           q == Append(scripts, new)
           idle == DOMAIN q \ Running(q)
           n == scheduled + 1
<1>1. scripts \in Seq(Jobs) /\ new \in Jobs /\ n \in Nat /\ scheduled \in Nat /\ n = scheduled + 1
  BY DEF ScriptsInv, GoodQueue, Jobs
<1>2. q \in Seq(Jobs) /\ Len(q) = Len(scripts) + 1 /\ q[Len(q)] = new
      /\ DOMAIN q = 1..Len(q) /\ DOMAIN scripts = 1..Len(scripts) /\ Len(scripts) \in Nat
      /\ \A k \in 1..Len(scripts) : q[k] = scripts[k]
  BY <1>1
<1>3. ~new.running /\ new.id = n
  OBVIOUS
<1>4. scripts' = DropOldest(q) /\ scheduled' = n /\ UNCHANGED <<runningScripts, alive>>
  BY DEF ScheduleScriptExecution
<1> HIDE DEF new, q, n
<1>5. GoodQueue(q, n)
  <2>1. \A k \in 1..Len(scripts) : scripts[k].id \in Nat /\ scripts[k].id <= scheduled
    <3>1. \A k \in 1..Len(scripts) : scripts[k] \in Jobs
      BY <1>1, <1>2
    <3>2. \A k \in 1..Len(scripts) : scripts[k].id <= scheduled
      BY <1>2 DEF ScriptsInv, GoodQueue
    <3> QED
      BY <3>1, <3>2 DEF Jobs
  <2>2. \A k \in 1..Len(q) : k = Len(q) \/ k \in 1..Len(scripts)
    BY <1>2
  <2>3. \A k \in 1..Len(q) : q[k].id <= n
    BY <1>1, <1>2, <1>3, <2>1, <2>2
  <2>4. ASSUME NEW j \in 1..Len(q), NEW k \in 1..Len(q), q[j].id = q[k].id PROVE j = k
    <3>1. \A i \in 1..Len(scripts) : q[i].id # n
      BY <1>1, <1>2, <2>1
    <3>2. CASE j \in 1..Len(scripts) /\ k \in 1..Len(scripts)
      BY <1>2, <2>4, <3>2 DEF ScriptsInv, GoodQueue
    <3>3. CASE j = Len(q) \/ k = Len(q)
      BY <1>2, <1>3, <2>2, <2>4, <3>1, <3>3
    <3> QED
      BY <2>2, <3>2, <3>3
  <2> QED
    BY <1>2, <2>3, <2>4 DEF GoodQueue
<1>6. RunningIds(q) = RunningIds(scripts)
  BY <1>2, <1>3 DEF RunningIds, Running
<1>7. GoodQueue(scripts', n) /\ RunningIds(scripts') = RunningIds(scripts)
  <2>1. CASE Len(q) <= SCRIPT_MAX_QUEUE
    BY <1>4, <1>5, <1>6, <2>1 DEF DropOldest
  <2>2. CASE ~(Len(q) <= SCRIPT_MAX_QUEUE)
    <3>1. Len(q) \in idle /\ idle \in SUBSET Nat
      BY <1>2, <1>3 DEF Running
    <3>2. \E k \in idle : \A j \in idle : k <= j
      BY <3>1, LeastNatural
    <3>3. PICK k \in idle : scripts' = RemoveAt(q, k)
      BY <1>4, <2>2, <3>2 DEF DropOldest
    <3>4. k \in DOMAIN q /\ ~q[k].running
      BY <3>3 DEF Running
    <3>5. q[k].id \notin RunningIds(q)
      BY <1>5, <3>4 DEF RunningIds, Running, GoodQueue
    <3>6. GoodQueue(RemoveAt(q, k), n) /\ RunningIds(RemoveAt(q, k)) = RunningIds(q) \ {q[k].id}
      BY <1>1, <1>5, <3>4, RemovalKeepsQueue
    <3> QED
      BY <1>6, <3>3, <3>5, <3>6
  <2> QED
    BY <2>1, <2>2
<1> QED
  BY <1>1, <1>4, <1>7 DEF ScriptsInv, EndsFindTheirJob, RunningIds

\* A step that leaves the jobs and which of them run as they are.
LEMMA SameJobsKeep ==
  ASSUME ScriptsInv, NEW k \in DOMAIN scripts, NEW job \in Jobs,
         job.id = scripts[k].id, job.running = scripts[k].running,
         scripts' = [scripts EXCEPT ![k] = job], UNCHANGED <<runningScripts, scheduled, alive>>
  PROVE  ScriptsInv'
<1>1. scripts \in Seq(Jobs) /\ scripts' \in Seq(Jobs) /\ DOMAIN scripts' = DOMAIN scripts
  BY DEF ScriptsInv, GoodQueue
<1>2. \A j \in DOMAIN scripts : scripts'[j].id = scripts[j].id /\ scripts'[j].running = scripts[j].running
  BY <1>1
<1>3. GoodQueue(scripts', scheduled') /\ RunningIds(scripts') = RunningIds(scripts)
  BY <1>1, <1>2 DEF ScriptsInv, GoodQueue, RunningIds, Running
<1> QED
  BY <1>3 DEF ScriptsInv, EndsFindTheirJob, RunningIds

\* The delay of a retry passes: the queue only forgets it.
LEMMA RetryDelayKeeps ==
  ASSUME ScriptsInv, NEW k \in DOMAIN scripts, RetryDelayPasses(k)
  PROVE  ScriptsInv'
<1> DEFINE job == [scripts[k] EXCEPT !.later = FALSE]
<1>1. scripts[k] \in Jobs
  BY DEF ScriptsInv, GoodQueue
<1>2. job \in Jobs /\ job.id = scripts[k].id /\ job.running = scripts[k].running
  BY <1>1 DEF Jobs
<1>3. scripts' = [scripts EXCEPT ![k] = job] /\ UNCHANGED <<runningScripts, scheduled, alive>>
  BY DEF RetryDelayPasses
<1> QED
  BY <1>2, <1>3, SameJobsKeep

\* sentinelKillTimedoutScripts: a script that is killed still has to be collected.
LEMMA KillKeeps ==
  ASSUME ScriptsInv, NEW k \in DOMAIN scripts, KillTimedoutScript(k)
  PROVE  ScriptsInv'
<1> DEFINE job == [scripts[k] EXCEPT !.dead = TRUE]
<1>1. scripts[k] \in Jobs
  BY DEF ScriptsInv, GoodQueue
<1>2. job \in Jobs /\ job.id = scripts[k].id /\ job.running = scripts[k].running
  BY <1>1 DEF Jobs
<1>3. scripts' = [scripts EXCEPT ![k] = job] /\ UNCHANGED <<runningScripts, scheduled, alive>>
  BY DEF KillTimedoutScript
<1> QED
  BY <1>2, <1>3, SameJobsKeep

\* sentinelCollectTerminatedScripts (sentinel.c:791): the job of a process that
\* ended is no longer running, whether it is retried or given up.
LEMMA CollectKeeps ==
  ASSUME ScriptsInv, NEW k \in DOMAIN scripts, NEW retry \in BOOLEAN, CollectTerminatedScript(k, retry)
  PROVE  ScriptsInv'
<1>1. /\ scripts \in Seq(Jobs) /\ scripts[k] \in Jobs /\ scripts[k].running
      /\ IsFiniteSet(alive) /\ runningScripts \in Nat /\ scheduled \in Nat
      /\ alive = RunningIds(scripts) /\ Cardinality(alive) <= runningScripts
      /\ runningScripts <= SCRIPT_MAX_RUNNING /\ alive' = alive \ {scripts[k].id} /\ scheduled' = scheduled
  BY DEF ScriptsInv, GoodQueue, EndsFindTheirJob, RunningIds, CollectTerminatedScript
<1>2. scripts[k].id \in alive
  BY <1>1 DEF RunningIds, Running
<1>3. /\ IsFiniteSet(alive') /\ Cardinality(alive') = Cardinality(alive) - 1
      /\ Cardinality(alive) \in Nat /\ Cardinality(alive') \in Nat
  BY <1>1, <1>2, FS_RemoveElement, FS_CardinalityType
<1>4. CASE retry /\ scripts[k].tries # SCRIPT_MAX_RETRY
  <2> DEFINE job == [scripts[k] EXCEPT !.running = FALSE, !.later = TRUE, !.dead = FALSE]
  <2>1. job \in Jobs /\ job.id = scripts[k].id /\ ~job.running
    BY <1>1 DEF Jobs
  <2>2. scripts' = [scripts EXCEPT ![k] = job] /\ runningScripts' = runningScripts
    BY <1>4 DEF CollectTerminatedScript
  <2> HIDE DEF job
  <2>3. /\ scripts' \in Seq(Jobs) /\ DOMAIN scripts' = DOMAIN scripts /\ scripts'[k] = job
        /\ \A j \in DOMAIN scripts : j # k => scripts'[j] = scripts[j]
    BY <1>1, <2>1, <2>2
  <2>4. \A j \in DOMAIN scripts : scripts'[j].id = scripts[j].id
    BY <2>1, <2>3
  <2>5. GoodQueue(scripts', scheduled')
    BY <1>1, <2>3, <2>4 DEF ScriptsInv, GoodQueue
  <2>6. ASSUME NEW x \in RunningIds(scripts') PROVE x \in alive'
    <3>1. PICK j \in DOMAIN scripts : scripts'[j].running /\ x = scripts'[j].id
      BY <2>3, <2>6 DEF RunningIds, Running
    <3>2. j # k /\ scripts[j].running /\ x = scripts[j].id
      BY <2>1, <2>3, <3>1
    <3>3. x # scripts[k].id
      BY <3>2 DEF ScriptsInv, GoodQueue
    <3> QED
      BY <1>1, <3>2, <3>3 DEF RunningIds, Running
  <2>7. ASSUME NEW x \in alive' PROVE x \in RunningIds(scripts')
    <3>1. PICK j \in DOMAIN scripts : scripts[j].running /\ x = scripts[j].id
      BY <1>1, <2>7 DEF RunningIds, Running
    <3>2. j # k
      BY <1>1, <2>7, <3>1
    <3> QED
      BY <2>3, <3>1, <3>2 DEF RunningIds, Running
  <2>8. alive' = RunningIds(scripts')
    BY <2>6, <2>7
  <2>9. Cardinality(alive') <= runningScripts' /\ runningScripts' <= SCRIPT_MAX_RUNNING
    BY <1>1, <1>3, <2>2
  <2> QED
    BY <1>1, <1>3, <2>2, <2>5, <2>8, <2>9 DEF ScriptsInv, EndsFindTheirJob, RunningIds
<1>5. CASE ~(retry /\ scripts[k].tries # SCRIPT_MAX_RETRY)
  <2>1. scripts' = RemoveAt(scripts, k) /\ runningScripts' = runningScripts - 1
    BY <1>5 DEF CollectTerminatedScript
  <2>2. GoodQueue(scripts', scheduled') /\ RunningIds(scripts') = RunningIds(scripts) \ {scripts[k].id}
    BY <1>1, <2>1, RemovalKeepsQueue DEF ScriptsInv
  <2>3. runningScripts' \in Nat /\ Cardinality(alive') <= runningScripts' /\ runningScripts' <= SCRIPT_MAX_RUNNING
    <3>1. Cardinality(alive) >= 1
      BY <1>3
    <3> QED
      BY <1>1, <1>3, <2>1, <3>1, ScriptsAssumption
  <2> QED
    BY <1>1, <1>3, <2>2, <2>3 DEF ScriptsInv, EndsFindTheirJob, RunningIds
<1> QED
  BY <1>4, <1>5

\* sentinelRunPendingScripts (sentinel.c:722): the jobs that are forked did not
\* run before, and there is room for all of them.
LEMMA RunPendingKeeps ==
  ASSUME ScriptsInv, NEW failing \in SUBSET DOMAIN scripts, RunPendingScripts(failing)
  PROVE  ScriptsInv'
<1> DEFINE due == Due(scripts) \ failing
           ran == Tried(failing) \ failing
           started == {scripts[k].id : k \in ran}
<1>1. /\ scripts \in Seq(Jobs) /\ IsFiniteSet(alive) /\ runningScripts \in Nat /\ scheduled \in Nat
      /\ alive = RunningIds(scripts) /\ Cardinality(alive) <= runningScripts
      /\ runningScripts <= SCRIPT_MAX_RUNNING /\ scheduled' = scheduled
      /\ runningScripts' = runningScripts + Cardinality(ran) /\ alive' = alive \cup started
  BY DEF ScriptsInv, GoodQueue, EndsFindTheirJob, RunningIds, RunPendingScripts
<1>2. DOMAIN scripts = 1..Len(scripts) /\ Len(scripts) \in Nat /\ SCRIPT_MAX_RUNNING \in Nat
  BY <1>1, ScriptsAssumption
<1>3. /\ due \subseteq 1..Len(scripts) /\ ran \in SUBSET due
      /\ \A k \in ran : ~scripts[k].running
      /\ \A k \in ran : runningScripts + Cardinality({j \in due : j < k}) < SCRIPT_MAX_RUNNING
  BY <1>2 DEF Tried, Due
<1>4. IsFiniteSet(due)
  <2> HIDE DEF due
  <2>1. 1 \in Int /\ Len(scripts) \in Int
    BY <1>2
  <2>2. IsFiniteSet(1..Len(scripts))
    BY <2>1, FS_Interval
  <2> QED
    BY <1>3, <2>2, FS_Subset
<1>5. /\ IsFiniteSet(ran) /\ Cardinality(ran) \in Nat
      /\ Cardinality(ran) <= SCRIPT_MAX_RUNNING - runningScripts
  <2> DEFINE room == SCRIPT_MAX_RUNNING - runningScripts
  <2>1. room \in Nat
    BY <1>1, <1>2
  <2>2. ASSUME NEW k \in ran PROVE Cardinality({j \in due : j < k}) < room
    <3>1. Cardinality({j \in due : j < k}) \in Nat
      <4>1. {j \in due : j < k} \in SUBSET due
        OBVIOUS
      <4> QED
        BY <1>4, <4>1, FS_Subset, FS_CardinalityType
    <3> QED
      BY <1>1, <1>2, <1>3, <3>1
  <2> HIDE DEF room, due, ran
  <2>3. IsFiniteSet(ran) /\ Cardinality(ran) \in Nat /\ Cardinality(ran) <= room
    BY <1>2, <1>3, <1>4, <2>1, <2>2, FirstOnes
  <2> QED
    BY <2>3 DEF room
<1>6. IsFiniteSet(started) /\ Cardinality(started) \in Nat /\ Cardinality(started) <= Cardinality(ran)
  <2> DEFINE f == [k \in ran |-> scripts[k].id]
  <2>1. f \in Surjection(ran, started)
    BY DEF Surjection
  <2> HIDE DEF f, started, ran
  <2> QED
    BY <1>5, <2>1, FS_Surjection, FS_CardinalityType
<1>7. /\ IsFiniteSet(alive') /\ Cardinality(alive') <= runningScripts'
      /\ runningScripts' \in Nat /\ runningScripts' <= SCRIPT_MAX_RUNNING
  <2> HIDE DEF started, ran
  <2>1. /\ IsFiniteSet(alive') /\ Cardinality(alive') = Cardinality(alive) + Cardinality(started) - Cardinality(alive \cap started)
        /\ Cardinality(alive \cap started) \in Nat /\ Cardinality(alive) \in Nat
    BY <1>1, <1>6, FS_Union, FS_Intersection, FS_CardinalityType
  <2> QED
    BY <1>1, <1>2, <1>5, <1>6, <2>1
<1>8. /\ DOMAIN scripts' = DOMAIN scripts /\ scripts' \in Seq(Jobs)
      /\ \A k \in DOMAIN scripts : scripts'[k].id = scripts[k].id
      /\ \A k \in DOMAIN scripts : scripts'[k].running <=> scripts[k].running \/ k \in ran
  <2> DEFINE job(k) == [scripts[k] EXCEPT !.tries = @ + 1, !.running = k \in ran]
  <2>1. scripts' = [k \in 1..Len(scripts) |-> IF k \in Tried(failing) THEN job(k) ELSE scripts[k]]
    BY <1>2 DEF RunPendingScripts
  <2> DEFINE Forked(r, j, b) == r \in Jobs /\ r.id = j.id /\ r.running = b
  <2>2. \A k \in 1..Len(scripts) : /\ scripts[k] \in Jobs /\ job(k) \in Jobs
                                   /\ job(k).id = scripts[k].id /\ job(k).running = (k \in ran)
    <3> HIDE DEF ran
    <3>1. ASSUME NEW j \in Jobs, NEW b \in BOOLEAN, NEW t \in Nat
          PROVE  Forked([j EXCEPT !.tries = t, !.running = b], j, b)
      <4>1. CASE b = TRUE
        <5>1. /\ [j EXCEPT !.tries = t, !.running = TRUE] \in Jobs
              /\ [j EXCEPT !.tries = t, !.running = TRUE].id = j.id
              /\ [j EXCEPT !.tries = t, !.running = TRUE].running = TRUE
          BY DEF Jobs
        <5> QED
          BY <4>1, <5>1, Zenon
      <4>2. CASE b = FALSE
        <5>1. /\ [j EXCEPT !.tries = t, !.running = FALSE] \in Jobs
              /\ [j EXCEPT !.tries = t, !.running = FALSE].id = j.id
              /\ [j EXCEPT !.tries = t, !.running = FALSE].running = FALSE
          BY DEF Jobs
        <5> QED
          BY <4>2, <5>1, Zenon
      <4> QED
        BY <4>1, <4>2
    <3> SUFFICES ASSUME NEW k \in 1..Len(scripts)
                 PROVE  /\ scripts[k] \in Jobs /\ job(k) \in Jobs
                        /\ job(k).id = scripts[k].id /\ job(k).running = (k \in ran)
      OBVIOUS
    <3>2. scripts[k] \in Jobs
      BY <1>1
    <3>3. (k \in ran) \in BOOLEAN
      OBVIOUS
    <3>4. scripts[k].tries + 1 \in Nat
      BY <3>2 DEF Jobs
    <3>5. PICK b \in BOOLEAN : b = (k \in ran)
      BY <3>3
    <3>6. PICK t \in Nat : t = scripts[k].tries + 1
      BY <3>4
    <3>7. PICK j \in Jobs : j = scripts[k]
      BY <3>2
    <3>8. job(k) = [j EXCEPT !.tries = t, !.running = b]
      BY <3>5, <3>6, <3>7
    <3>9. Forked([j EXCEPT !.tries = t, !.running = b], j, b)
      <4> HIDE DEF Forked
      <4> QED
        BY <3>1, Zenon
    <3>10. Forked(job(k), scripts[k], k \in ran)
      <4> HIDE DEF job, Forked
      <4> QED
        BY <3>5, <3>7, <3>8, <3>9, Zenon
    <3> HIDE DEF job
    <3> QED
      BY <3>2, <3>10
  <2>3. \A k \in Tried(failing) : ~scripts[k].running
    BY DEF Tried, Due
  <2>4. ran \subseteq Tried(failing)
    OBVIOUS
  <2> HIDE DEF job, ran
  <2>5. \A k \in 1..Len(scripts) : scripts'[k] = IF k \in Tried(failing) THEN job(k) ELSE scripts[k]
    BY <2>1
  <2>6. scripts' \in Seq(Jobs) /\ DOMAIN scripts' = 1..Len(scripts)
    BY <1>2, <2>1, <2>2
  <2> QED
    BY <1>2, <2>2, <2>3, <2>4, <2>5, <2>6
<1>9. GoodQueue(scripts', scheduled')
  BY <1>1, <1>8 DEF ScriptsInv, GoodQueue
<1>10. alive' = RunningIds(scripts')
  <2>1. ran \subseteq DOMAIN scripts
    BY <1>2, <1>3
  <2> QED
    BY <1>1, <1>8, <2>1 DEF RunningIds, Running
<1> QED
  BY <1>1, <1>7, <1>9, <1>10 DEF ScriptsInv, EndsFindTheirJob, RunningIds

\* Every step of the script queue keeps the invariant.
LEMMA ScriptsNextKeeps ==
  ASSUME ScriptsInv, ScriptsNext
  PROVE  ScriptsInv'
BY ScheduleKeeps, RunPendingKeeps, RetryDelayKeeps, KillKeeps, CollectKeeps DEF ScriptsNext

\* An empty queue satisfies the invariant.
LEMMA ScriptsInitIsGood == ScriptsInit => ScriptsInv
<1> SUFFICES ASSUME ScriptsInit PROVE ScriptsInv
  OBVIOUS
<1>1. scripts = <<>> /\ runningScripts = 0 /\ scheduled = 0 /\ alive = {} /\ DOMAIN scripts = {}
  BY DEF ScriptsInit
<1>2. GoodQueue(scripts, scheduled) /\ RunningIds(scripts) = {}
  BY <1>1 DEF GoodQueue, RunningIds, Running
<1>3. IsFiniteSet(alive) /\ Cardinality(alive) = 0
  BY <1>1, FS_EmptySet
<1>4. 0 <= SCRIPT_MAX_RUNNING
  BY ScriptsAssumption
<1>5. EndsFindTheirJob
  <2>1. alive = {scripts[k].id : k \in Running(scripts)}
    <3>1. alive = {} /\ RunningIds(scripts) = {}
      BY <1>1, <1>2
    <3> QED
      BY <3>1 DEF RunningIds
  <2>2. Cardinality(alive) <= runningScripts /\ runningScripts <= SCRIPT_MAX_RUNNING
    BY <1>1, <1>3, <1>4
  <2> QED
    BY <2>1, <2>2 DEF EndsFindTheirJob
<1>6. scheduled \in Nat /\ runningScripts \in Nat
  BY <1>1
<1> QED
  BY <1>2, <1>3, <1>5, <1>6 DEF ScriptsInv

-----------------------------------------------------------------------------
(* The shared links to the other sentinels.                                *)

Pendings == [Masters -> [Others -> Nat]]
LinkRecords == [refcount : Nat, up : BOOLEAN, pending : Pendings]

Present(E, m, o, l) == E[m][o] # NoEntry /\ E[m][o].link = l
Users(E, l) == {p \in Masters \X Others : Present(E, p[1], p[2], l)}

GoodEntries(E) == E \in [Masters -> [Others -> Entries \cup {NoEntry}]]

\* Entries and links that belong together.
GoodLinks(E, L) ==
  /\ GoodEntries(E) /\ L \in [LinkIds -> LinkRecords]
  /\ \A l \in LinkIds : L[l].refcount = Cardinality(Users(E, l))
  /\ \A l \in LinkIds, m \in Masters, o \in Others :
       L[l].pending[m][o] > 0 => Present(E, m, o, l)

LinksInv == GoodLinks(entry, links) /\ misled = FALSE

\* One count of one entry changes.
LEMMA PendingChanged ==
  ASSUME NEW P \in Pendings, NEW m \in Masters, NEW o \in Others, NEW n \in Nat
  PROVE  /\ [P EXCEPT ![m] = [P[m] EXCEPT ![o] = n]] \in Pendings
         /\ \A k \in Masters, p \in Others :
              [P EXCEPT ![m] = [P[m] EXCEPT ![o] = n]][k][p] = IF k = m /\ p = o THEN n ELSE P[k][p]
<1> DEFINE Q == [P EXCEPT ![m] = [P[m] EXCEPT ![o] = n]]
<1>1. P[m] \in [Others -> Nat]
  BY DEF Pendings
<1>2. [P[m] EXCEPT ![o] = n] \in [Others -> Nat]
  BY <1>1
<1>3. Q \in Pendings
  BY <1>2 DEF Pendings
<1>4. \A k \in Masters : Q[k] = IF k = m THEN [P[m] EXCEPT ![o] = n] ELSE P[k]
  BY DEF Pendings
<1> HIDE DEF Q
<1>5. \A k \in Masters, p \in Others : Q[k][p] = IF k = m /\ p = o THEN n ELSE P[k][p]
  BY <1>1, <1>4
<1> QED
  BY <1>3, <1>5 DEF Q

\* PendingFor changes one count of a link record.
LEMMA PendingForCounts ==
  ASSUME NEW k \in LinkRecords, NEW m \in Masters, NEW o \in Others, NEW n \in Nat
  PROVE  /\ PendingFor(k, m, o, n) \in LinkRecords
         /\ PendingFor(k, m, o, n).refcount = k.refcount
         /\ \A q \in Masters, p \in Others :
              PendingFor(k, m, o, n).pending[q][p] = IF q = m /\ p = o THEN n ELSE k.pending[q][p]
<1> DEFINE Q == [k.pending EXCEPT ![m] = [k.pending[m] EXCEPT ![o] = n]]
<1>1. k.pending \in Pendings
  BY DEF LinkRecords
<1>2. Q \in Pendings /\ \A q \in Masters, p \in Others : Q[q][p] = IF q = m /\ p = o THEN n ELSE k.pending[q][p]
  BY <1>1, PendingChanged
<1>3. PendingFor(k, m, o, n) = [k EXCEPT !.pending = Q]
  BY DEF PendingFor
<1> HIDE DEF Q
<1>4. /\ [k EXCEPT !.pending = Q] \in LinkRecords
      /\ [k EXCEPT !.pending = Q].refcount = k.refcount /\ [k EXCEPT !.pending = Q].pending = Q
  BY <1>2 DEF LinkRecords
<1> QED
  BY <1>2, <1>3, <1>4

\* Empty, whatever it counts: nothing is pending.
LEMMA EmptyIsLink ==
  ASSUME NEW n \in Nat
  PROVE  /\ [Empty EXCEPT !.refcount = n] \in LinkRecords
         /\ [Empty EXCEPT !.refcount = n].refcount = n
         /\ \A m \in Masters, o \in Others : [Empty EXCEPT !.refcount = n].pending[m][o] = 0
         /\ Empty \in LinkRecords /\ Empty.refcount = 0
         /\ \A m \in Masters, o \in Others : Empty.pending[m][o] = 0
<1> DEFINE P == [m \in Masters |-> [o \in Others |-> 0]]
<1>1. P \in Pendings /\ \A m \in Masters, o \in Others : P[m][o] = 0
  BY DEF Pendings
<1>2. Empty = [refcount |-> 0, up |-> FALSE, pending |-> P]
  BY DEF Empty
<1> HIDE DEF P
<1>3. Empty \in LinkRecords /\ Empty.refcount = 0 /\ Empty.pending = P
  BY <1>1, <1>2 DEF LinkRecords
<1>4. /\ [Empty EXCEPT !.refcount = n] \in LinkRecords
      /\ [Empty EXCEPT !.refcount = n].refcount = n
      /\ [Empty EXCEPT !.refcount = n].pending = P
  BY <1>1, <1>3 DEF LinkRecords
<1> QED
  BY <1>1, <1>3, <1>4

\* The users of a link are finitely many, and as many as the pairs at most.
LEMMA UsersAreFinite ==
  ASSUME NEW E, NEW l
  PROVE  IsFiniteSet(Users(E, l)) /\ Cardinality(Users(E, l)) \in Nat
<1>1. IsFiniteSet(Masters \X Others)
  BY LinksAssumption, FS_Product
<1>2. Users(E, l) \subseteq Masters \X Others
  BY DEF Users
<1> QED
  BY <1>1, <1>2, FS_Subset, FS_CardinalityType

\* A changed link keeps the invariant when it counts as before and what is
\* pending belongs to a user of it.
LEMMA ChangedLinkIsGood ==
  ASSUME NEW E, NEW L, GoodLinks(E, L), NEW l \in LinkIds, NEW K \in LinkRecords,
         K.refcount = L[l].refcount,
         \A m \in Masters, o \in Others : K.pending[m][o] > 0 => Present(E, m, o, l)
  PROVE  GoodLinks(E, [L EXCEPT ![l] = K])
<1> DEFINE L2 == [L EXCEPT ![l] = K]
<1>1. L \in [LinkIds -> LinkRecords]
  BY DEF GoodLinks
<1>2. L2 \in [LinkIds -> LinkRecords] /\ L2[l] = K /\ \A k \in LinkIds \ {l} : L2[k] = L[k]
  BY <1>1
<1> HIDE DEF L2
<1>3. \A k \in LinkIds : L2[k].refcount = Cardinality(Users(E, k))
  BY <1>2 DEF GoodLinks
<1>4. \A k \in LinkIds, m \in Masters, o \in Others : L2[k].pending[m][o] > 0 => Present(E, m, o, k)
  BY <1>2 DEF GoodLinks
<1>5. GoodLinks(E, L2)
  BY <1>2, <1>3, <1>4 DEF GoodLinks
<1> QED
  BY <1>5 DEF L2

\* Entries that change their addresses only and links that lose pending
\* commands only.
LEMMA SameUsersAreGood ==
  ASSUME NEW E, NEW L, GoodLinks(E, L), NEW E2, NEW L2, GoodEntries(E2),
         \A m \in Masters, o \in Others : (E2[m][o] = NoEntry <=> E[m][o] = NoEntry),
         \A m \in Masters, o \in Others : E[m][o] # NoEntry => E2[m][o].link = E[m][o].link,
         L2 \in [LinkIds -> LinkRecords],
         \A l \in LinkIds : L2[l].refcount = L[l].refcount,
         \A l \in LinkIds, m \in Masters, o \in Others :
           L2[l].pending[m][o] > 0 => L[l].pending[m][o] > 0
  PROVE  GoodLinks(E2, L2)
<1>1. \A m \in Masters, o \in Others, l \in LinkIds : Present(E2, m, o, l) <=> Present(E, m, o, l)
  BY DEF Present
<1>2. \A l \in LinkIds : Users(E2, l) = Users(E, l)
  BY <1>1 DEF Users
<1> QED
  BY <1>1, <1>2 DEF GoodLinks

\* An entry out of the table.
Without(E, m, o) == [E EXCEPT ![m] = [E[m] EXCEPT ![o] = NoEntry]]
\* An entry into the table.
With(E, m, o, e) == [E EXCEPT ![m] = [E[m] EXCEPT ![o] = e]]

\* A table of entries stays one when an entry is added.
LEMMA WithIsGood ==
  ASSUME NEW E, GoodEntries(E), NEW m \in Masters, NEW o \in Others, NEW e \in Entries \cup {NoEntry}
  PROVE  /\ GoodEntries(With(E, m, o, e)) /\ With(E, m, o, NoEntry) = Without(E, m, o)
         /\ \A k \in Masters, p \in Others :
              With(E, m, o, e)[k][p] = IF k = m /\ p = o THEN e ELSE E[k][p]
<1> DEFINE F == With(E, m, o, e)
           Row == [Others -> Entries \cup {NoEntry}]
<1>1. E \in [Masters -> Row] /\ E[m] \in Row
  BY DEF GoodEntries
<1>2. [E[m] EXCEPT ![o] = e] \in Row
  BY <1>1
<1> HIDE DEF Row
<1>3. F \in [Masters -> Row] /\ \A k \in Masters : F[k] = IF k = m THEN [E[m] EXCEPT ![o] = e] ELSE E[k]
  BY <1>1, <1>2 DEF With
<1> HIDE DEF F
<1>4. \A k \in Masters, p \in Others : F[k][p] = IF k = m /\ p = o THEN e ELSE E[k][p]
  BY <1>1, <1>3 DEF Row
<1>5. With(E, m, o, NoEntry) = Without(E, m, o)
  BY DEF With, Without
<1> QED
  BY <1>3, <1>4, <1>5 DEF F, Row, GoodEntries

\* releaseInstanceLink, for an entry that goes.
LEMMA ReleaseIsGood ==
  ASSUME NEW E, NEW L, GoodLinks(E, L), NEW m \in Masters, NEW o \in Others, E[m][o] # NoEntry
  PROVE  GoodLinks(Without(E, m, o), ReleaseInstanceLink(L, E[m][o].link, m, o))
<1> DEFINE l == E[m][o].link
           F == Without(E, m, o)
           L2 == ReleaseInstanceLink(L, l, m, o)
           K == IF L[l].refcount > 1 THEN [PendingFor(L[l], m, o, 0) EXCEPT !.refcount = L[l].refcount - 1] ELSE Empty
<1>1. /\ E[m][o] \in Entries /\ l \in LinkIds /\ L[l] \in LinkRecords /\ L \in [LinkIds -> LinkRecords]
      /\ L[l].pending \in Pendings /\ L[l].refcount \in Nat
  <2>1. E[m][o] \in Entries
    BY DEF GoodLinks, GoodEntries
  <2>2. l \in LinkIds
    BY <2>1 DEF Entries
  <2> HIDE DEF l
  <2> QED
    BY <2>1, <2>2 DEF GoodLinks, LinkRecords
<1>2. /\ GoodEntries(F)
      /\ \A k \in Masters, p \in Others : F[k][p] = IF k = m /\ p = o THEN NoEntry ELSE E[k][p]
  <2>1. GoodEntries(E)
    BY DEF GoodLinks
  <2> QED
    BY <2>1, WithIsGood
<1>3. L2 = [L EXCEPT ![l] = K]
  <2> HIDE DEF l
  <2>1. CASE L[l].refcount > 1
    BY <2>1 DEF ReleaseInstanceLink
  <2>2. CASE ~(L[l].refcount > 1)
    BY <2>2 DEF ReleaseInstanceLink
  <2> QED
    BY <2>1, <2>2
<1> HIDE DEF F, l, L2
<1>4. /\ Present(E, m, o, l)
      /\ \A k \in LinkIds : Users(F, k) = Users(E, k) \ {<<m, o>>}
      /\ \A k \in LinkIds \ {l} : <<m, o>> \notin Users(E, k)
      /\ <<m, o>> \in Users(E, l)
  <2>1. Present(E, m, o, l) /\ \A k \in LinkIds \ {l} : ~Present(E, m, o, k)
    BY DEF Present, l
  <2>2. \A k \in LinkIds, n \in Masters, p \in Others :
          Present(F, n, p, k) <=> Present(E, n, p, k) /\ <<n, p>> # <<m, o>>
    BY <1>2 DEF Present
  <2> QED
    BY <2>1, <2>2 DEF Users
<1>5. /\ L[l].refcount >= 1
      /\ Cardinality(Users(F, l)) = L[l].refcount - 1
      /\ \A k \in LinkIds \ {l} : Cardinality(Users(F, k)) = L[k].refcount
  <2>1. L[l].refcount = Cardinality(Users(E, l)) /\ IsFiniteSet(Users(E, l))
    BY <1>1, UsersAreFinite DEF GoodLinks
  <2>2. Cardinality(Users(F, l)) = L[l].refcount - 1 /\ Cardinality(Users(F, l)) \in Nat
    BY <1>1, <1>4, <2>1, FS_RemoveElement, UsersAreFinite
  <2>3. \A k \in LinkIds \ {l} : Users(F, k) = Users(E, k)
    BY <1>4
  <2> QED
    BY <1>1, <2>2, <2>3 DEF GoodLinks
<1>6. /\ K \in LinkRecords /\ K.refcount = Cardinality(Users(F, l))
      /\ \A n \in Masters, p \in Others :
           K.pending[n][p] > 0 => L[l].pending[n][p] > 0 /\ <<n, p>> # <<m, o>>
  <2>1. CASE L[l].refcount > 1
    <3> DEFINE k == PendingFor(L[l], m, o, 0)
    <3>1. /\ k \in LinkRecords
          /\ \A n \in Masters, p \in Others : k.pending[n][p] = IF n = m /\ p = o THEN 0 ELSE L[l].pending[n][p]
      <4>1. 0 \in Nat
        OBVIOUS
      <4> QED
        BY <1>1, <4>1, PendingForCounts
    <3>2. K = [k EXCEPT !.refcount = L[l].refcount - 1] /\ L[l].refcount - 1 \in Nat
      BY <1>1, <2>1
    <3> HIDE DEF k, K
    <3>3. K \in LinkRecords /\ K.refcount = L[l].refcount - 1 /\ K.pending = k.pending
      BY <3>1, <3>2 DEF LinkRecords
    <3>4. \A n \in Masters, p \in Others : k.pending[n][p] > 0 => L[l].pending[n][p] > 0 /\ <<n, p>> # <<m, o>>
      BY <3>1
    <3> QED
      BY <1>5, <3>3, <3>4
  <2>2. CASE L[l].refcount = 1
    <3>1. K = Empty
      BY <2>2
    <3> HIDE DEF K
    <3>2. /\ Empty \in LinkRecords /\ Empty.refcount = 0
          /\ \A n \in Masters, p \in Others : Empty.pending[n][p] = 0
      <4>1. 0 \in Nat
        OBVIOUS
      <4> QED
        BY <4>1, EmptyIsLink
    <3> QED
      BY <1>5, <2>2, <3>1, <3>2
  <2> QED
    BY <1>1, <1>5, <2>1, <2>2
<1> HIDE DEF K
<1>7. L2 \in [LinkIds -> LinkRecords] /\ L2[l] = K /\ \A k \in LinkIds \ {l} : L2[k] = L[k]
  BY <1>1, <1>3, <1>6
<1>8. \A k \in LinkIds : L2[k].refcount = Cardinality(Users(F, k))
  BY <1>5, <1>6, <1>7
<1>9. \A k \in LinkIds, n \in Masters, p \in Others : L2[k].pending[n][p] > 0 => Present(F, n, p, k)
  <2> SUFFICES ASSUME NEW k \in LinkIds, NEW n \in Masters, NEW p \in Others, L2[k].pending[n][p] > 0
               PROVE  Present(F, n, p, k)
    OBVIOUS
  <2>1. L[k].pending[n][p] > 0 /\ (k = l => <<n, p>> # <<m, o>>)
    BY <1>6, <1>7
  <2>2. Present(E, n, p, k)
    BY <2>1 DEF GoodLinks
  <2>3. <<n, p>> # <<m, o>>
    BY <1>4, <2>1, <2>2 DEF Present
  <2> QED
    BY <1>2, <2>2, <2>3 DEF Present
<1>10. GoodLinks(F, L2)
  BY <1>2, <1>7, <1>8, <1>9 DEF GoodLinks
<1> QED
  BY <1>10 DEF F, L2, l

\* An entry that begins to use a link, which counts it.
LEMMA AttachIsGood ==
  ASSUME NEW E, NEW L, GoodLinks(E, L), NEW m \in Masters, NEW o \in Others, E[m][o] = NoEntry,
         NEW e \in Entries, NEW K \in LinkRecords, K.refcount = L[e.link].refcount + 1,
         \A n \in Masters, p \in Others : K.pending[n][p] > 0 => L[e.link].pending[n][p] > 0
  PROVE  GoodLinks(With(E, m, o, e), [L EXCEPT ![e.link] = K])
<1> DEFINE l == e.link
           F == With(E, m, o, e)
           L2 == [L EXCEPT ![l] = K]
<1>1. l \in LinkIds /\ e # NoEntry /\ L \in [LinkIds -> LinkRecords] /\ L[l].refcount \in Nat
  <2>1. l \in LinkIds /\ e # NoEntry
    BY LinksAssumption DEF Entries
  <2> HIDE DEF l
  <2> QED
    BY <2>1 DEF GoodLinks, LinkRecords
<1>2. /\ GoodEntries(F)
      /\ \A k \in Masters, p \in Others : F[k][p] = IF k = m /\ p = o THEN e ELSE E[k][p]
  <2>1. GoodEntries(E)
    BY DEF GoodLinks
  <2> QED
    BY <2>1, WithIsGood
<1>3. L2 \in [LinkIds -> LinkRecords] /\ L2[l] = K /\ \A k \in LinkIds \ {l} : L2[k] = L[k]
  BY <1>1
<1> HIDE DEF F, L2
<1>4. /\ Users(F, l) = Users(E, l) \cup {<<m, o>>} /\ <<m, o>> \notin Users(E, l)
      /\ \A k \in LinkIds \ {l} : Users(F, k) = Users(E, k)
  <2>1. \A k \in LinkIds, n \in Masters, p \in Others :
          /\ Present(F, n, p, k) <=> Present(E, n, p, k) \/ (k = l /\ <<n, p>> = <<m, o>>)
          /\ ~Present(E, m, o, k)
    BY <1>1, <1>2 DEF Present
  <2> QED
    BY <1>1, <2>1 DEF Users
<1>5. \A k \in LinkIds : L2[k].refcount = Cardinality(Users(F, k))
  <2>1. L[l].refcount = Cardinality(Users(E, l)) /\ IsFiniteSet(Users(E, l))
    BY <1>1, UsersAreFinite DEF GoodLinks
  <2>2. Cardinality(Users(F, l)) = L[l].refcount + 1
    BY <1>4, <2>1, FS_AddElement
  <2> QED
    BY <1>1, <1>3, <1>4, <2>2 DEF GoodLinks
<1>6. \A k \in LinkIds, n \in Masters, p \in Others : L2[k].pending[n][p] > 0 => Present(F, n, p, k)
  <2> SUFFICES ASSUME NEW k \in LinkIds, NEW n \in Masters, NEW p \in Others, L2[k].pending[n][p] > 0
               PROVE  Present(F, n, p, k)
    OBVIOUS
  <2>1. L[k].pending[n][p] > 0
    BY <1>3
  <2>2. Present(E, n, p, k)
    BY <2>1 DEF GoodLinks
  <2> QED
    BY <1>2, <2>2 DEF Present
<1>7. GoodLinks(F, L2)
  BY <1>2, <1>3, <1>5, <1>6 DEF GoodLinks
<1> QED
  BY <1>7 DEF F, L2

\* There is always a link that nobody uses: there are more than pairs.
LEMMA FreshLinkExists ==
  ASSUME NEW E, NEW L, GoodLinks(E, L)
  PROVE  FreshLink(L) \in LinkIds /\ L[FreshLink(L)].refcount = 0
<1> DEFINE pairs == {p \in Masters \X Others : E[p[1]][p[2]] # NoEntry}
           used == {l \in LinkIds : L[l].refcount # 0}
           free == {l \in LinkIds : L[l].refcount = 0}
           f == [p \in pairs |-> E[p[1]][p[2]].link]
           all == Cardinality(Masters) * Cardinality(Others)
<1>1. /\ IsFiniteSet(Masters \X Others) /\ Cardinality(Masters \X Others) = all
      /\ all \in Nat
  <2>1. Cardinality(Masters) \in Nat /\ Cardinality(Others) \in Nat
    BY LinksAssumption, FS_CardinalityType
  <2> QED
    BY <2>1, LinksAssumption, FS_Product
<1>2. IsFiniteSet(pairs) /\ Cardinality(pairs) <= all /\ Cardinality(pairs) \in Nat
  <2>1. pairs \subseteq Masters \X Others
    OBVIOUS
  <2> HIDE DEF pairs
  <2> QED
    BY <1>1, <2>1, FS_Subset, FS_CardinalityType
<1>3. \A l \in used : \E p \in pairs : f[p] = l
  <2> SUFFICES ASSUME NEW l \in used PROVE \E p \in pairs : f[p] = l
    OBVIOUS
  <2>1. Cardinality(Users(E, l)) # 0
    BY DEF GoodLinks
  <2>2. Users(E, l) # {}
    BY <2>1, FS_EmptySet
  <2>3. PICK p \in Masters \X Others : Present(E, p[1], p[2], l)
    BY <2>2 DEF Users
  <2>4. p \in pairs /\ f[p] = l
    BY <2>3 DEF Present
  <2> QED
    BY <2>4
<1>4. IsFiniteSet(LinkIds) /\ Cardinality(LinkIds) = all + 1
  <2>1. 1 \in Int /\ all + 1 \in Int /\ 1 <= all + 1
    BY <1>1
  <2> HIDE DEF all
  <2>2. IsFiniteSet(1..(all + 1)) /\ Cardinality(1..(all + 1)) = all + 1
    BY <1>1, <2>1, FS_Interval
  <2> QED
    BY <2>2 DEF LinkIds, all
<1>5. free # {}
  <2> SUFFICES ASSUME free = {} PROVE FALSE
    OBVIOUS
  <2>1. used = LinkIds
    OBVIOUS
  <2> DEFINE reached == {f[p] : p \in pairs}
  <2>2. LinkIds \subseteq reached
    BY <1>3, <2>1
  <2>3. f \in Surjection(pairs, reached)
    BY DEF Surjection
  <2> HIDE DEF f, pairs, reached
  <2>4. IsFiniteSet(reached) /\ Cardinality(reached) <= Cardinality(pairs)
    BY <1>2, <2>3, FS_Surjection
  <2>5. Cardinality(LinkIds) <= Cardinality(reached) /\ Cardinality(reached) \in Nat
    BY <2>2, <2>4, FS_Subset, FS_CardinalityType
  <2> QED
    BY <1>1, <1>2, <1>4, <2>4, <2>5
<1>6. PICK l \in free : \A k \in free : l <= k
  <2>1. free \in SUBSET Nat
    BY <1>1 DEF LinkIds
  <2> HIDE DEF free
  <2> QED
    BY <1>5, <2>1, LeastNatural
<1>7. l \in LinkIds /\ L[l].refcount = 0 /\ \A k \in 1..(l - 1) : L[k].refcount # 0
  BY <1>1, <1>6 DEF LinkIds
<1> QED
  BY <1>7 DEF FreshLink

\* createSentinelRedisInstance for a sentinel that has no entry.
LEMMA CreateEntryIsGood ==
  ASSUME NEW E, NEW L, GoodLinks(E, L), NEW m \in Masters, NEW o \in Others, E[m][o] = NoEntry,
         NEW a \in Addresses
  PROVE  /\ GoodLinks(CreateEntry(E, L, m, o, a).e, CreateEntry(E, L, m, o, a).l)
         /\ CreateEntry(E, L, m, o, a).e[m][o] # NoEntry
<1> DEFINE l == FreshLink(L)
           e == [addr |-> a, link |-> l]
           K == [Empty EXCEPT !.refcount = 1]
<1>1. l \in LinkIds /\ L[l].refcount = 0
  BY FreshLinkExists
<1> HIDE DEF l
<1>2. e \in Entries /\ e.link = l
  BY <1>1 DEF Entries
<1>3. K \in LinkRecords /\ K.refcount = 1 /\ \A n \in Masters, p \in Others : K.pending[n][p] = 0
  <2>1. 1 \in Nat
    OBVIOUS
  <2> QED
    BY <2>1, EmptyIsLink
<1>4. /\ CreateEntry(E, L, m, o, a).e = With(E, m, o, e)
      /\ CreateEntry(E, L, m, o, a).l = [L EXCEPT ![l] = K]
  BY DEF CreateEntry, CreateInstanceLink, With, l
<1> HIDE DEF e, K
<1>5. GoodLinks(With(E, m, o, e), [L EXCEPT ![e.link] = K])
  BY <1>1, <1>2, <1>3, AttachIsGood
<1>6. With(E, m, o, e)[m][o] = e /\ e # NoEntry
  <2>1. GoodEntries(E)
    BY DEF GoodLinks
  <2> QED
    BY <1>2, <2>1, WithIsGood, LinksAssumption
<1> QED
  BY <1>2, <1>4, <1>5, <1>6

\* sentinelTryConnectionSharing, for an entry that is there.
LEMMA TryConnectionSharingIsGood ==
  ASSUME NEW E, NEW L, GoodLinks(E, L), NEW m \in Masters, NEW o \in Others, E[m][o] # NoEntry
  PROVE  /\ GoodLinks(TryConnectionSharing(E, L, m, o).e, TryConnectionSharing(E, L, m, o).l)
         /\ TryConnectionSharing(E, L, m, o).e[m][o] # NoEntry
<1> DEFINE match == {k \in Masters \ {m} : E[k][o] # NoEntry}
           k == CHOOSE x \in match : TRUE
           l == E[k][o].link
           L1 == ReleaseInstanceLink(L, E[m][o].link, m, o)
           E1 == Without(E, m, o)
           e == [E[m][o] EXCEPT !.link = l]
           K == [L1[l] EXCEPT !.refcount = L1[l].refcount + 1]
<1>1. CASE match = {}
  BY <1>1 DEF TryConnectionSharing
<1>2. CASE match # {}
  <2>1. k \in Masters \ {m} /\ E[k][o] # NoEntry
    BY <1>2
  <2> HIDE DEF k
  <2>2. E[m][o] \in Entries /\ E[k][o] \in Entries /\ GoodEntries(E)
    BY <2>1 DEF GoodLinks, GoodEntries
  <2>3. l \in LinkIds /\ e \in Entries /\ e.link = l
    BY <2>2 DEF Entries
  <2>4. GoodLinks(E1, L1)
    BY ReleaseIsGood
  <2>5. E1[m][o] = NoEntry
    BY <2>2, WithIsGood
  <2>6. With(E1, m, o, e) = [E EXCEPT ![m][o].link = l]
    <3>1. With(E1, m, o, e) = With(E, m, o, e)
      <4> HIDE DEF e
      <4>1. E \in [Masters -> [Others -> Entries \cup {NoEntry}]] /\ E[m] \in [Others -> Entries \cup {NoEntry}]
        BY <2>2 DEF GoodEntries
      <4>2. [[E[m] EXCEPT ![o] = NoEntry] EXCEPT ![o] = e] = [E[m] EXCEPT ![o] = e]
        BY <4>1
      <4>3. E1[m] = [E[m] EXCEPT ![o] = NoEntry]
        BY <4>1 DEF Without
      <4>4. With(E1, m, o, e) = [E1 EXCEPT ![m] = [E[m] EXCEPT ![o] = e]]
        BY <4>2, <4>3 DEF With
      <4>5. [E1 EXCEPT ![m] = [E[m] EXCEPT ![o] = e]] = [E EXCEPT ![m] = [E[m] EXCEPT ![o] = e]]
        BY <4>1 DEF Without
      <4> QED
        BY <4>4, <4>5 DEF With
    <3>2. With(E, m, o, e) = [E EXCEPT ![m][o].link = l]
      BY Zenon DEF With
    <3> QED
      BY <3>1, <3>2
  <2>7. /\ TryConnectionSharing(E, L, m, o).e = With(E1, m, o, e)
        /\ TryConnectionSharing(E, L, m, o).l = [L1 EXCEPT ![l] = K]
    BY <1>2, <2>6, Zenon DEF TryConnectionSharing, k
  <2> HIDE DEF l, L1, E1, e
  <2>8. L1[l] \in LinkRecords
    BY <2>3, <2>4 DEF GoodLinks
  <2>9. K \in LinkRecords /\ K.refcount = L1[l].refcount + 1 /\ K.pending = L1[l].pending
    BY <2>8 DEF LinkRecords
  <2> HIDE DEF K
  <2>10. GoodLinks(With(E1, m, o, e), [L1 EXCEPT ![e.link] = K])
    BY <2>3, <2>4, <2>5, <2>9, AttachIsGood
  <2>11. With(E1, m, o, e)[m][o] = e /\ e # NoEntry
    <3>1. GoodEntries(E1)
      BY <2>4 DEF GoodLinks
    <3> QED
      BY <2>3, <3>1, WithIsGood, LinksAssumption
  <2> QED
    BY <2>3, <2>7, <2>10, <2>11
<1> QED
  BY <1>1, <1>2

\* sentinelUpdateSentinelAddressInAllMasters, from an entry that is there.
LEMMA UpdateInAllMastersIsGood ==
  ASSUME NEW E, NEW L, GoodLinks(E, L), NEW m \in Masters, NEW o \in Others, E[m][o] # NoEntry
  PROVE  /\ GoodLinks(UpdateInAllMasters(E, L, m, o).e, UpdateInAllMasters(E, L, m, o).l)
         /\ \A k \in Masters, p \in Others :
              UpdateInAllMasters(E, L, m, o).e[k][p] = NoEntry <=> E[k][p] = NoEntry
<1> DEFINE F == UpdateInAllMasters(E, L, m, o).e
           L2 == UpdateInAllMasters(E, L, m, o).l
           a == E[m][o].addr
           new == [k \in Masters |-> IF E[k][o] = NoEntry THEN E[k][o] ELSE [E[k][o] EXCEPT !.addr = a]]
<1>1. GoodEntries(E) /\ L \in [LinkIds -> LinkRecords]
  BY DEF GoodLinks
<1>2. E[m][o] \in Entries
  BY <1>1 DEF GoodEntries
<1>3. a \in Addresses \cup {Unreachable}
  BY <1>2 DEF Entries
<1>4. F = [k \in Masters |-> [E[k] EXCEPT ![o] = new[k]]]
  BY DEF UpdateInAllMasters
<1> HIDE DEF F, a
<1>5. \A k \in Masters : /\ new[k] \in Entries \cup {NoEntry} /\ (new[k] = NoEntry <=> E[k][o] = NoEntry)
                         /\ E[k][o] # NoEntry => new[k].link = E[k][o].link
  <2> SUFFICES ASSUME NEW k \in Masters, E[k][o] # NoEntry
               PROVE  new[k] \in Entries /\ new[k] # NoEntry /\ new[k].link = E[k][o].link
    OBVIOUS
  <2>1. E[k][o] \in Entries
    BY <1>1 DEF GoodEntries
  <2>2. new[k] = [E[k][o] EXCEPT !.addr = a]
    OBVIOUS
  <2>3. [E[k][o] EXCEPT !.addr = a] \in Entries /\ [E[k][o] EXCEPT !.addr = a].link = E[k][o].link
    BY <1>3, <2>1 DEF Entries
  <2> QED
    BY <2>2, <2>3, LinksAssumption
<1> HIDE DEF new
<1>6. /\ GoodEntries(F)
      /\ \A k \in Masters, p \in Others : F[k][p] = IF p = o THEN new[k] ELSE E[k][p]
  <2>1. \A k \in Masters : E[k] \in [Others -> Entries \cup {NoEntry}]
    BY <1>1 DEF GoodEntries
  <2>2. \A k \in Masters : [E[k] EXCEPT ![o] = new[k]] \in [Others -> Entries \cup {NoEntry}]
    BY <1>5, <2>1
  <2>3. F \in [Masters -> [Others -> Entries \cup {NoEntry}]] /\ \A k \in Masters : F[k] = [E[k] EXCEPT ![o] = new[k]]
    BY <1>4, <2>2
  <2>4. \A k \in Masters, p \in Others : F[k][p] = IF p = o THEN new[k] ELSE E[k][p]
    BY <2>1, <2>3
  <2> QED
    BY <2>3, <2>4 DEF GoodEntries
<1>7. \A l \in LinkIds : /\ L2[l] \in LinkRecords /\ L2[l].refcount = L[l].refcount
                         /\ \A n \in Masters, p \in Others : L2[l].pending[n][p] > 0 => L[l].pending[n][p] > 0
  <2> SUFFICES ASSUME NEW l \in LinkIds
               PROVE  /\ L2[l] \in LinkRecords /\ L2[l].refcount = L[l].refcount
                      /\ \A n \in Masters, p \in Others : L2[l].pending[n][p] > 0 => L[l].pending[n][p] > 0
    OBVIOUS
  <2> DEFINE closed == [Empty EXCEPT !.refcount = L[l].refcount]
  <2>1. L[l] \in LinkRecords /\ L[l].refcount \in Nat
    BY <1>1 DEF LinkRecords
  <2>2. CloseConnection(L, l)[l] = closed
    BY <1>1 DEF CloseConnection
  <2>3. L2[l] = closed \/ L2[l] = L[l]
    BY <2>2 DEF UpdateInAllMasters
  <2>4. closed \in LinkRecords /\ closed.refcount = L[l].refcount /\ \A n \in Masters, p \in Others : closed.pending[n][p] = 0
    BY <2>1, EmptyIsLink
  <2> HIDE DEF closed, L2
  <2> QED
    BY <2>1, <2>3, <2>4
<1>8. L2 \in [LinkIds -> LinkRecords]
  <2>1. L2 = [l \in LinkIds |-> L2[l]]
    BY DEF UpdateInAllMasters
  <2> HIDE DEF L2
  <2> QED
    BY <1>7, <2>1
<1> HIDE DEF L2
<1>9. \A k \in Masters, p \in Others : F[k][p] = NoEntry <=> E[k][p] = NoEntry
  BY <1>5, <1>6
<1>10. \A k \in Masters, p \in Others : E[k][p] # NoEntry => F[k][p].link = E[k][p].link
  BY <1>5, <1>6
<1>11. GoodLinks(F, L2)
  BY <1>6, <1>7, <1>8, <1>9, <1>10, SameUsersAreGood
<1> QED
  BY <1>9, <1>11 DEF F, L2

\* A sentinel of the same address gets the address nobody is at.
LEMMA UnreachableIsGood ==
  ASSUME NEW E, NEW L, GoodLinks(E, L), NEW m \in Masters, NEW p \in Others, E[m][p] # NoEntry
  PROVE  /\ GoodLinks(With(E, m, p, [E[m][p] EXCEPT !.addr = Unreachable]), L)
         /\ \A k \in Masters, q \in Others :
              With(E, m, p, [E[m][p] EXCEPT !.addr = Unreachable])[k][q] = NoEntry <=> E[k][q] = NoEntry
<1> DEFINE e == [E[m][p] EXCEPT !.addr = Unreachable]
           F == With(E, m, p, e)
<1>1. GoodEntries(E) /\ L \in [LinkIds -> LinkRecords]
  BY DEF GoodLinks
<1>2. E[m][p] \in Entries
  BY <1>1 DEF GoodEntries
<1>3. e \in Entries /\ e.link = E[m][p].link
  BY <1>2 DEF Entries
<1> HIDE DEF e
<1>4. GoodEntries(F) /\ \A k \in Masters, q \in Others : F[k][q] = IF k = m /\ q = p THEN e ELSE E[k][q]
  BY <1>1, <1>3, WithIsGood
<1> HIDE DEF F
<1>5. \A k \in Masters, q \in Others : F[k][q] = NoEntry <=> E[k][q] = NoEntry
  BY <1>3, <1>4, LinksAssumption
<1>6. \A k \in Masters, q \in Others : E[k][q] # NoEntry => F[k][q].link = E[k][q].link
  BY <1>3, <1>4
<1>7. GoodLinks(F, L)
  BY <1>1, <1>4, <1>5, <1>6, SameUsersAreGood
<1> QED
  BY <1>5, <1>7 DEF F, e

\* The last steps of sentinelProcessHelloMessage: a new entry, which shares the
\* link of the same sentinel under another master.
LEMMA CreatedAndSharedIsGood ==
  ASSUME NEW E, NEW L, GoodLinks(E, L), NEW m \in Masters, NEW o \in Others, E[m][o] = NoEntry,
         NEW a \in Addresses, NEW made, made = CreateEntry(E, L, m, o, a),
         NEW shared, shared = TryConnectionSharing(made.e, made.l, m, o)
  PROVE  GoodLinks(shared.e, shared.l) /\ shared.e[m][o] # NoEntry
<1>1. GoodLinks(made.e, made.l) /\ made.e[m][o] # NoEntry
  BY CreateEntryIsGood
<1> QED
  BY <1>1, TryConnectionSharingIsGood

\* A hello that meets a sentinel, or finds it elsewhere, keeps the links counted.
LEMMA HelloKeeps ==
  ASSUME LinksInv, NEW m \in Masters, NEW o \in Others, NEW a \in Addresses, HelloFrom(m, o, a)
  PROVE  LinksInv'
<1> DEFINE removed == entry[m][o] # NoEntry
           taken == {p \in Others \ {o} : entry[m][p] # NoEntry /\ entry[m][p].addr = a}
           p == CHOOSE x \in taken : TRUE
           E0 == IF removed THEN [entry EXCEPT ![m] = [entry[m] EXCEPT ![o] = NoEntry]]
                 ELSE IF taken = {} THEN entry
                 ELSE [entry EXCEPT ![m] = [entry[m] EXCEPT ![p].addr = Unreachable]]
           L0 == IF removed THEN ReleaseInstanceLink(links, entry[m][o].link, m, o)
                 ELSE links
           moved == IF removed \/ taken = {} THEN [e |-> E0, l |-> L0, dies |-> FALSE]
                    ELSE UpdateInAllMasters(E0, L0, m, p)
           made == CreateEntry(moved.e, moved.l, m, o, a)
           shared == TryConnectionSharing(made.e, made.l, m, o)
           last == IF removed THEN UpdateInAllMasters(shared.e, shared.l, m, o)
                   ELSE [e |-> shared.e, l |-> shared.l, dies |-> FALSE]
           dies == moved.dies \/ last.dies
<1>1. /\ entry' = IF dies THEN entry ELSE last.e
      /\ links' = IF dies THEN links ELSE last.l
      /\ misled' = misled
  BY Zenon DEF HelloFrom
<1>2. GoodLinks(entry, links) /\ misled = FALSE /\ GoodEntries(entry)
  BY DEF LinksInv, GoodLinks
<1>3. GoodLinks(moved.e, moved.l) /\ moved.e[m][o] = NoEntry
  <2>1. CASE removed
    <3>1. moved.e = Without(entry, m, o) /\ moved.l = ReleaseInstanceLink(links, entry[m][o].link, m, o)
      BY <2>1 DEF Without
    <3>2. Without(entry, m, o)[m][o] = NoEntry
      BY <1>2, WithIsGood
    <3> HIDE DEF moved
    <3> QED
      BY <1>2, <2>1, <3>1, <3>2, ReleaseIsGood
  <2>2. CASE ~removed /\ taken = {}
    <3>1. moved.e = entry /\ moved.l = links
      BY <2>2
    <3> HIDE DEF moved
    <3> QED
      BY <1>2, <2>2, <3>1
  <2>3. CASE ~removed /\ taken # {}
    <3>1. p \in taken
      BY <2>3
    <3>2. p \in Others /\ entry[m][p] # NoEntry /\ p # o
      BY <3>1
    <3> HIDE DEF taken, p
    <3> DEFINE F == With(entry, m, p, [entry[m][p] EXCEPT !.addr = Unreachable])
    <3>3. E0 = F /\ L0 = links
      BY <2>3 DEF With
    <3>4. moved = UpdateInAllMasters(F, links, m, p)
      BY <2>3, <3>3
    <3>5. GoodLinks(F, links) /\ \A k \in Masters, q \in Others : F[k][q] = NoEntry <=> entry[k][q] = NoEntry
      BY <1>2, <3>2, UnreachableIsGood
    <3> HIDE DEF F, moved
    <3> QED
      BY <2>3, <3>2, <3>4, <3>5, UpdateInAllMastersIsGood
  <2> QED
    BY <2>1, <2>2, <2>3
<1> HIDE DEF moved
<1>4. GoodLinks(shared.e, shared.l) /\ shared.e[m][o] # NoEntry
  <2> HIDE DEF made
  <2>1. made = CreateEntry(moved.e, moved.l, m, o, a)
    BY DEF made
  <2> QED
    BY <1>3, <2>1, CreatedAndSharedIsGood
<1> HIDE DEF shared, made
<1>5. GoodLinks(last.e, last.l)
  <2>1. CASE removed
    <3>1. last = UpdateInAllMasters(shared.e, shared.l, m, o)
      BY <2>1
    <3> HIDE DEF last
    <3> QED
      BY <1>4, <3>1, UpdateInAllMastersIsGood
  <2>2. CASE ~removed
    BY <1>4, <2>2
  <2> QED
    BY <2>1, <2>2
<1> HIDE DEF last, dies
<1>6. GoodLinks(entry', links')
  BY <1>1, <1>2, <1>5
<1> QED
  BY <1>1, <1>2, <1>6 DEF LinksInv

\* The link of an entry.
LEMMA LinkOfEntry ==
  ASSUME LinksInv, NEW m \in Masters, NEW o \in Others, entry[m][o] # NoEntry
  PROVE  /\ entry[m][o].link \in LinkIds /\ links[entry[m][o].link] \in LinkRecords
         /\ Present(entry, m, o, entry[m][o].link)
<1>1. entry[m][o] \in Entries
  BY DEF LinksInv, GoodLinks, GoodEntries
<1>2. entry[m][o].link \in LinkIds
  BY <1>1 DEF Entries
<1> QED
  BY <1>2 DEF LinksInv, GoodLinks, Present

\* A command more, or an answer less, of an entry that uses the link.
LEMMA PendingIsGood ==
  ASSUME LinksInv, NEW l \in LinkIds, NEW m \in Masters, NEW o \in Others,
         Present(entry, m, o, l), NEW n \in Nat
  PROVE  /\ GoodLinks(entry, [links EXCEPT ![l] = PendingFor(links[l], m, o, n)])
         /\ GoodLinks(entry, [links EXCEPT ![l] = [PendingFor(links[l], m, o, n) EXCEPT !.up = TRUE]])
<1> DEFINE k == PendingFor(links[l], m, o, n)
           k2 == [k EXCEPT !.up = TRUE]
<1>1. GoodLinks(entry, links) /\ links[l] \in LinkRecords
  BY DEF LinksInv, GoodLinks
<1>2. /\ k \in LinkRecords /\ k.refcount = links[l].refcount
      /\ \A q \in Masters, p \in Others : k.pending[q][p] = IF q = m /\ p = o THEN n ELSE links[l].pending[q][p]
  BY <1>1, PendingForCounts
<1> HIDE DEF k
<1>3. \A q \in Masters, p \in Others : k.pending[q][p] > 0 => Present(entry, q, p, l)
  BY <1>1, <1>2 DEF GoodLinks
<1>4. GoodLinks(entry, [links EXCEPT ![l] = k])
  BY <1>1, <1>2, <1>3, ChangedLinkIsGood
<1>5. k2 \in LinkRecords /\ k2.refcount = k.refcount /\ k2.pending = k.pending
  BY <1>2 DEF LinkRecords
<1> HIDE DEF k2
<1>6. GoodLinks(entry, [links EXCEPT ![l] = k2])
  BY <1>1, <1>2, <1>3, <1>5, ChangedLinkIsGood
<1> QED
  BY <1>4, <1>6 DEF k, k2

\* sentinelReconnectInstance: a new connection belongs to a link in use.
LEMMA ReconnectKeeps ==
  ASSUME LinksInv, NEW m \in Masters, NEW o \in Others, ReconnectInstance(m, o)
  PROVE  LinksInv'
<1> DEFINE l == entry[m][o].link
<1>1. /\ entry[m][o] # NoEntry /\ entry' = entry /\ misled' = misled
      /\ links' = [links EXCEPT ![l] = [PendingFor(links[l], m, o, 1) EXCEPT !.up = TRUE]]
  BY DEF ReconnectInstance
<1>2. l \in LinkIds /\ Present(entry, m, o, l) /\ 1 \in Nat
  BY <1>1, LinkOfEntry
<1> HIDE DEF l
<1>3. GoodLinks(entry, links')
  BY <1>1, <1>2, PendingIsGood
<1> QED
  BY <1>1, <1>3 DEF LinksInv

\* A command that is sent waits on a link in use.
LEMMA SendKeeps ==
  ASSUME LinksInv, NEW m \in Masters, NEW o \in Others, SendCommand(m, o)
  PROVE  LinksInv'
<1> DEFINE l == entry[m][o].link
<1>1. /\ entry[m][o] # NoEntry /\ entry' = entry /\ misled' = misled
      /\ links' = [links EXCEPT ![l] = PendingFor(links[l], m, o, links[l].pending[m][o] + 1)]
  BY DEF SendCommand
<1>2. l \in LinkIds /\ Present(entry, m, o, l) /\ links[l] \in LinkRecords
  BY <1>1, LinkOfEntry
<1> HIDE DEF l
<1>3. links[l].pending[m][o] + 1 \in Nat
  BY <1>2 DEF LinkRecords, Pendings
<1>4. GoodLinks(entry, links')
  BY <1>1, <1>2, <1>3, PendingIsGood
<1> QED
  BY <1>1, <1>4 DEF LinksInv

\* The entry whose answer arrives is there.
LEMMA AnswerKeeps ==
  ASSUME LinksInv, NEW l \in LinkIds, NEW m \in Masters, NEW o \in Others, ReceiveAnswer(l, m, o)
  PROVE  LinksInv'
<1>1. /\ links[l].pending[m][o] > 0 /\ entry' = entry
      /\ misled' = (misled \/ entry[m][o] = NoEntry)
      /\ links' = [links EXCEPT ![l] = PendingFor(links[l], m, o, links[l].pending[m][o] - 1)]
  BY DEF ReceiveAnswer
<1>2. Present(entry, m, o, l) /\ links[l] \in LinkRecords /\ misled = FALSE
  BY <1>1 DEF LinksInv, GoodLinks
<1>3. links[l].pending[m][o] - 1 \in Nat
  <2>1. links[l].pending[m][o] \in Nat
    BY <1>2 DEF LinkRecords, Pendings
  <2> QED
    BY <1>1, <2>1
<1>4. GoodLinks(entry, links')
  BY <1>1, <1>2, <1>3, PendingIsGood
<1>5. misled' = FALSE
  BY <1>1, <1>2 DEF Present
<1> QED
  BY <1>1, <1>4, <1>5 DEF LinksInv

\* instanceLinkConnectionError: what was pending is gone with the connection.
LEMMA ConnectionErrorKeeps ==
  ASSUME LinksInv, NEW l \in LinkIds, ConnectionError(l)
  PROVE  LinksInv'
<1> DEFINE K == [Empty EXCEPT !.refcount = links[l].refcount]
<1>1. entry' = entry /\ misled' = misled /\ links' = [links EXCEPT ![l] = K]
  BY DEF ConnectionError, CloseConnection
<1>2. GoodLinks(entry, links) /\ links[l] \in LinkRecords
  BY DEF LinksInv, GoodLinks
<1>3. links[l].refcount \in Nat
  BY <1>2 DEF LinkRecords
<1>4. K \in LinkRecords /\ K.refcount = links[l].refcount /\ \A m \in Masters, o \in Others : K.pending[m][o] = 0
  BY <1>3, EmptyIsLink
<1> HIDE DEF K
<1>5. GoodLinks(entry, [links EXCEPT ![l] = K])
  BY <1>2, <1>4, ChangedLinkIsGood
<1> QED
  BY <1>1, <1>5 DEF LinksInv

\* SENTINEL RESET: every link loses the users it has under the master.
LEMMA ReleaseAllKeeps ==
  ASSUME LinksInv, NEW m \in Masters, ReleaseAll(m)
  PROVE  LinksInv'
<1> DEFINE gone(l) == UsersOf(m, l)
           F == [entry EXCEPT ![m] = [o \in Others |-> NoEntry]]
           P(l) == [links[l].pending EXCEPT ![m] =
                      [o \in Others |-> IF o \in gone(l) THEN 0 ELSE links[l].pending[m][o]]]
           K(l) == IF gone(l) = {} THEN links[l]
                   ELSE IF links[l].refcount <= Cardinality(gone(l)) THEN Empty
                   ELSE [links[l] EXCEPT !.refcount = links[l].refcount - Cardinality(gone(l)), !.pending = P(l)]
<1>1. GoodLinks(entry, links) /\ GoodEntries(entry) /\ links \in [LinkIds -> LinkRecords] /\ misled = FALSE
  BY DEF LinksInv, GoodLinks
<1>2. entry' = F /\ links' = [l \in LinkIds |-> K(l)] /\ misled' = misled
  BY DEF ReleaseAll, ReleaseLinksOf
<1>3. /\ GoodEntries(F)
      /\ \A k \in Masters, o \in Others : F[k][o] = IF k = m THEN NoEntry ELSE entry[k][o]
  <2>1. [o \in Others |-> NoEntry] \in [Others -> Entries \cup {NoEntry}]
    OBVIOUS
  <2>2. F \in [Masters -> [Others -> Entries \cup {NoEntry}]]
    BY <1>1, <2>1 DEF GoodEntries
  <2>3. \A k \in Masters : F[k] = IF k = m THEN [o \in Others |-> NoEntry] ELSE entry[k]
    BY <1>1 DEF GoodEntries
  <2> HIDE DEF F
  <2> QED
    BY <2>2, <2>3 DEF GoodEntries
<1> HIDE DEF F
<1>4. ASSUME NEW l \in LinkIds
      PROVE  /\ K(l) \in LinkRecords /\ K(l).refcount = Cardinality(Users(F, l))
             /\ \A k \in Masters, o \in Others : K(l).pending[k][o] > 0 => Present(F, k, o, l)
  <2> DEFINE U == {m} \X gone(l)
  <2>1. /\ links[l] \in LinkRecords /\ links[l].refcount \in Nat /\ links[l].pending \in Pendings
        /\ links[l].refcount = Cardinality(Users(entry, l))
    <3>1. links[l] \in LinkRecords /\ links[l].refcount = Cardinality(Users(entry, l))
      BY <1>1 DEF GoodLinks
    <3> QED
      BY <3>1 DEF LinkRecords
  <2>2. /\ gone(l) \subseteq Others /\ IsFiniteSet(gone(l)) /\ Cardinality(gone(l)) \in Nat
        /\ \A o \in Others : o \in gone(l) <=> Present(entry, m, o, l)
    <3>1. gone(l) \subseteq Others /\ \A o \in Others : o \in gone(l) <=> Present(entry, m, o, l)
      BY DEF UsersOf, Present
    <3> HIDE DEF gone
    <3> QED
      BY <3>1, LinksAssumption, FS_Subset, FS_CardinalityType
  <2> HIDE DEF gone
  <2>3. \A k \in Masters, o \in Others : Present(F, k, o, l) <=> Present(entry, k, o, l) /\ k # m
    BY <1>3 DEF Present
  <2>4. Users(F, l) = Users(entry, l) \ U /\ U \subseteq Users(entry, l)
    BY <2>2, <2>3 DEF Users
  <2>5. IsFiniteSet(U) /\ Cardinality(U) = Cardinality(gone(l))
    <3>1. IsFiniteSet({m}) /\ Cardinality({m}) = 1
      BY FS_Singleton
    <3> QED
      BY <2>2, <3>1, FS_Product
  <2>6. /\ Cardinality(Users(F, l)) = links[l].refcount - Cardinality(gone(l))
        /\ Cardinality(Users(F, l)) \in Nat
    <3> HIDE DEF U
    <3>1. Users(entry, l) \cap U = U
      BY <2>4
    <3>2. Cardinality(Users(entry, l) \ U) = Cardinality(Users(entry, l)) - Cardinality(U)
      BY <2>5, <3>1, UsersAreFinite, FS_Difference
    <3> QED
      BY <2>1, <2>4, <2>5, <3>2, UsersAreFinite
  <2>7. \A k \in Masters, o \in Others : links[l].pending[k][o] > 0 => Present(entry, k, o, l)
    BY <1>1 DEF GoodLinks
  <2>8. CASE gone(l) = {}
    <3>1. K(l) = links[l]
      BY <2>8
    <3>2. Cardinality(gone(l)) = 0
      BY <2>8, FS_EmptySet
    <3>3. \A k \in Masters, o \in Others : Present(entry, k, o, l) => Present(F, k, o, l)
      BY <2>2, <2>3, <2>8
    <3> HIDE DEF K
    <3> QED
      BY <2>1, <2>6, <2>7, <3>1, <3>2, <3>3
  <2>9. CASE gone(l) # {} /\ links[l].refcount <= Cardinality(gone(l))
    <3>1. K(l) = Empty
      BY <2>9
    <3>2. /\ Empty \in LinkRecords /\ Empty.refcount = 0
          /\ \A n \in Masters, p \in Others : Empty.pending[n][p] = 0
      <4>1. 0 \in Nat
        OBVIOUS
      <4> QED
        BY <4>1, EmptyIsLink
    <3>3. Cardinality(Users(F, l)) = 0
      BY <2>1, <2>2, <2>6, <2>9
    <3> HIDE DEF K
    <3> QED
      BY <3>1, <3>2, <3>3
  <2>10. CASE gone(l) # {} /\ ~(links[l].refcount <= Cardinality(gone(l)))
    <3> DEFINE row == [o \in Others |-> IF o \in gone(l) THEN 0 ELSE links[l].pending[m][o]]
               n == links[l].refcount - Cardinality(gone(l))
    <3>1. K(l) = [links[l] EXCEPT !.refcount = n, !.pending = P(l)] /\ n \in Nat
      BY <2>1, <2>2, <2>10
    <3>2. /\ P(l) \in Pendings
          /\ \A k \in Masters, o \in Others :
               P(l)[k][o] = IF k = m /\ o \in gone(l) THEN 0 ELSE links[l].pending[k][o]
      <4>1. row \in [Others -> Nat]
        BY <2>1 DEF Pendings
      <4>2. P(l) \in Pendings /\ \A k \in Masters : P(l)[k] = IF k = m THEN row ELSE links[l].pending[k]
        BY <2>1, <4>1 DEF Pendings
      <4> HIDE DEF P
      <4> QED
        BY <4>2
    <3> HIDE DEF P, n
    <3>3. K(l) \in LinkRecords /\ K(l).refcount = n /\ K(l).pending = P(l)
      BY <2>1, <3>1, <3>2 DEF LinkRecords
    <3> HIDE DEF K
    <3>4. \A k \in Masters, o \in Others : P(l)[k][o] > 0 => Present(F, k, o, l)
      BY <2>2, <2>3, <2>7, <3>2
    <3> QED
      BY <2>6, <3>3, <3>4 DEF n
  <2> QED
    BY <2>8, <2>9, <2>10
<1> HIDE DEF K
<1>5. links' \in [LinkIds -> LinkRecords] /\ \A l \in LinkIds : links'[l] = K(l)
  BY <1>2, <1>4
<1>6. \A l \in LinkIds : links'[l].refcount = Cardinality(Users(F, l))
  BY <1>4, <1>5
<1>7. \A l \in LinkIds, k \in Masters, o \in Others : links'[l].pending[k][o] > 0 => Present(F, k, o, l)
  BY <1>4, <1>5
<1>8. GoodLinks(F, links')
  BY <1>3, <1>5, <1>6, <1>7 DEF GoodLinks
<1> QED
  BY <1>1, <1>2, <1>8 DEF LinksInv

\* Every step of the links keeps the invariant.
LEMMA LinksNextKeeps ==
  ASSUME LinksInv, LinksNext
  PROVE  LinksInv'
BY HelloKeeps, ReconnectKeeps, SendKeeps, AnswerKeeps, ConnectionErrorKeeps, ReleaseAllKeeps DEF LinksNext

\* The links of the beginning satisfy the invariant.
LEMMA LinksInitIsGood == LinksInit => LinksInv
<1> SUFFICES ASSUME LinksInit PROVE LinksInv
  OBVIOUS
<1>1. /\ entry = [m \in Masters |-> [o \in Others |-> NoEntry]]
      /\ links = [l \in LinkIds |-> Empty] /\ misled = FALSE
  BY DEF LinksInit
<1>2. Empty \in LinkRecords /\ Empty.refcount = 0 /\ \A m \in Masters, o \in Others : Empty.pending[m][o] = 0
  <2>1. 0 \in Nat
    OBVIOUS
  <2> QED
    BY <2>1, EmptyIsLink
<1>3. GoodEntries(entry) /\ \A m \in Masters, o \in Others : entry[m][o] = NoEntry
  BY <1>1 DEF GoodEntries
<1>4. \A l \in LinkIds : Users(entry, l) = {}
  BY <1>3 DEF Users, Present
<1>5. Cardinality({}) = 0
  BY FS_EmptySet
<1>6. links \in [LinkIds -> LinkRecords] /\ \A l \in LinkIds : links[l] = Empty
  BY <1>1, <1>2
<1>7. \A l \in LinkIds : links[l].refcount = Cardinality(Users(entry, l))
  BY <1>2, <1>4, <1>5, <1>6
<1>8. \A l \in LinkIds, m \in Masters, o \in Others : ~(links[l].pending[m][o] > 0)
  BY <1>2, <1>6
<1>9. GoodLinks(entry, links)
  BY <1>3, <1>6, <1>7, <1>8 DEF GoodLinks
<1> QED
  BY <1>1, <1>9 DEF LinksInv

\* What the invariant says of the links.
LEMMA LinksInvImplies == LinksInv => LinksAreCounted /\ NoAnswerForTheDead
BY DEF LinksInv, GoodLinks, Users, Present, LinksAreCounted, NoAnswerForTheDead

\* The end of a script finds its job in scripts_queue, no more scripts run than
\* SENTINEL_SCRIPT_MAX_RUNNING, the refcount of every instanceLink is the number
\* of entries that use it, and no reply is handed to an entry that is gone: for
\* every limit of the queue, every number of masters, sentinels and addresses.
THEOREM AnswersAlwaysFindTheirOwner == Spec => []AnswersFindTheirOwner
<1>1. Init => ScriptsInv /\ LinksInv
  BY ScriptsInitIsGood, LinksInitIsGood DEF Init
<1>2. ScriptsInv /\ LinksInv /\ [Next]_vars => (ScriptsInv /\ LinksInv)'
  <2> SUFFICES ASSUME ScriptsInv, LinksInv, [Next]_vars PROVE ScriptsInv' /\ LinksInv'
    OBVIOUS
  <2>1. UNCHANGED scriptVars => ScriptsInv'
    BY DEF scriptVars, ScriptsInv, EndsFindTheirJob
  <2>2. UNCHANGED linkVars => LinksInv'
    BY DEF linkVars, LinksInv
  <2>3. CASE ScriptsStep
    BY <2>2, <2>3, ScriptsNextKeeps DEF ScriptsStep
  <2>4. CASE LinksStep
    BY <2>1, <2>4, LinksNextKeeps DEF LinksStep
  <2>5. CASE ElectionStep \/ SentinelStep
    BY <2>1, <2>2, <2>5 DEF ElectionStep, SentinelStep
  <2>6. CASE UNCHANGED vars
    BY <2>1, <2>2, <2>6 DEF vars
  <2> QED
    BY <2>3, <2>4, <2>5, <2>6 DEF Next
<1>3. ScriptsInv /\ LinksInv => AnswersFindTheirOwner
  BY LinksInvImplies DEF ScriptsInv, AnswersFindTheirOwner
<1> QED
  BY <1>1, <1>2, <1>3, PTL DEF Spec

-----------------------------------------------------------------------------
(* The record of a sentinel: what it keeps, what is saved and what is lost. *)

Fields == {"epoch", "addr", "configEpoch", "leader", "leaderEpoch", "foEpoch", "foState", "promoted",
           "flags", "delayed", "saysSlave", "slaves", "peers", "tilt", "disk"}

PeerFields == {"masterDown", "leader", "epoch"}

InProgress(st) == "inprog" \in st.flags

\* calm: the sentinel took over no newer epoch in the middle of a failover of its
\* own, and was not reset between a promotion and its end.
Live(st, calm) ==
  /\ DOMAIN st = Fields
  /\ st.epoch \in Nat /\ st.configEpoch \in Nat /\ st.leaderEpoch \in Nat /\ st.foEpoch \in Nat
  /\ st.configEpoch <= st.epoch /\ st.foEpoch <= st.epoch /\ st.leaderEpoch <= st.epoch
  /\ calm /\ InProgress(st) => st.configEpoch <= st.foEpoch

\* How far a failover is, and what it says of the slaves.
Shaped(st) ==
  /\ st.epoch <= MaxEpoch
  /\ st.addr \in Redis /\ st.addr \notin DOMAIN st.slaves /\ DOMAIN st.slaves \subseteq Redis
  /\ st.foState \in 0..6
  /\ InProgress(st) <=> (st.foState # 0)
  /\ (st.promoted # Nil) <=> (st.foState >= 3)
  /\ st.promoted # Nil => st.promoted \in DOMAIN st.slaves
  /\ \A i \in DOMAIN st.slaves : ("promoted" \in st.slaves[i]) <=> (st.promoted = i)

Met(st) == \A t \in DOMAIN st.peers : DOMAIN st.peers[t] = PeerFields

Saved(st, calm) ==
  /\ st.disk.leaderEpoch = st.leaderEpoch /\ st.leaderEpoch <= st.disk.epoch
  /\ st.disk.epoch \in Nat /\ st.disk.epoch <= st.epoch
  /\ st.disk.configEpoch \in Nat /\ st.disk.configEpoch <= st.disk.epoch
  /\ st.disk.addr \in Redis /\ st.disk.addr \notin st.disk.slaves /\ st.disk.slaves \subseteq Redis
  /\ calm => st.disk.addr = CurrentMasterAddress(st)

GoodRecord(st, calm) == Live(st, calm) /\ Shaped(st) /\ Met(st) /\ Saved(st, calm)

\* Peers are kept with their last vote, or without it.
SamePeers(st, v) ==
  /\ DOMAIN v.peers = DOMAIN st.peers
  /\ \A t \in DOMAIN st.peers :
       \/ v.peers[t].leader = Nil
       \/ v.peers[t].leader = st.peers[t].leader /\ v.peers[t].epoch = st.peers[t].epoch

SameSlaves(st, v) ==
  /\ DOMAIN v.slaves = DOMAIN st.slaves
  /\ \A i \in DOMAIN st.slaves : ("promoted" \in v.slaves[i]) <=> ("promoted" \in st.slaves[i])

\* A change that leaves alone what a vote and a configuration are.
Alike(st, v) ==
  /\ DOMAIN v = Fields
  /\ v.epoch = st.epoch /\ v.configEpoch = st.configEpoch /\ v.leaderEpoch = st.leaderEpoch
  /\ v.leader = st.leader /\ v.foEpoch = st.foEpoch /\ v.addr = st.addr /\ v.disk = st.disk
  /\ SamePeers(st, v) /\ Met(v) /\ ("force" \in v.flags => "force" \in st.flags)

\* A change that also leaves alone how far a failover is.
SamePhase(st, v) ==
  /\ v.foState = st.foState /\ v.promoted = st.promoted /\ (InProgress(v) <=> InProgress(st))
  /\ SameSlaves(st, v)

\* What a handler makes of a record, but for a newer configuration: the vote is
\* kept, forgotten or newer, the file is as it was or as the record is.
Handles(st, v) ==
  /\ \/ v.leaderEpoch > st.leaderEpoch
     \/ v.leaderEpoch = st.leaderEpoch /\ (v.leader = st.leader \/ v.leader = Nil)
  /\ v.configEpoch = st.configEpoch /\ CurrentMasterAddress(v) = CurrentMasterAddress(st)
  /\ \/ v.disk.configEpoch = st.disk.configEpoch /\ v.disk.addr = st.disk.addr
     \/ v.disk.configEpoch = st.configEpoch /\ v.disk.addr = CurrentMasterAddress(st)
  /\ SamePeers(st, v) /\ (v.disk.peers = st.disk.peers \/ v.disk.peers = DOMAIN st.peers)
  /\ "force" \in v.flags => "force" \in st.flags

Goes(st, v, calm) == GoodRecord(v, calm) /\ Handles(st, v)

\* What any step may make of a record.
Fine(st, v, calm) ==
  /\ v.leaderEpoch >= st.leaderEpoch
  /\ v.configEpoch < st.configEpoch /\ calm => CurrentMasterAddress(v) = CurrentMasterAddress(st)

\* A record can stay as it is.
LEMMA StayingGoes ==
  ASSUME NEW st, NEW calm \in BOOLEAN, GoodRecord(st, calm)
  PROVE  Goes(st, st, calm)
BY DEF Goes, Handles, SamePeers

\* The shape of a failover is that of its state, its promoted slave and its slaves.
LEMMA SamePhaseShapes ==
  ASSUME NEW st, Shaped(st), NEW v, v.epoch <= MaxEpoch, v.addr = st.addr, SamePhase(st, v)
  PROVE  Shaped(v)
BY DEF Shaped, SamePhase, SameSlaves

\* A change that leaves the vote and the configuration alone is one of a handler.
LEMMA AlikeHandles ==
  ASSUME NEW st, NEW calm \in BOOLEAN, GoodRecord(st, calm), NEW v, Alike(st, v),
         CurrentMasterAddress(v) = CurrentMasterAddress(st), Shaped(v),
         InProgress(v) => InProgress(st)
  PROVE  Goes(st, v, calm)
<1>1. Live(v, calm)
  BY DEF GoodRecord, Live, Alike
<1>2. Saved(v, calm)
  BY DEF GoodRecord, Saved, Alike
<1>3. Handles(st, v)
  BY DEF Handles, Alike
<1> QED
  BY <1>1, <1>2, <1>3 DEF Goes, GoodRecord, Alike

\* So is one that also leaves the failover alone.
LEMMA AlikeGoes ==
  ASSUME NEW st, NEW calm \in BOOLEAN, GoodRecord(st, calm), NEW v, Alike(st, v), SamePhase(st, v)
  PROVE  Goes(st, v, calm)
<1>1. CurrentMasterAddress(v) = CurrentMasterAddress(st)
  BY DEF CurrentMasterAddress, Alike, SamePhase, InProgress
<1>2. Shaped(v)
  BY SamePhaseShapes DEF GoodRecord, Shaped, Alike
<1> QED
  BY <1>1, <1>2, AlikeHandles DEF SamePhase

\* Before the promoted slave has obeyed, the state of a failover may change freely.
LEMMA EarlyPhaseGoes ==
  ASSUME NEW st, NEW calm \in BOOLEAN, GoodRecord(st, calm), NEW v, Alike(st, v), Shaped(v),
         st.foState < ReconfSlaves, v.foState < ReconfSlaves, InProgress(v) => InProgress(st)
  PROVE  Goes(st, v, calm)
<1>1. CurrentMasterAddress(v) = CurrentMasterAddress(st)
  BY DEF CurrentMasterAddress, Alike, GoodRecord, Shaped, ReconfSlaves
<1> QED
  BY <1>1, AlikeHandles

\* After it, the failover may end.
LEMMA LatePhaseGoes ==
  ASSUME NEW st, NEW calm \in BOOLEAN, GoodRecord(st, calm), NEW v, Alike(st, v),
         InProgress(st), InProgress(v), st.foState = ReconfSlaves, v.promoted = st.promoted,
         v.foState = ReconfSlaves \/ v.foState = UpdateConfig, SameSlaves(st, v)
  PROVE  Goes(st, v, calm)
<1>1. CurrentMasterAddress(v) = CurrentMasterAddress(st)
  BY DEF CurrentMasterAddress, Alike, InProgress, ReconfSlaves, UpdateConfig
<1>2. Shaped(v)
  BY DEF GoodRecord, Shaped, Alike, SameSlaves, ReconfSlaves, UpdateConfig
<1> QED
  BY <1>1, <1>2, AlikeHandles

\* Two changes of a handler are one.
LEMMA GoesTwice ==
  ASSUME NEW st, NEW v, NEW w, NEW calm \in BOOLEAN,
         GoodRecord(st, calm), Goes(st, v, calm), Goes(v, w, calm)
  PROVE  Goes(st, w, calm)
<1>1. st.leaderEpoch \in Nat /\ v.leaderEpoch \in Nat /\ w.leaderEpoch \in Nat
  BY DEF Goes, GoodRecord, Live
<1>2. SamePeers(st, w)
  BY DEF Goes, Handles, SamePeers
<1>3. Handles(st, w)
  BY <1>1, <1>2 DEF Goes, Handles, SamePeers
<1> QED
  BY <1>3 DEF Goes

\* FlushConfig saves the record as it is.
LEMMA FlushSaves ==
  ASSUME NEW st, NEW calm \in BOOLEAN, Live(st, calm), Shaped(st), Met(st)
  PROVE  LET v == FlushConfig(st)
         IN  /\ GoodRecord(v, calm) /\ SamePhase(st, v)
             /\ v.leaderEpoch = st.leaderEpoch /\ v.leader = st.leader /\ v.configEpoch = st.configEpoch
             /\ v.epoch = st.epoch /\ v.addr = st.addr /\ v.flags = st.flags /\ v.foEpoch = st.foEpoch
             /\ v.peers = st.peers /\ v.slaves = st.slaves
             /\ CurrentMasterAddress(v) = CurrentMasterAddress(st)
             /\ v.disk.configEpoch = st.configEpoch /\ v.disk.addr = CurrentMasterAddress(st)
             /\ v.disk.peers = DOMAIN st.peers
<1> DEFINE v == FlushConfig(st)
           c == Config(st)
<1>1. /\ DOMAIN v = Fields /\ v.disk = c /\ v.epoch = st.epoch /\ v.configEpoch = st.configEpoch
      /\ v.leaderEpoch = st.leaderEpoch /\ v.leader = st.leader /\ v.foEpoch = st.foEpoch
      /\ v.foState = st.foState /\ v.promoted = st.promoted /\ v.flags = st.flags /\ v.addr = st.addr
      /\ v.peers = st.peers /\ v.slaves = st.slaves
  BY DEF FlushConfig, Live, Fields
<1> DEFINE a == CurrentMasterAddress(st)
<1>2. /\ c.epoch = st.epoch /\ c.configEpoch = st.configEpoch /\ c.leaderEpoch = st.leaderEpoch
      /\ c.addr = a /\ c.peers = DOMAIN st.peers
      /\ c.slaves = {IF i = a THEN st.addr ELSE i : i \in DOMAIN st.slaves}
  BY DEF Config
<1> HIDE DEF v, c
<1>3. CurrentMasterAddress(v) = a /\ (InProgress(v) <=> InProgress(st))
  BY <1>1 DEF CurrentMasterAddress, InProgress
<1>4. Live(v, calm)
  BY <1>1, <1>3 DEF Live, InProgress
<1>5. SamePhase(st, v) /\ Met(v)
  BY <1>1, <1>3 DEF SamePhase, SameSlaves, Met
<1>6. Shaped(v)
  BY <1>1, <1>5, SamePhaseShapes DEF Shaped
<1>7. (a = st.addr \/ a \in DOMAIN st.slaves) /\ a \in Redis
  BY DEF CurrentMasterAddress, Shaped
<1> HIDE DEF a
<1>8. a \notin c.slaves /\ c.slaves \subseteq Redis
  BY <1>2, <1>7 DEF Shaped
<1>9. Saved(v, calm)
  BY <1>1, <1>2, <1>3, <1>7, <1>8 DEF Saved, Live
<1> QED
  BY <1>1, <1>2, <1>3, <1>4, <1>5, <1>6, <1>9 DEF GoodRecord, v, a

\* What a handler saves, it handles.
LEMMA FlushGoes ==
  ASSUME NEW st, NEW calm \in BOOLEAN, GoodRecord(st, calm), NEW w, Live(w, calm), Shaped(w), Met(w),
         \/ w.leaderEpoch > st.leaderEpoch
         \/ w.leaderEpoch = st.leaderEpoch /\ (w.leader = st.leader \/ w.leader = Nil),
         w.configEpoch = st.configEpoch, CurrentMasterAddress(w) = CurrentMasterAddress(st),
         SamePeers(st, w), "force" \in w.flags => "force" \in st.flags
  PROVE  Goes(st, FlushConfig(w), calm)
<1> DEFINE v == FlushConfig(w)
<1>1. /\ GoodRecord(v, calm) /\ v.leaderEpoch = w.leaderEpoch /\ v.leader = w.leader
      /\ v.configEpoch = w.configEpoch /\ v.flags = w.flags /\ v.peers = w.peers
      /\ CurrentMasterAddress(v) = CurrentMasterAddress(w)
      /\ v.disk.configEpoch = w.configEpoch /\ v.disk.addr = CurrentMasterAddress(w)
      /\ v.disk.peers = DOMAIN w.peers
  BY FlushSaves
<1> HIDE DEF v
<1>2. SamePeers(st, v) /\ v.disk.peers = DOMAIN st.peers
  BY <1>1 DEF SamePeers
<1>3. Handles(st, v)
  BY <1>1, <1>2 DEF Handles
<1> QED
  BY <1>1, <1>3 DEF Goes, v

-----------------------------------------------------------------------------
(* Votes and elections.                                                    *)

\* What a vote leaves alone.
Voted(st, v) ==
  /\ SamePhase(st, v) /\ v.foEpoch = st.foEpoch /\ v.addr = st.addr /\ v.flags = st.flags
  /\ v.peers = st.peers /\ v.slaves = st.slaves

\* sentinelVoteLeader: votes go up.
LEMMA VoteGoesUp ==
  ASSUME NEW s, NEW st, NEW calm \in BOOLEAN, GoodRecord(st, calm), NEW req \in Nat, req <= MaxEpoch, NEW cand
  PROVE  LET v == VoteLeader(s, st, req, cand)
         IN  /\ Live(v, calm) /\ Shaped(v) /\ Met(v) /\ Voted(st, v)
             /\ \/ v.leaderEpoch > st.leaderEpoch
                \/ v.leaderEpoch = st.leaderEpoch /\ (v.leader = st.leader \/ v.leader = Nil)
             /\ v.configEpoch = st.configEpoch /\ CurrentMasterAddress(v) = CurrentMasterAddress(st)
             /\ v.leaderEpoch >= req \/ v.epoch > req
<1> DEFINE st1 == IF req > st.epoch THEN [st EXCEPT !.epoch = req] ELSE st
           v == VoteLeader(s, st, req, cand)
           w == [st1 EXCEPT !.leader = cand, !.leaderEpoch = st1.epoch, !.delayed = st1.delayed \/ cand # s]
<1>1. /\ DOMAIN st1 = Fields /\ st1.epoch \in Nat /\ st1.epoch >= st.epoch /\ st1.leaderEpoch = st.leaderEpoch
      /\ st1.configEpoch = st.configEpoch /\ st1.foEpoch = st.foEpoch /\ st1.foState = st.foState
      /\ st1.promoted = st.promoted /\ st1.flags = st.flags /\ st1.addr = st.addr /\ st1.epoch >= req
      /\ st1.peers = st.peers /\ st1.slaves = st.slaves /\ st1.leader = st.leader
      /\ st1.epoch = req \/ st1.epoch = st.epoch
  BY DEF GoodRecord, Live, Fields
<1>2. v = IF st1.leaderEpoch < req /\ st1.epoch <= req THEN w ELSE st1
  BY DEF VoteLeader
<1> HIDE DEF st1, v
<1>3. /\ DOMAIN w = Fields /\ w.epoch = st1.epoch /\ w.leaderEpoch = st1.epoch
      /\ w.configEpoch = st1.configEpoch /\ w.foEpoch = st1.foEpoch /\ w.foState = st1.foState
      /\ w.promoted = st1.promoted /\ w.flags = st1.flags /\ w.addr = st1.addr
      /\ w.peers = st1.peers /\ w.slaves = st1.slaves
  BY <1>1 DEF Fields
<1> HIDE DEF w
<1>4. ASSUME NEW x, x = st1 \/ x = w
      PROVE  Shaped(x) /\ Met(x) /\ Voted(st, x) /\ CurrentMasterAddress(x) = CurrentMasterAddress(st)
             /\ x.configEpoch = st.configEpoch
  <2>1. /\ x.foState = st.foState /\ x.promoted = st.promoted /\ x.flags = st.flags /\ x.addr = st.addr
        /\ x.peers = st.peers /\ x.slaves = st.slaves /\ x.foEpoch = st.foEpoch
        /\ x.configEpoch = st.configEpoch /\ (x.epoch = req \/ x.epoch = st.epoch)
    BY <1>1, <1>3, <1>4
  <2>2. Voted(st, x)
    BY <2>1 DEF Voted, SamePhase, SameSlaves, InProgress
  <2>3. Shaped(x) /\ Met(x)
    BY <2>1, <2>2, SamePhaseShapes DEF Voted, GoodRecord, Shaped, Met
  <2> QED
    BY <2>1, <2>2, <2>3 DEF CurrentMasterAddress
<1>5. Live(st1, calm)
  BY <1>1 DEF GoodRecord, Live, InProgress
<1>6. st1.leaderEpoch < req /\ st1.epoch <= req => Live(w, calm) /\ w.leaderEpoch > st.leaderEpoch /\ w.leaderEpoch >= req
  BY <1>1, <1>3 DEF GoodRecord, Live, InProgress
<1>7. CASE st1.leaderEpoch < req /\ st1.epoch <= req
  BY <1>2, <1>4, <1>6, <1>7 DEF v
<1>8. CASE ~(st1.leaderEpoch < req /\ st1.epoch <= req)
  <2>1. st1.leaderEpoch >= req \/ st1.epoch > req
    BY <1>1, <1>8 DEF GoodRecord, Live
  <2> QED
    BY <1>1, <1>2, <1>4, <1>5, <1>8, <2>1 DEF v
<1> QED
  BY <1>7, <1>8

\* A vote is saved before it is told.
LEMMA SentinelVoteGoes ==
  ASSUME NEW s, NEW st, NEW calm \in BOOLEAN, GoodRecord(st, calm), NEW req \in Nat, req <= MaxEpoch, NEW cand
  PROVE  LET v == SentinelVote(s, st, req, cand)
         IN  Goes(st, v, calm) /\ Voted(st, v) /\ (v.leaderEpoch >= req \/ v.epoch > req)
<1> DEFINE v == VoteLeader(s, st, req, cand)
<1>1. /\ Live(v, calm) /\ Shaped(v) /\ Met(v) /\ Voted(st, v)
      /\ \/ v.leaderEpoch > st.leaderEpoch
         \/ v.leaderEpoch = st.leaderEpoch /\ (v.leader = st.leader \/ v.leader = Nil)
      /\ v.configEpoch = st.configEpoch /\ CurrentMasterAddress(v) = CurrentMasterAddress(st)
      /\ v.leaderEpoch >= req \/ v.epoch > req
  BY VoteGoesUp
<1>2. SentinelVote(s, st, req, cand) = IF v = st THEN st ELSE FlushConfig(v)
  BY DEF SentinelVote
<1> HIDE DEF v
<1>3. Goes(st, st, calm)
  BY StayingGoes
<1>4. SamePeers(st, v) /\ ("force" \in v.flags => "force" \in st.flags)
  BY <1>1 DEF Voted, SamePeers
<1>5. Goes(st, FlushConfig(v), calm)
  BY <1>1, <1>4, FlushGoes
<1>6. /\ SamePhase(v, FlushConfig(v)) /\ FlushConfig(v).flags = v.flags /\ FlushConfig(v).foEpoch = v.foEpoch
      /\ FlushConfig(v).peers = v.peers /\ FlushConfig(v).slaves = v.slaves /\ FlushConfig(v).addr = v.addr
      /\ FlushConfig(v).leaderEpoch = v.leaderEpoch /\ FlushConfig(v).epoch = v.epoch
  BY <1>1, FlushSaves
<1>7. Voted(st, FlushConfig(v))
  BY <1>1, <1>6 DEF Voted, SamePhase, SameSlaves
<1>8. CASE v = st
  BY <1>1, <1>2, <1>3, <1>8
<1>9. CASE v # st
  BY <1>1, <1>2, <1>5, <1>6, <1>7, <1>9
<1> QED
  BY <1>8, <1>9

-----------------------------------------------------------------------------
(* The timer.                                                              *)

\* What may be edited without consequence for votes and configurations.
LEMMA QuietEdits ==
  ASSUME NEW st, DOMAIN st = Fields, Met(st), NEW b, NEW now, NEW old
  PROVE  LET a == [st EXCEPT !.tilt = FALSE, !.delayed = b]
             c == CheckSubjectivelyDown(st, now)
             d == CheckObjectivelyDown(st)
             e == ForgetStale(st, old)
         IN  /\ Alike(st, a) /\ SamePhase(st, a)
             /\ Alike(st, c) /\ SamePhase(st, c)
             /\ Alike(st, d) /\ SamePhase(st, d)
             /\ Alike(st, e) /\ SamePhase(st, e)
<1>1. LET a == [st EXCEPT !.tilt = FALSE, !.delayed = b] IN Alike(st, a) /\ SamePhase(st, a)
  BY DEF Alike, SamePhase, Fields, InProgress, SamePeers, SameSlaves, Met
<1>2. Alike(st, CheckSubjectivelyDown(st, now)) /\ SamePhase(st, CheckSubjectivelyDown(st, now))
  BY DEF Alike, SamePhase, Fields, InProgress, CheckSubjectivelyDown, SetFlag, SamePeers, SameSlaves, Met
<1>3. Alike(st, CheckObjectivelyDown(st)) /\ SamePhase(st, CheckObjectivelyDown(st))
  BY DEF Alike, SamePhase, Fields, InProgress, CheckObjectivelyDown, SetFlag, SamePeers, SameSlaves, Met
<1>4. Alike(st, ForgetStale(st, old)) /\ SamePhase(st, ForgetStale(st, old))
  <2> DEFINE e == ForgetStale(st, old)
             p == [t \in DOMAIN st.peers |->
                     IF t \in old THEN [st.peers[t] EXCEPT !.masterDown = FALSE, !.leader = Nil]
                     ELSE st.peers[t]]
  <2>1. \A t \in DOMAIN st.peers :
          /\ DOMAIN p[t] = PeerFields
          /\ p[t].leader = Nil \/ (p[t].leader = st.peers[t].leader /\ p[t].epoch = st.peers[t].epoch)
    BY DEF Met, PeerFields
  <2>2. /\ DOMAIN e = Fields /\ e.peers = p
        /\ e.epoch = st.epoch /\ e.configEpoch = st.configEpoch /\ e.leaderEpoch = st.leaderEpoch
        /\ e.leader = st.leader /\ e.foEpoch = st.foEpoch /\ e.addr = st.addr /\ e.disk = st.disk
        /\ e.flags = st.flags /\ e.foState = st.foState /\ e.promoted = st.promoted /\ e.slaves = st.slaves
    BY DEF ForgetStale, Fields
  <2>3. DOMAIN p = DOMAIN st.peers
    OBVIOUS
  <2> HIDE DEF e, p
  <2>4. Alike(st, e)
    BY <2>1, <2>2, <2>3 DEF Alike, SamePeers, Met
  <2>5. SamePhase(st, e)
    BY <2>2 DEF SamePhase, SameSlaves, InProgress
  <2> QED
    BY <2>4, <2>5 DEF e
<1> QED
  BY <1>1, <1>2, <1>3, <1>4

\* sentinelStartFailover: a new epoch, later than that of any configuration known.
LEMMA StartFailoverGoes ==
  ASSUME NEW st, NEW calm \in BOOLEAN, GoodRecord(st, calm), ~InProgress(st), st.epoch < MaxEpoch
  PROVE  /\ Goes(st, StartFailover(st), calm) /\ InProgress(StartFailover(st))
         /\ StartFailover(st).foEpoch = st.epoch + 1 /\ StartFailover(st).foState = WaitStart
<1> DEFINE v == StartFailover(st)
<1>1. /\ DOMAIN v = Fields /\ v.epoch = st.epoch + 1 /\ v.foEpoch = st.epoch + 1 /\ v.foState = 1
      /\ v.configEpoch = st.configEpoch /\ v.leaderEpoch = st.leaderEpoch /\ v.addr = st.addr
      /\ v.leader = st.leader /\ v.disk = st.disk /\ InProgress(v) /\ v.peers = st.peers
      /\ v.slaves = st.slaves /\ v.promoted = st.promoted /\ v.flags = st.flags \cup {"inprog"}
  BY DEF StartFailover, GoodRecord, Live, Fields, InProgress, WaitStart
<1> HIDE DEF v
<1>2. CurrentMasterAddress(v) = st.addr /\ CurrentMasterAddress(st) = st.addr
  BY <1>1 DEF CurrentMasterAddress, InProgress, ReconfSlaves
<1>3. Live(v, calm)
  BY <1>1 DEF GoodRecord, Live
<1>4. Saved(v, calm)
  BY <1>1, <1>2 DEF GoodRecord, Live, Saved
<1>5. Shaped(v)
  <2>1. st.foState = 0 /\ st.promoted = Nil /\ st.epoch + 1 <= MaxEpoch
    BY ElectionAssumption DEF GoodRecord, Live, Shaped
  <2> QED
    BY <1>1, <2>1 DEF GoodRecord, Shaped
<1>6. Handles(st, v) /\ Met(v)
  BY <1>1, <1>2 DEF Handles, SamePeers, GoodRecord, Met
<1> QED
  BY <1>1, <1>3, <1>4, <1>5, <1>6 DEF Goes, GoodRecord, v, WaitStart

\* sentinelAbortFailover releases the promoted slave.
LEMMA AbortGoes ==
  ASSUME NEW st, NEW calm \in BOOLEAN, GoodRecord(st, calm), st.foState < ReconfSlaves
  PROVE  Goes(st, AbortFailover(st), calm) /\ ~InProgress(AbortFailover(st))
<1> DEFINE v == AbortFailover(st)
           slaves == [i \in DOMAIN st.slaves |-> st.slaves[i] \ {"promoted"}]
<1>1. /\ DOMAIN v = Fields /\ v.epoch = st.epoch /\ v.configEpoch = st.configEpoch
      /\ v.leaderEpoch = st.leaderEpoch /\ v.leader = st.leader /\ v.foEpoch = st.foEpoch
      /\ v.addr = st.addr /\ v.disk = st.disk /\ v.peers = st.peers /\ v.foState = 0 /\ v.promoted = Nil
      /\ v.flags = st.flags \ {"inprog", "force"} /\ v.slaves = slaves
  BY DEF GoodRecord, Live, Fields, AbortFailover, None
<1>2. DOMAIN slaves = DOMAIN st.slaves /\ \A i \in DOMAIN st.slaves : "promoted" \notin slaves[i]
  OBVIOUS
<1> HIDE DEF v, slaves
<1>3. Alike(st, v) /\ ~InProgress(v)
  BY <1>1 DEF Alike, SamePeers, GoodRecord, Met, InProgress
<1>4. Shaped(v)
  BY <1>1, <1>2, <1>3, SentinelAssumption DEF GoodRecord, Shaped
<1>5. v.foState < ReconfSlaves
  BY <1>1 DEF ReconfSlaves
<1>6. Goes(st, v, calm)
  BY <1>3, <1>4, <1>5, EarlyPhaseGoes
<1> QED
  BY <1>3, <1>6 DEF v

\* How the states of a failover follow each other.
Turns(st, v) ==
  InProgress(v) =>
    /\ InProgress(st) /\ v.foEpoch = st.foEpoch
    /\ \/ v.foState = st.foState
       \/ st.foState = 1 /\ v.foState = 2
       \/ st.foState \in 2..4 /\ v.foState \in 2..4
       \/ st.foState >= 5 /\ v.foState >= 5

\* A sentinel that has just been elected, unless forced.
Elected(s, st, v) ==
  /\ v.leaderEpoch >= v.foEpoch \/ v.epoch > v.foEpoch
  /\ "force" \in st.flags \/ \E front : Winner(v, v.foEpoch, front) = s

\* A step of the state machine of a failover.
Advances(s, st, v, calm) ==
  Goes(st, v, calm) /\ Turns(st, v) /\ (st.foState = 1 /\ v.foState = 2 => Elected(s, st, v))

\* A failover that stays where it is.
LEMMA StayingAdvances ==
  ASSUME NEW s, NEW st, NEW calm \in BOOLEAN, GoodRecord(st, calm)
  PROVE  Advances(s, st, st, calm)
BY StayingGoes DEF Advances, Turns

\* sentinelFailoverWaitStart: the vote of the sentinel itself, and the outcome.
LEMMA WaitStartAdvances ==
  ASSUME NEW s, NEW st, NEW calm \in BOOLEAN, GoodRecord(st, calm), InProgress(st), NEW now,
         st.foState = WaitStart
  PROVE  Advances(s, st, FailoverWaitStart(s, st, now).st, calm)
<1> DEFINE v == SentinelVote(s, st, st.foEpoch, IF now.front = Nil THEN s ELSE now.front)
           w == [v EXCEPT !.foState = SelectSlave]
<1>1. st.foEpoch \in Nat /\ st.foEpoch <= MaxEpoch
  BY ElectionAssumption DEF GoodRecord, Live, Shaped
<1>2. Goes(st, v, calm) /\ Voted(st, v) /\ (v.leaderEpoch >= st.foEpoch \/ v.epoch > st.foEpoch)
  BY <1>1, SentinelVoteGoes
<1>3. \/ /\ FailoverWaitStart(s, st, now).st = w
         /\ Winner(v, st.foEpoch, now.front) = s \/ "force" \in v.flags
      \/ FailoverWaitStart(s, st, now).st = AbortFailover(v)
      \/ FailoverWaitStart(s, st, now).st = v
  BY DEF FailoverWaitStart, Quietly
<1> HIDE DEF v
<1>4. GoodRecord(v, calm) /\ v.foState = WaitStart /\ InProgress(v) /\ DOMAIN v = Fields
      /\ v.foEpoch = st.foEpoch /\ v.flags = st.flags
  BY <1>2 DEF Goes, Voted, SamePhase, GoodRecord, Live
<1>5. /\ DOMAIN w = Fields /\ w.epoch = v.epoch /\ w.configEpoch = v.configEpoch
      /\ w.leaderEpoch = v.leaderEpoch /\ w.leader = v.leader /\ w.foEpoch = v.foEpoch
      /\ w.addr = v.addr /\ w.disk = v.disk /\ w.peers = v.peers /\ w.foState = 2
      /\ w.promoted = v.promoted /\ w.flags = v.flags /\ w.slaves = v.slaves
  BY <1>4 DEF Fields, SelectSlave
<1> HIDE DEF w
<1>6. Alike(v, w) /\ InProgress(w)
  BY <1>4, <1>5 DEF Alike, SamePeers, GoodRecord, Met, InProgress
<1>7. Shaped(w)
  BY <1>4, <1>5, <1>6 DEF GoodRecord, Shaped, WaitStart
<1>8. v.foState < ReconfSlaves /\ w.foState < ReconfSlaves
  BY <1>4, <1>5 DEF WaitStart, ReconfSlaves
<1>9. Goes(v, w, calm)
  BY <1>4, <1>6, <1>7, <1>8, EarlyPhaseGoes
<1>10. Goes(v, AbortFailover(v), calm) /\ ~InProgress(AbortFailover(v))
  BY <1>4, <1>8, AbortGoes
<1>11. Goes(st, w, calm) /\ Goes(st, AbortFailover(v), calm)
  BY <1>2, <1>9, <1>10, GoesTwice
<1>12. CASE FailoverWaitStart(s, st, now).st = w
            /\ (Winner(v, st.foEpoch, now.front) = s \/ "force" \in v.flags)
  <2>1. Turns(st, w)
    BY <1>4, <1>5, <1>6 DEF Turns, WaitStart
  <2>2. \A c : Votes(w, c) = Votes(v, c)
    BY <1>5 DEF Votes
  <2>3. Winner(w, w.foEpoch, now.front) = Winner(v, v.foEpoch, now.front)
    BY <1>5, <2>2 DEF Winner
  <2>4. Elected(s, st, w)
    BY <1>2, <1>4, <1>5, <1>12, <2>3 DEF Elected
  <2> QED
    BY <1>11, <1>12, <2>1, <2>4 DEF Advances
<1>13. CASE FailoverWaitStart(s, st, now).st = AbortFailover(v)
  <2>1. Turns(st, AbortFailover(v)) /\ AbortFailover(v).foState # 2
    BY <1>10 DEF Turns, Goes, GoodRecord, Shaped
  <2> QED
    BY <1>11, <1>13, <2>1 DEF Advances
<1>14. CASE FailoverWaitStart(s, st, now).st = v
  <2>1. Turns(st, v) /\ v.foState # 2
    BY <1>4 DEF Turns, WaitStart
  <2> QED
    BY <1>2, <1>14, <2>1 DEF Advances
<1> QED
  BY <1>3, <1>12, <1>13, <1>14

\* What the choice of the slave relies on: it is one of the suitable ones.
GoodNow(st, now) == st.foState = SelectSlave /\ Suitable(st, now) # {} => now.pick \in Suitable(st, now)

\* The other states of a failover before its slave has obeyed.
LEMMA EarlyStatesAdvance ==
  ASSUME NEW s, NEW st, NEW calm \in BOOLEAN, GoodRecord(st, calm), InProgress(st), NEW now, GoodNow(st, now)
  PROVE  /\ st.foState = SelectSlave => Advances(s, st, FailoverSelectSlave(st, now).st, calm)
         /\ st.foState = SendSlaveOfNoOne => Advances(s, st, FailoverSendSlaveOfNoOne(st, now).st, calm)
         /\ st.foState = WaitPromotion => Advances(s, st, FailoverWaitPromotion(st, now).st, calm)
<1>1. Advances(s, st, st, calm)
  BY StayingAdvances
<1>2. st.foState \in 2..4 => Advances(s, st, AbortFailover(st), calm)
  <2> HAVE st.foState \in 2..4
  <2>1. Goes(st, AbortFailover(st), calm) /\ ~InProgress(AbortFailover(st))
    BY AbortGoes DEF ReconfSlaves
  <2> QED
    BY <2>1 DEF Advances, Turns
<1>3. ASSUME st.foState = SelectSlave PROVE Advances(s, st, FailoverSelectSlave(st, now).st, calm)
  <2> DEFINE i == now.pick
             slaves == [st.slaves EXCEPT ![i] = @ \cup {"promoted"}]
             w == [st EXCEPT !.promoted = i, !.foState = SendSlaveOfNoOne, !.slaves = slaves]
  <2>1. FailoverSelectSlave(st, now).st = IF Suitable(st, now) = {} THEN AbortFailover(st) ELSE w
    BY DEF FailoverSelectSlave, Quietly
  <2>2. st.foState = 2 /\ st.foState \in 2..4
    BY <1>3 DEF SelectSlave
  <2>3. CASE Suitable(st, now) = {}
    BY <1>2, <2>1, <2>2, <2>3
  <2>4. CASE Suitable(st, now) # {}
    <3>1. i \in DOMAIN st.slaves
      BY <1>3, <2>4 DEF GoodNow, Suitable
    <3>2. /\ DOMAIN w = Fields /\ w.epoch = st.epoch /\ w.configEpoch = st.configEpoch
          /\ w.leaderEpoch = st.leaderEpoch /\ w.leader = st.leader /\ w.foEpoch = st.foEpoch
          /\ w.addr = st.addr /\ w.disk = st.disk /\ w.peers = st.peers /\ w.foState = 3
          /\ w.promoted = i /\ w.flags = st.flags /\ w.slaves = slaves
      BY DEF Fields, GoodRecord, Live, SendSlaveOfNoOne
    <3>3. DOMAIN slaves = DOMAIN st.slaves
          /\ \A j \in DOMAIN st.slaves : slaves[j] = IF j = i THEN st.slaves[j] \cup {"promoted"} ELSE st.slaves[j]
      BY <3>1
    <3> HIDE DEF w, slaves, i
    <3>4. Alike(st, w) /\ InProgress(w)
      BY <3>2 DEF Alike, SamePeers, GoodRecord, Met, InProgress
    <3>5. i # Nil /\ i \in Redis
      BY <3>1, SentinelAssumption DEF GoodRecord, Shaped
    <3>6. \A j \in DOMAIN st.slaves : "promoted" \notin st.slaves[j]
      BY <2>2, SentinelAssumption DEF GoodRecord, Shaped
    <3>7. \A j \in DOMAIN slaves : ("promoted" \in slaves[j]) <=> (i = j)
      BY <3>3, <3>6
    <3>8. Shaped(w)
      BY <3>1, <3>2, <3>3, <3>4, <3>5, <3>7 DEF GoodRecord, Shaped
    <3>9. st.foState < ReconfSlaves /\ w.foState < ReconfSlaves
      BY <2>2, <3>2 DEF ReconfSlaves
    <3>10. Goes(st, w, calm)
      BY <3>4, <3>8, <3>9, EarlyPhaseGoes
    <3>11. Advances(s, st, w, calm)
      BY <2>2, <3>2, <3>10 DEF Advances, Turns
    <3> QED
      BY <2>1, <2>4, <3>11
  <2> QED
    BY <2>3, <2>4
<1>4. ASSUME st.foState = SendSlaveOfNoOne PROVE Advances(s, st, FailoverSendSlaveOfNoOne(st, now).st, calm)
  <2> DEFINE w == [st EXCEPT !.foState = WaitPromotion]
  <2>1. FailoverSendSlaveOfNoOne(st, now).st \in {AbortFailover(st), st, w}
    BY DEF FailoverSendSlaveOfNoOne, Quietly
  <2>2. /\ DOMAIN w = Fields /\ w.epoch = st.epoch /\ w.configEpoch = st.configEpoch
        /\ w.leaderEpoch = st.leaderEpoch /\ w.leader = st.leader /\ w.foEpoch = st.foEpoch
        /\ w.addr = st.addr /\ w.disk = st.disk /\ w.peers = st.peers /\ w.foState = 4
        /\ w.promoted = st.promoted /\ w.flags = st.flags /\ w.slaves = st.slaves
    BY DEF Fields, GoodRecord, Live, WaitPromotion
  <2> HIDE DEF w
  <2>3. Alike(st, w) /\ InProgress(w) /\ st.foState = 3
    BY <1>4, <2>2 DEF Alike, SamePeers, GoodRecord, Met, InProgress, SendSlaveOfNoOne
  <2>4. Shaped(w)
    BY <2>2, <2>3 DEF GoodRecord, Shaped
  <2>5. st.foState < ReconfSlaves /\ w.foState < ReconfSlaves
    BY <2>2, <2>3 DEF ReconfSlaves
  <2>6. Goes(st, w, calm)
    BY <2>3, <2>4, <2>5, EarlyPhaseGoes
  <2>7. Advances(s, st, w, calm)
    BY <2>2, <2>3, <2>6 DEF Advances, Turns
  <2>8. Advances(s, st, AbortFailover(st), calm)
    BY <1>2, <2>3
  <2> QED
    BY <1>1, <2>1, <2>7, <2>8
<1>5. ASSUME st.foState = WaitPromotion PROVE Advances(s, st, FailoverWaitPromotion(st, now).st, calm)
  <2>1. FailoverWaitPromotion(st, now).st \in {AbortFailover(st), st}
    BY DEF FailoverWaitPromotion, Quietly
  <2>2. st.foState \in 2..4
    BY <1>5 DEF WaitPromotion
  <2> QED
    BY <1>1, <1>2, <2>1, <2>2
<1> QED
  BY <1>3, <1>4, <1>5

\* sentinelFailoverReconfNextSlave changes how far the slaves are, and may end
\* the failover.
LEMMA ReconfNextSlaveAdvances ==
  ASSUME NEW s, NEW st, NEW calm \in BOOLEAN, GoodRecord(st, calm), InProgress(st), NEW now,
         st.foState = ReconfSlaves
  PROVE  Advances(s, st, FailoverReconfNextSlave(st, now).st, calm)
<1>1. ASSUME NEW w, NEW out, Alike(st, w), SamePhase(st, w)
      PROVE  Advances(s, st, FailoverDetectEnd([st |-> w, out |-> out], now).st, calm)
  <2> DEFINE r == FailoverDetectEnd([st |-> w, out |-> out], now).st
             rest == IF now.expired
                     THEN {i \in DOMAIN w.slaves \ down : w.slaves[i] \cap {"done", "sent"} = {}}
                     ELSE {}
             slaves == [i \in DOMAIN w.slaves |-> IF i \in rest THEN w.slaves[i] \cup {"sent"} ELSE w.slaves[i]]
             left == {i \in DOMAIN w.slaves : w.slaves[i] \cap {"promoted", "done", "sdown"} = {}}
             x == [w EXCEPT !.foState = IF left = {} \/ now.expired THEN UpdateConfig ELSE @,
                            !.slaves = slaves]
  <2>1. r = IF "sdown" \in w.slaves[w.promoted] THEN w ELSE x
    BY DEF FailoverDetectEnd
  <2> HIDE DEF left
  <2>2. /\ DOMAIN x = Fields /\ x.epoch = w.epoch /\ x.configEpoch = w.configEpoch
        /\ x.leaderEpoch = w.leaderEpoch /\ x.leader = w.leader /\ x.foEpoch = w.foEpoch
        /\ x.addr = w.addr /\ x.disk = w.disk /\ x.peers = w.peers
        /\ x.foState = w.foState \/ x.foState = UpdateConfig
        /\ x.promoted = w.promoted /\ x.flags = w.flags /\ x.slaves = slaves
    BY <1>1 DEF Fields, Alike
  <2>3. DOMAIN slaves = DOMAIN w.slaves
        /\ \A i \in DOMAIN w.slaves : ("promoted" \in slaves[i]) <=> ("promoted" \in w.slaves[i])
    OBVIOUS
  <2> HIDE DEF slaves, rest, x, r
  <2>4. SameSlaves(st, x) /\ SameSlaves(st, w)
    BY <1>1, <2>2, <2>3 DEF SameSlaves, SamePhase
  <2>5. Alike(st, x) /\ InProgress(x) /\ InProgress(w) /\ x.promoted = st.promoted /\ w.promoted = st.promoted
        /\ w.foState = ReconfSlaves /\ (x.foState = ReconfSlaves \/ x.foState = UpdateConfig)
    BY <1>1, <2>2 DEF Alike, SamePeers, Met, InProgress, SamePhase
  <2>6. Goes(st, x, calm) /\ Goes(st, w, calm)
    BY <1>1, <2>4, <2>5, LatePhaseGoes
  <2>7. Turns(st, x) /\ Turns(st, w)
    BY <1>1, <2>5 DEF Turns, Alike, ReconfSlaves, UpdateConfig
  <2>8. st.foState # 1
    BY DEF ReconfSlaves
  <2>9. Advances(s, st, r, calm)
    BY <2>1, <2>6, <2>7, <2>8 DEF Advances
  <2> QED
    BY <2>9 DEF r
<1> DEFINE order == SetToSeq(DOMAIN st.slaves)
           busy == {i \in DOMAIN st.slaves : st.slaves[i] \cap {"sent", "reconf"} # {}}
           todo == {k \in DOMAIN order : st.slaves[order[k]] \cap {"promoted", "done"} = {}}
           ready == {k \in todo : /\ Overdue(st.slaves[order[k]], now) \cap {"sent", "reconf"} = {}
                                  /\ order[k] \notin down}
           turn == {k \in todo :
                      Cardinality(busy) + Cardinality({j \in ready : j < k}) < ParallelSyncs}
           met == {order[k] : k \in turn}
           told == {order[k] : k \in turn \cap ready}
           slaves == [i \in DOMAIN st.slaves |->
                        (IF i \in met THEN Overdue(st.slaves[i], now) ELSE st.slaves[i])
                        \cup (IF i \in told THEN {"sent"} ELSE {})]
           w == [st EXCEPT !.slaves = slaves]
           out == {<<i, st.promoted>> : i \in told}
<1>2. FailoverReconfNextSlave(st, now) = FailoverDetectEnd([st |-> w, out |-> out], now)
  BY DEF FailoverReconfNextSlave
<1> HIDE DEF order, busy, todo, ready, turn, met, told, out
<1>3. \A f : ("promoted" \in Overdue(f, now)) <=> ("promoted" \in f)
  BY DEF Overdue
<1>4. DOMAIN slaves = DOMAIN st.slaves
      /\ \A i \in DOMAIN st.slaves : ("promoted" \in slaves[i]) <=> ("promoted" \in st.slaves[i])
  BY <1>3
<1> HIDE DEF slaves
<1>5. Alike(st, w) /\ SamePhase(st, w)
  <2>1. /\ DOMAIN w = Fields /\ w.epoch = st.epoch /\ w.configEpoch = st.configEpoch
        /\ w.leaderEpoch = st.leaderEpoch /\ w.leader = st.leader /\ w.foEpoch = st.foEpoch
        /\ w.addr = st.addr /\ w.disk = st.disk /\ w.peers = st.peers /\ w.foState = st.foState
        /\ w.promoted = st.promoted /\ w.flags = st.flags /\ w.slaves = slaves
    BY DEF Fields, GoodRecord, Live
  <2> HIDE DEF w
  <2> QED
    BY <1>4, <2>1 DEF Alike, SamePeers, GoodRecord, Met, SamePhase, SameSlaves, InProgress
<1> HIDE DEF w
<1> QED
  BY <1>1, <1>2, <1>5

\* sentinelFailoverStateMachine, whatever the state.
LEMMA StateMachineAdvances ==
  ASSUME NEW s, NEW st, NEW calm \in BOOLEAN, GoodRecord(st, calm), NEW now, GoodNow(st, now)
  PROVE  Advances(s, st, FailoverStateMachine(s, st, now).st, calm)
<1> DEFINE r == FailoverStateMachine(s, st, now)
<1>1. Advances(s, st, st, calm)
  BY StayingAdvances
<1>2. Quietly(st).st = st
  BY DEF Quietly
<1>3. CASE ~InProgress(st)
  BY <1>1, <1>2, <1>3 DEF FailoverStateMachine, InProgress
<1>4. CASE InProgress(st)
  <2>1. r = CASE st.foState = WaitStart -> FailoverWaitStart(s, st, now)
              [] st.foState = SelectSlave -> FailoverSelectSlave(st, now)
              [] st.foState = SendSlaveOfNoOne -> FailoverSendSlaveOfNoOne(st, now)
              [] st.foState = WaitPromotion -> FailoverWaitPromotion(st, now)
              [] st.foState = ReconfSlaves -> FailoverReconfNextSlave(st, now)
              [] OTHER -> Quietly(st)
    BY <1>4 DEF FailoverStateMachine, InProgress
  <2> HIDE DEF r
  <2>2. /\ st.foState = WaitStart => r = FailoverWaitStart(s, st, now)
        /\ st.foState = SelectSlave => r = FailoverSelectSlave(st, now)
        /\ st.foState = SendSlaveOfNoOne => r = FailoverSendSlaveOfNoOne(st, now)
        /\ st.foState = WaitPromotion => r = FailoverWaitPromotion(st, now)
        /\ st.foState = ReconfSlaves => r = FailoverReconfNextSlave(st, now)
        /\ st.foState \notin {WaitStart, SelectSlave, SendSlaveOfNoOne, WaitPromotion, ReconfSlaves}
             => r = Quietly(st)
    BY <2>1 DEF WaitStart, SelectSlave, SendSlaveOfNoOne, WaitPromotion, ReconfSlaves
  <2>3. st.foState = WaitStart => Advances(s, st, r.st, calm)
    BY <1>4, <2>2, WaitStartAdvances
  <2>4. st.foState \in {SelectSlave, SendSlaveOfNoOne, WaitPromotion} => Advances(s, st, r.st, calm)
    BY <1>4, <2>2, EarlyStatesAdvance
  <2>5. st.foState = ReconfSlaves => Advances(s, st, r.st, calm)
    BY <1>4, <2>2, ReconfNextSlaveAdvances
  <2>6. st.foState \notin {WaitStart, SelectSlave, SendSlaveOfNoOne, WaitPromotion, ReconfSlaves}
          => Advances(s, st, r.st, calm)
    BY <1>1, <1>2, <2>2
  <2>7. Advances(s, st, r.st, calm)
    BY <2>3, <2>4, <2>5, <2>6
  <2> QED
    BY <2>7 DEF r
<1> QED
  BY <1>3, <1>4

\* A reset leaves no failover, and the new address is saved.
LEMMA ChangeAddressSaves ==
  ASSUME NEW st, NEW calm \in BOOLEAN, DOMAIN st = Fields, st.epoch \in Nat, st.configEpoch \in Nat,
         st.leaderEpoch \in Nat, st.foEpoch \in Nat, st.configEpoch <= st.epoch,
         st.foEpoch <= st.epoch, st.leaderEpoch <= st.epoch, st.epoch <= MaxEpoch, Met(st),
         st.addr \in Redis, DOMAIN st.slaves \subseteq Redis, NEW a \in Redis
  PROVE  LET v == ResetMasterAndChangeAddress(st, a)
         IN  /\ GoodRecord(v, calm) /\ ~InProgress(v) /\ v.flags = {} /\ v.foState = 0
             /\ v.leaderEpoch = st.leaderEpoch /\ v.leader = Nil /\ v.configEpoch = st.configEpoch
             /\ v.peers = st.peers /\ CurrentMasterAddress(v) = a
             /\ v.disk.configEpoch = st.configEpoch /\ v.disk.addr = a /\ v.disk.peers = DOMAIN st.peers
<1> DEFINE slaves == [i \in (DOMAIN st.slaves \cup {st.addr}) \ {a} |-> {}]
           w == [ResetMaster(st, TRUE) EXCEPT !.addr = a, !.slaves = slaves]
           v == ResetMasterAndChangeAddress(st, a)
<1>1. v = FlushConfig(w)
  BY DEF ResetMasterAndChangeAddress
<1>2. DOMAIN slaves = (DOMAIN st.slaves \cup {st.addr}) \ {a} /\ \A i \in DOMAIN slaves : slaves[i] = {}
  OBVIOUS
<1> HIDE DEF slaves, v
<1>3. /\ DOMAIN w = Fields /\ w.epoch = st.epoch /\ w.configEpoch = st.configEpoch
      /\ w.leaderEpoch = st.leaderEpoch /\ w.leader = Nil /\ w.foEpoch = st.foEpoch /\ w.foState = 0
      /\ w.flags = {} /\ w.promoted = Nil /\ w.slaves = slaves /\ w.peers = st.peers /\ w.addr = a
  BY DEF ResetMaster, Fields, None
<1> HIDE DEF w
<1>4. Live(w, calm) /\ Met(w) /\ CurrentMasterAddress(w) = a /\ ~InProgress(w)
  BY <1>3 DEF Live, Met, CurrentMasterAddress, InProgress
<1>5. Shaped(w)
  BY <1>2, <1>3, <1>4, SentinelAssumption DEF Shaped
<1>6. /\ GoodRecord(v, calm) /\ SamePhase(w, v)
      /\ v.leaderEpoch = w.leaderEpoch /\ v.leader = w.leader /\ v.configEpoch = w.configEpoch
      /\ v.flags = w.flags /\ v.peers = w.peers
      /\ CurrentMasterAddress(v) = CurrentMasterAddress(w)
      /\ v.disk.configEpoch = w.configEpoch /\ v.disk.addr = CurrentMasterAddress(w)
      /\ v.disk.peers = DOMAIN w.peers
  BY <1>1, <1>4, <1>5, FlushSaves
<1> QED
  BY <1>3, <1>4, <1>6 DEF SamePhase, v

\* sentinelFailoverSwitchToPromotedSlave: the master is the one that was announced.
LEMMA SwitchGoes ==
  ASSUME NEW st, NEW calm \in BOOLEAN, GoodRecord(st, calm)
  PROVE  LET v == SwitchToPromotedSlave(st)
         IN  Goes(st, v, calm) /\ v.foState # 6 /\ (v = st \/ ~InProgress(v)) /\ (st.foState # 6 => v = st)
<1>1. Goes(st, st, calm)
  BY StayingGoes
<1>2. CASE st.foState = UpdateConfig
  <2> DEFINE a == IF st.promoted = Nil THEN st.addr ELSE st.promoted
             v == ResetMasterAndChangeAddress(st, a)
  <2>1. SwitchToPromotedSlave(st) = v
    BY <1>2 DEF SwitchToPromotedSlave
  <2>2. a \in Redis /\ a = CurrentMasterAddress(st)
    BY <1>2 DEF GoodRecord, Shaped, CurrentMasterAddress, InProgress, UpdateConfig, ReconfSlaves
  <2> HIDE DEF a
  <2>3. /\ GoodRecord(v, calm) /\ ~InProgress(v) /\ v.flags = {} /\ v.foState = 0
        /\ v.leaderEpoch = st.leaderEpoch /\ v.leader = Nil /\ v.configEpoch = st.configEpoch
        /\ v.peers = st.peers /\ CurrentMasterAddress(v) = a
        /\ v.disk.configEpoch = st.configEpoch /\ v.disk.addr = a /\ v.disk.peers = DOMAIN st.peers
    BY <2>2, ChangeAddressSaves DEF GoodRecord, Live, Shaped
  <2> HIDE DEF v
  <2>4. Handles(st, v)
    BY <2>2, <2>3 DEF Handles, SamePeers
  <2>5. st.foState = 6
    BY <1>2 DEF UpdateConfig
  <2> QED
    BY <2>1, <2>3, <2>4, <2>5 DEF Goes
<1>3. CASE st.foState # UpdateConfig
  BY <1>1, <1>3 DEF SwitchToPromotedSlave, UpdateConfig
<1> QED
  BY <1>2, <1>3

-----------------------------------------------------------------------------
(* The group: records, questions and hellos, votes, elections and          *)
(* configurations.                                                         *)

Calm(s) == s \notin crossed

GoodRow(g, s, l) ==
  /\ DOMAIN l = Group
  /\ \A t \in Group : l[t] = Nil \/ (l[t].epoch \in Nat /\ l[t].epoch <= MaxEpoch /\ t \in g /\ t # s)

GoodQuestions(g, lk) == DOMAIN lk = Group /\ \A s \in Group : GoodRow(g, s, lk[s])

GoodHello(g, m) ==
  \/ m = Nil
  \/ /\ m.epoch \in Nat /\ m.epoch <= MaxEpoch /\ m.configEpoch \in Nat /\ m.configEpoch <= m.epoch
     /\ m.addr \in Redis /\ m.from \in g

RecordInv ==
  /\ setup \in Setups /\ DOMAIN sent = Group
  /\ \A s \in Group : GoodRecord(sent[s], Calm(s)) /\ sent[s].foState # 6
  /\ GoodQuestions(setup.group, link) /\ GoodHello(setup.group, hello)

ConfigStep == \A s \in Group : Fine(sent[s], sent'[s], Calm(s))

\* Who is met: all of the group, unless an administrator reset a sentinel.
Electorate(g, s, st, meddling) ==
  /\ DOMAIN st.peers \subseteq g \ {s} /\ st.disk.peers \subseteq g \ {s}
  /\ ~meddling => /\ DOMAIN st.peers = g \ {s} /\ st.disk.peers = g \ {s} /\ "force" \notin st.flags

\* Votes that were told, and the own one, were cast.
Told(st, c) ==
  \A t \in DOMAIN st.peers :
    st.peers[t].leader = Nil \/ <<t, st.peers[t].epoch, st.peers[t].leader>> \in c

OwnVote(s, st, c) == st.leader = Nil \/ <<s, st.leaderEpoch, st.leader>> \in c

VoteInv ==
  /\ \A s \in Group : /\ Electorate(setup.group, s, sent[s], meddled # {})
                      /\ Told(sent[s], cast) /\ OwnVote(s, sent[s], cast)
  /\ \A v \in cast : v[1] \in Group /\ v[2] \in Nat /\ v[2] <= sent[v[1]].leaderEpoch
  /\ \A v, w \in cast : v[1] = w[1] /\ v[2] = w[2] => v[3] = w[3]

VoteUp(st, v) ==
  \/ v.leaderEpoch > st.leaderEpoch
  \/ v.leaderEpoch = st.leaderEpoch /\ (v.leader = st.leader \/ v.leader = Nil)

\* What a step must make of every record, configurations apart.
KeptRecord(x) ==
  /\ GoodRecord(sent'[x], Calm(x)') /\ sent'[x].foState # 6
  /\ Fine(sent[x], sent'[x], Calm(x)) /\ VoteUp(sent[x], sent'[x])
  /\ Electorate(setup.group, x, sent'[x], meddled' # {}) /\ Told(sent'[x], cast')
  /\ Ballot(x, sent[x], sent'[x]) \subseteq cast'

\* Votes are never taken back.
CastKept ==
  /\ cast \subseteq cast'
  /\ \A c \in cast' : c \in cast \/ \E x \in Group : c \in Ballot(x, sent[x], sent'[x])

\* What is kept of the rest.
RestKept ==
  /\ DOMAIN sent' = Group /\ setup' = setup
  /\ GoodQuestions(setup.group, link') /\ GoodHello(setup.group, hello')

\* A step that keeps every record good and every vote cast keeps the records and the
\* votes of the group.
LEMMA RecordsKeep ==
  ASSUME RecordInv, VoteInv, RestKept, CastKept, \A x \in Group : KeptRecord(x)
  PROVE  RecordInv' /\ VoteInv' /\ ConfigStep
<1>1. RecordInv'
  BY DEF RecordInv, RestKept, KeptRecord
<1>2. ConfigStep
  BY DEF ConfigStep, KeptRecord
<1>3. \A x \in Group : /\ sent[x].leaderEpoch \in Nat /\ sent'[x].leaderEpoch \in Nat
                       /\ sent'[x].leaderEpoch >= sent[x].leaderEpoch
  BY DEF RecordInv, KeptRecord, GoodRecord, Live, Fine
<1>4. \A x \in Group : OwnVote(x, sent'[x], cast')
  <2> TAKE x \in Group
  <2>1. CASE sent'[x].leader = Nil
    BY <2>1 DEF OwnVote
  <2>2. CASE sent'[x].leader # Nil
              /\ <<sent'[x].leader, sent'[x].leaderEpoch>> = <<sent[x].leader, sent[x].leaderEpoch>>
    BY <2>2 DEF OwnVote, VoteInv, CastKept
  <2>3. CASE sent'[x].leader # Nil
              /\ <<sent'[x].leader, sent'[x].leaderEpoch>> # <<sent[x].leader, sent[x].leaderEpoch>>
    BY <2>3 DEF OwnVote, KeptRecord, Ballot
  <2> QED
    BY <2>1, <2>2, <2>3
<1>5. \A c \in cast' : \/ c \in cast
                       \/ \E x \in Group : /\ c = <<x, sent'[x].leaderEpoch, sent'[x].leader>>
                                           /\ sent'[x].leaderEpoch > sent[x].leaderEpoch
  <2> TAKE c \in cast'
  <2>1. CASE c \in cast
    BY <2>1
  <2>2. CASE \E x \in Group : c \in Ballot(x, sent[x], sent'[x])
    <3>1. PICK x \in Group : c \in Ballot(x, sent[x], sent'[x])
      BY <2>2
    <3>2. /\ c = <<x, sent'[x].leaderEpoch, sent'[x].leader>> /\ sent'[x].leader # Nil
          /\ <<sent'[x].leader, sent'[x].leaderEpoch>> # <<sent[x].leader, sent[x].leaderEpoch>>
      BY <3>1 DEF Ballot
    <3>3. VoteUp(sent[x], sent'[x])
      BY DEF KeptRecord
    <3> QED
      BY <3>2, <3>3 DEF VoteUp
  <2> QED
    BY <2>1, <2>2 DEF CastKept
<1>6. \A c \in cast' : c[1] \in Group /\ c[2] \in Nat /\ c[2] <= sent'[c[1]].leaderEpoch
  <2> TAKE c \in cast'
  <2>1. CASE c \in cast
    BY <1>3, <2>1 DEF VoteInv
  <2>2. CASE \E x \in Group : c = <<x, sent'[x].leaderEpoch, sent'[x].leader>>
    BY <1>3, <2>2
  <2> QED
    BY <1>5, <2>1, <2>2
<1>7. \A v, w \in cast' : v[1] = w[1] /\ v[2] = w[2] => v[3] = w[3]
  <2>1. ASSUME NEW v \in cast, NEW w \in cast', v[1] = w[1], v[2] = w[2] PROVE v[3] = w[3]
    <3>1. CASE w \in cast
      BY <2>1, <3>1 DEF VoteInv
    <3>2. CASE \E x \in Group : /\ w = <<x, sent'[x].leaderEpoch, sent'[x].leader>>
                                /\ sent'[x].leaderEpoch > sent[x].leaderEpoch
      <4>1. PICK x \in Group : /\ w = <<x, sent'[x].leaderEpoch, sent'[x].leader>>
                               /\ sent'[x].leaderEpoch > sent[x].leaderEpoch
        BY <3>2
      <4>2. v[1] = x /\ v[2] = sent'[x].leaderEpoch
        BY <2>1, <4>1
      <4>3. v[2] <= sent[x].leaderEpoch
        BY <4>2 DEF VoteInv
      <4> QED
        BY <1>3, <4>1, <4>2, <4>3
    <3> QED
      BY <1>5, <3>1, <3>2
  <2>2. ASSUME NEW v \in cast', NEW w \in cast', v[1] = w[1], v[2] = w[2],
               NEW x \in Group, v = <<x, sent'[x].leaderEpoch, sent'[x].leader>>,
               NEW y \in Group, w = <<y, sent'[y].leaderEpoch, sent'[y].leader>>
        PROVE  v[3] = w[3]
    BY <2>2
  <2> QED
    BY <1>5, <2>1, <2>2
<1>8. \A x \in Group : Electorate(setup'.group, x, sent'[x], meddled' # {}) /\ Told(sent'[x], cast')
  BY DEF KeptRecord, RestKept
<1> QED
  BY <1>1, <1>2, <1>4, <1>6, <1>7, <1>8 DEF VoteInv

-----------------------------------------------------------------------------
(* Elections.                                                              *)

Backers(g, c, epoch, leader) == {t \in g : <<t, epoch, leader>> \in c}

\* A majority of the group voted for the winner.
Backed(g, c, w) == 2 * Cardinality(Backers(g, c, w.epoch, w.leader)) > Cardinality(g)

WonInv ==
  \A w \in won : w.fresh => /\ w.leader \in Group /\ w.epoch \in Nat
                            /\ w.epoch <= sent[w.leader].leaderEpoch
                            /\ meddled = {} => Backed(setup.group, cast, w)

\* The group of a setup is one of Group, and finite.
LEMMA GroupIsFinite ==
  ASSUME RecordInv
  PROVE  setup.group \subseteq Group /\ IsFiniteSet(setup.group) /\ Cardinality(setup.group) \in Nat
<1>1. setup.group \subseteq Group /\ Group \subseteq Sentinels /\ IsFiniteSet(Sentinels)
  BY SentinelAssumption, ElectionAssumption DEF RecordInv
<1> QED
  BY <1>1, FS_Subset, FS_CardinalityType

\* Who backs a leader is of the group.
LEMMA BackersAreFinite ==
  ASSUME NEW g, IsFiniteSet(g), NEW c, NEW epoch, NEW leader
  PROVE  /\ Backers(g, c, epoch, leader) \subseteq g /\ IsFiniteSet(Backers(g, c, epoch, leader))
         /\ Cardinality(Backers(g, c, epoch, leader)) \in Nat
<1>1. Backers(g, c, epoch, leader) \subseteq g
  BY DEF Backers
<1> QED
  BY <1>1, FS_Subset, FS_CardinalityType

\* Votes are never taken back.
LEMMA BackedStays ==
  ASSUME NEW g, IsFiniteSet(g), NEW b, NEW c, b \subseteq c, NEW w, Backed(g, b, w)
  PROVE  Backed(g, c, w)
<1>1. Backers(g, b, w.epoch, w.leader) \in SUBSET Backers(g, c, w.epoch, w.leader)
  BY DEF Backers
<1>2. Cardinality(Backers(g, b, w.epoch, w.leader)) <= Cardinality(Backers(g, c, w.epoch, w.leader))
  BY <1>1, BackersAreFinite, FS_Subset
<1>3. Cardinality(g) \in Nat
  BY FS_CardinalityType
<1> QED
  BY <1>2, <1>3, BackersAreFinite DEF Backed

\* Two majorities have a sentinel in common, which voted once.
LEMMA OneWinner ==
  ASSUME NEW g, IsFiniteSet(g), NEW c, \A x, y \in c : x[1] = y[1] /\ x[2] = y[2] => x[3] = y[3],
         NEW v, NEW w, Backed(g, c, v), Backed(g, c, w), v.epoch = w.epoch
  PROVE  v.leader = w.leader
<1> DEFINE A == Backers(g, c, v.epoch, v.leader)
           B == Backers(g, c, w.epoch, w.leader)
<1>1. Cardinality(g) \in Nat
  BY FS_CardinalityType
<1>2. 2 * Cardinality(A) > Cardinality(g) /\ 2 * Cardinality(B) > Cardinality(g)
  BY DEF Backed
<1>3. /\ A \subseteq g /\ B \subseteq g /\ Cardinality(A) \in Nat /\ Cardinality(B) \in Nat
  BY BackersAreFinite
<1> HIDE DEF A, B
<1>4. Cardinality(A) + Cardinality(B) > Cardinality(g)
  BY <1>1, <1>2, <1>3
<1>5. A \cap B # {}
  BY <1>1, <1>3, <1>4, FS_MajoritiesIntersect
<1>6. PICK t : t \in A /\ t \in B
  BY <1>5
<1>7. <<t, v.epoch, v.leader>> \in c /\ <<t, v.epoch, w.leader>> \in c
  BY <1>6 DEF A, B, Backers
<1> QED
  BY <1>7

\* sentinelGetLeader: who finds that it is the winner, and has not heard of a
\* newer epoch, was told of the votes of a majority.
LEMMA WinnerIsBacked ==
  ASSUME NEW g, IsFiniteSet(g), g \subseteq Sentinels, NEW s \in g, NEW st, DOMAIN st.peers = g \ {s}, NEW c,
         Told(st, c), OwnVote(s, st, c), st.epoch = st.foEpoch, NEW front, Winner(st, st.foEpoch, front) = s
  PROVE  Backed(g, c, Win(s, st))
<1> DEFINE mine == IF st.leader # Nil /\ st.leaderEpoch = st.foEpoch THEN st.leader ELSE Nil
           told == Votes(st, s)
           for == Backers(g, c, st.foEpoch, s)
<1>1. SUFFICES 2 * Cardinality(for) > Cardinality(g)
  BY DEF Backed, Win
<1>2. s # Nil
  BY ElectionAssumption
<1>3. Cardinality(told) + (IF mine = s THEN 1 ELSE 0)
        >= (Cardinality(g \ {s}) + 1) \div 2 + 1
  <2> DEFINE Count(k) == Cardinality(Votes(st, k)) + (IF mine = k THEN 1 ELSE 0)
             top == IF mine # Nil /\ (front = Nil \/ Count(mine) > Cardinality(Votes(st, front)))
                    THEN mine ELSE front
             enough == Count(top) >= (Cardinality(DOMAIN st.peers) + 1) \div 2 + 1
             quorum == Count(top) >= SentinelQuorum
  <2>1. Winner(st, st.foEpoch, front) = IF top # Nil /\ enough /\ quorum THEN top ELSE Nil
    BY Zenon DEF Winner
  <2>2. enough /\ top = s
    <3> HIDE DEF enough, quorum, top
    <3> QED
      BY <1>2, <2>1
  <2> HIDE DEF top, mine
  <2> QED
    BY <2>2
<1>4. Cardinality(g) \in Nat /\ Cardinality(g \ {s}) + 1 = Cardinality(g)
  <2>1. Cardinality(g) \in Nat
    BY FS_CardinalityType
  <2>2. Cardinality(g \ {s}) = Cardinality(g) - 1
    BY FS_RemoveElement
  <2> QED
    BY <2>1, <2>2
<1>5. told \subseteq g \ {s} /\ told \subseteq for
  BY <1>2 DEF Votes, Backers, Told
<1>6. IsFiniteSet(for) /\ Cardinality(for) \in Nat
  BY BackersAreFinite
<1>7. IsFiniteSet(told) /\ Cardinality(told) \in Nat /\ Cardinality(told) <= Cardinality(for)
  BY <1>5, <1>6, FS_Subset, FS_CardinalityType
<1>8. CASE mine = s
  <2>1. s \in for
    BY <1>2, <1>8 DEF Backers, OwnVote
  <2>2. Cardinality(told \cup {s}) = Cardinality(told) + 1
    BY <1>5, <1>7, FS_AddElement
  <2>3. Cardinality(told \cup {s}) <= Cardinality(for)
    BY <1>5, <1>6, <2>1, FS_Subset
  <2> HIDE DEF told, for
  <2> QED
    BY <1>3, <1>4, <1>6, <1>7, <1>8, <2>2, <2>3
<1>9. CASE mine # s
  <2> HIDE DEF told, for, mine
  <2> QED
    BY <1>3, <1>4, <1>6, <1>7, <1>9
<1> QED
  BY <1>8, <1>9

\* A step in which nobody is elected.
LEMMA WonKeeps ==
  ASSUME RecordInv, WonInv, ConfigStep, RestKept, CastKept, won' = won, meddled' = {} => meddled = {},
         \A x \in Group : sent[x].leaderEpoch \in Nat /\ sent'[x].leaderEpoch \in Nat
  PROVE  WonInv'
<1> SUFFICES ASSUME NEW w \in won, w.fresh
             PROVE  /\ w.leader \in Group /\ w.epoch \in Nat /\ w.epoch <= sent'[w.leader].leaderEpoch
                    /\ meddled' = {} => Backed(setup'.group, cast', w)
  BY DEF WonInv
<1>1. /\ w.leader \in Group /\ w.epoch \in Nat /\ w.epoch <= sent[w.leader].leaderEpoch
      /\ meddled = {} => Backed(setup.group, cast, w)
  BY DEF WonInv
<1>2. sent'[w.leader].leaderEpoch >= sent[w.leader].leaderEpoch
  BY <1>1 DEF ConfigStep, Fine
<1>3. w.epoch <= sent'[w.leader].leaderEpoch
  BY <1>1, <1>2
<1>4. Backed(setup.group, cast, w) => Backed(setup.group, cast', w)
  BY GroupIsFinite, BackedStays DEF CastKept
<1> QED
  BY <1>1, <1>3, <1>4 DEF RestKept

-----------------------------------------------------------------------------
(* Configurations.                                                         *)

Quiet == meddled = {} /\ crossed = {} /\ \A w \in won : w.fresh

\* What a sentinel holds and announces, and what its file says.
Pairs(st) == {<<st.configEpoch, CurrentMasterAddress(st)>>, <<st.disk.configEpoch, st.disk.addr>>}

\* A failover that waits for its election has an epoch its sentinel has not won;
\* from the election on it has won it; before its slave obeys nobody has a
\* configuration of that epoch.
Undecided(s, st, ann, wins1) ==
  InProgress(st) =>
    /\ st.foEpoch > 0
    /\ st.foState = 1 => \A w \in wins1 : w.leader = s => w.epoch < st.foEpoch
    /\ st.foState >= 2 => \E w \in wins1 : w.epoch = st.foEpoch /\ w.leader = s
    /\ st.foState \in 2..4 => \A a \in ann : a[1] # st.foEpoch

Known(ann, wins1) == \A a \in ann : a[1] = 0 \/ \E w \in wins1 : w.epoch = a[1]

Agreeing(ann) == \A a, b \in ann : a[1] = b[1] => a[2] = b[2]

ConfInv ==
  Quiet => /\ \A s \in Group : Undecided(s, sent[s], Announced, won)
           /\ Known(Announced, won) /\ Agreeing(Announced)

GroupInv == RecordInv /\ VoteInv /\ WonInv /\ ConfInv

\* What a sentinel holds, saves or announces is announced.
LEMMA PairsAreAnnounced ==
  /\ \A x \in Group : Pairs(sent[x]) \subseteq Announced
  /\ hello # Nil => <<hello.configEpoch, hello.addr>> \in Announced
BY DEF Pairs, Announced

\* Nothing else is.
LEMMA AnnouncedWithin ==
  ASSUME NEW S, \A x \in Group : Pairs(sent'[x]) \subseteq S,
         hello' = Nil \/ <<hello'.configEpoch, hello'.addr>> \in S
  PROVE  Announced' \subseteq S
BY DEF Pairs, Announced

\* A failover stays where it is, or is given up.
Still(st, v) == InProgress(v) => InProgress(st) /\ v.foEpoch = st.foEpoch /\ v.foState = st.foState

\* A step in which nobody is elected and no configuration is made.
LEMMA ConfKeeps ==
  ASSUME ConfInv, Quiet' => Quiet, won' = won, \A x \in Group : Still(sent[x], sent'[x]),
         Quiet' => Announced' \subseteq Announced
  PROVE  ConfInv'
<1> SUFFICES ASSUME Quiet'
             PROVE  /\ \A s \in Group : Undecided(s, sent'[s], Announced', won')
                    /\ Known(Announced', won') /\ Agreeing(Announced')
  BY DEF ConfInv
<1>1. /\ \A s \in Group : Undecided(s, sent[s], Announced, won)
      /\ Known(Announced, won) /\ Agreeing(Announced) /\ Announced' \subseteq Announced
  BY DEF ConfInv
<1>2. \A s \in Group : Undecided(s, sent'[s], Announced', won')
  BY <1>1 DEF Undecided, Still
<1>3. Known(Announced', won')
  BY <1>1 DEF Known
<1>4. Agreeing(Announced')
  BY <1>1 DEF Agreeing
<1> QED
  BY <1>2, <1>3, <1>4

\* What a step that makes no configuration must make of every record.
Kept(x) ==
  KeptRecord(x) /\ Still(sent[x], sent'[x]) /\ (Quiet' => Pairs(sent'[x]) \subseteq Announced)

NoMoreCalm ==
  /\ \A x \in Group : Calm(x)' => Calm(x)
  /\ meddled' = {} => meddled = {}
  /\ crossed' = {} => crossed = {}

\* A step in which nobody is elected and no configuration is made keeps the
\* invariant of the group.
LEMMA PlainStepKeeps ==
  ASSUME GroupInv, RestKept, CastKept, NoMoreCalm, won' = won, \A x \in Group : Kept(x),
         hello' = Nil \/ hello' = hello \/ <<hello'.configEpoch, hello'.addr>> \in Announced
  PROVE  GroupInv' /\ ConfigStep
<1>1. RecordInv' /\ VoteInv' /\ ConfigStep
  BY RecordsKeep DEF GroupInv, Kept
<1>2. \A x \in Group : sent[x].leaderEpoch \in Nat /\ sent'[x].leaderEpoch \in Nat
  BY DEF Kept, KeptRecord, GroupInv, RecordInv, GoodRecord, Live
<1>3. WonInv'
  BY <1>1, <1>2, WonKeeps DEF GroupInv, NoMoreCalm
<1>4. Quiet' => Quiet
  BY DEF Quiet, NoMoreCalm
<1>5. Quiet' => Announced' \subseteq Announced
  <2> HAVE Quiet'
  <2>1. \A x \in Group : Pairs(sent'[x]) \subseteq Announced
    BY DEF Kept
  <2>2. hello' = Nil \/ <<hello'.configEpoch, hello'.addr>> \in Announced
    BY PairsAreAnnounced
  <2> QED
    BY <2>1, <2>2, AnnouncedWithin
<1>6. ConfInv'
  BY <1>4, <1>5, ConfKeeps DEF GroupInv, Kept
<1> QED
  BY <1>1, <1>3, <1>6 DEF GroupInv

\* A record that is left alone.
LEMMA UntouchedIsKept ==
  ASSUME GroupInv, NEW x \in Group, sent'[x] = sent[x], CastKept, NoMoreCalm
  PROVE  Kept(x)
<1>1. /\ GoodRecord(sent[x], Calm(x)) /\ sent[x].foState # 6 /\ (Calm(x)' => Calm(x))
      /\ Calm(x) \in BOOLEAN /\ Calm(x)' \in BOOLEAN
  BY DEF GroupInv, RecordInv, NoMoreCalm, Calm
<1>2. GoodRecord(sent'[x], Calm(x)')
  BY <1>1 DEF GoodRecord, Live, Saved
<1>3. Fine(sent[x], sent'[x], Calm(x)) /\ VoteUp(sent[x], sent'[x])
  BY <1>1 DEF Fine, VoteUp, GoodRecord, Live
<1>4. Electorate(setup.group, x, sent'[x], meddled' # {}) /\ Told(sent'[x], cast')
  BY DEF GroupInv, VoteInv, Electorate, Told, CastKept, NoMoreCalm
<1>5. Ballot(x, sent[x], sent'[x]) = {}
  BY DEF Ballot
<1>6. Still(sent[x], sent'[x]) /\ Pairs(sent'[x]) \subseteq Announced
  BY PairsAreAnnounced DEF Still
<1> QED
  BY <1>1, <1>2, <1>3, <1>4, <1>5, <1>6 DEF Kept, KeptRecord

\* What a handler makes of a record.
LEMMA GoingIsKept ==
  ASSUME GroupInv, NEW x \in Group, Goes(sent[x], sent'[x], Calm(x)), sent'[x].foState # 6,
         UNCHANGED <<meddled, crossed>>, CastKept, Ballot(x, sent[x], sent'[x]) \subseteq cast'
  PROVE  KeptRecord(x) /\ Pairs(sent'[x]) \subseteq Announced
<1>1. GoodRecord(sent[x], Calm(x)) /\ Calm(x)' = Calm(x)
  BY DEF GroupInv, RecordInv, Calm
<1>2. Fine(sent[x], sent'[x], Calm(x)) /\ VoteUp(sent[x], sent'[x])
  BY <1>1 DEF Goes, Handles, Fine, VoteUp, GoodRecord, Live
<1>3. Electorate(setup.group, x, sent'[x], meddled' # {})
  BY DEF GroupInv, VoteInv, Electorate, Goes, Handles, SamePeers
<1>4. Told(sent'[x], cast')
  BY DEF GroupInv, VoteInv, Told, CastKept, Goes, Handles, SamePeers
<1>5. Pairs(sent'[x]) \subseteq Announced
  BY PairsAreAnnounced DEF Pairs, Goes, Handles
<1> QED
  BY <1>1, <1>2, <1>3, <1>4, <1>5 DEF KeptRecord, Goes

\* A handler that writes one record.
LEMMA OneGoingKeeps ==
  ASSUME GroupInv, NEW s \in Group, NEW v, Goes(sent[s], v, Calm(s)), v.foState # 6, Still(sent[s], v),
         Put(s, v), UNCHANGED <<setup, meddled, crossed, won, hello>>, GoodQuestions(setup.group, link')
  PROVE  GroupInv' /\ ConfigStep
<1>1. /\ DOMAIN sent' = Group /\ sent'[s] = v /\ \A x \in Group \ {s} : sent'[x] = sent[x]
      /\ cast' = cast \cup Ballot(s, sent[s], v)
  BY DEF Put, GroupInv, RecordInv
<1>2. RestKept
  BY <1>1 DEF RestKept, GroupInv, RecordInv
<1>3. CastKept /\ Ballot(s, sent[s], sent'[s]) \subseteq cast'
  BY <1>1 DEF CastKept
<1>4. NoMoreCalm
  BY DEF NoMoreCalm, Calm
<1>5. Kept(s)
  BY <1>1, <1>3, GoingIsKept DEF Kept
<1>6. \A x \in Group \ {s} : Kept(x)
  BY <1>1, <1>3, <1>4, UntouchedIsKept
<1> QED
  BY <1>2, <1>3, <1>4, <1>5, <1>6, PlainStepKeeps

-----------------------------------------------------------------------------
(* The timer of a sentinel in its group.                                   *)

\* sentinelAskMasterStateToOtherSentinels asks the peers of a sentinel, which are
\* of its group.
LEMMA AskedIsGood ==
  ASSUME NEW g, NEW s, NEW st, st.epoch \in Nat, st.epoch <= MaxEpoch, DOMAIN st.peers \subseteq g \ {s},
         NEW l, GoodRow(g, s, l)
  PROVE  GoodRow(g, s, Asked(s, st, l))
BY DEF GoodRow, Asked, Question

\* Only the questions of one sentinel change.
LEMMA NewRowIsGood ==
  ASSUME NEW g, NEW lk, GoodQuestions(g, lk), NEW s \in Group, NEW l, GoodRow(g, s, l)
  PROVE  GoodQuestions(g, [lk EXCEPT ![s] = l])
BY DEF GoodQuestions

\* What the timer does to the record: looks at the master (early), may start a
\* failover (begun), advances it (done), and may end it (v).
TickRuns(s, early, begun, done, v) ==
  /\ Goes(sent[s], early, Calm(s)) /\ early.epoch = sent[s].epoch /\ early.foEpoch = sent[s].foEpoch
  /\ early.foState = sent[s].foState /\ (InProgress(early) <=> InProgress(sent[s]))
  /\ \/ begun = early
     \/ /\ ~InProgress(early) /\ InProgress(begun) /\ begun.foState = 1
        /\ begun.foEpoch = early.epoch + 1
  /\ Goes(sent[s], begun, Calm(s)) /\ Goes(sent[s], done, Calm(s)) /\ Goes(sent[s], v, Calm(s))
  /\ Turns(begun, done) /\ (begun.foState = 1 /\ done.foState = 2 => Elected(s, begun, done))
  /\ v.foState # 6
  /\ InProgress(v) => InProgress(done) /\ v.foState = done.foState /\ v.foEpoch = done.foEpoch
  /\ done.foState = 2 => v.leader = done.leader /\ v.leaderEpoch = done.leaderEpoch
  /\ Put(s, v)
  /\ won' = IF begun.foState = 1 /\ done.foState = 2 /\ "force" \notin begun.flags
            THEN won \cup {Win(s, done)} ELSE won
  /\ GoodQuestions(setup.group, link') /\ UNCHANGED <<setup, hello, meddled, crossed>>

\* sentinelTimer does what TickRuns says.
LEMMA TickRunsSo ==
  ASSUME GroupInv, NEW s \in Group, Tick(s)
  PROVE  \E early, begun, done, v : TickRuns(s, early, begun, done, v)
<1>1. PICK late \in Silence(s, sent[s]),
           waited \in When(sent[s].delayed /\ sent[s].foState = None),
           expired \in When(sent[s].foState \in WaitStart..ReconfSlaves),
           slow \in When(sent[s].foState = ReconfSlaves),
           stale \in IF setup.lossy THEN SUBSET Unheard(s) ELSE {{}},
           fit \in IF sent[s].foState = SelectSlave
                   THEN SUBSET DOMAIN sent[s].slaves ELSE {{}} :
        LET clock == [late |-> late, expired |-> expired, slow |-> slow,
                      stale |-> stale, fit |-> fit]
            st1 == CheckSubjectivelyDown(
                     [sent[s] EXCEPT !.tilt = FALSE,
                                     !.delayed = sent[s].delayed /\ ~waited], clock)
            st2 == CheckObjectivelyDown(st1)
            st3 == StartFailoverIfNeeded(st2)
            lks == IF Startable(st2) THEN Asked(s, st3, link[s]) ELSE link[s]
            fronts == IF st3.foState = WaitStart /\ MostVoted(st3) # {}
                      THEN MostVoted(st3) ELSE {Nil}
            picks == IF st3.foState = SelectSlave /\ Suitable(st3, clock) # {}
                     THEN Suitable(st3, clock) ELSE {Nil}
        IN  \E front \in fronts, pick \in picks :
              LET now == [late |-> late, expired |-> expired, slow |-> slow,
                          stale |-> stale, fit |-> fit, front |-> front,
                          pick |-> pick]
                  r == FailoverStateMachine(s, st3, now)
                  st4 == ForgetStale(r.st, stale)
              IN  /\ Put(s, SwitchToPromotedSlave(st4))
                  /\ link' = [link EXCEPT ![s] = Asked(s, st4, lks)]
                  /\ orders' = orders \cup r.out
                  /\ won' = IF /\ st3.foState = WaitStart
                               /\ r.st.foState = SelectSlave
                               /\ "force" \notin st3.flags
                            THEN won \cup {Win(s, r.st)} ELSE won
                  /\ UNCHANGED <<setup, hello, replOf, down, faults, meddled, crossed>>
  BY Zenon DEF Tick
<1> DEFINE clock == [late |-> late, expired |-> expired, slow |-> slow,
                     stale |-> stale, fit |-> fit]
           st0 == [sent[s] EXCEPT !.tilt = FALSE, !.delayed = sent[s].delayed /\ ~waited]
           st1 == CheckSubjectivelyDown(st0, clock)
           st2 == CheckObjectivelyDown(st1)
           st3 == StartFailoverIfNeeded(st2)
           lks == IF Startable(st2) THEN Asked(s, st3, link[s]) ELSE link[s]
           Now(front, pick) == [late |-> late, expired |-> expired, slow |-> slow,
                                stale |-> stale, fit |-> fit, front |-> front, pick |-> pick]
           fronts == IF st3.foState = WaitStart /\ MostVoted(st3) # {}
                     THEN MostVoted(st3) ELSE {Nil}
           picks == IF st3.foState = SelectSlave /\ Suitable(st3, clock) # {}
                    THEN Suitable(st3, clock) ELSE {Nil}
<1>2. PICK front \in fronts, pick \in picks :
        LET r == FailoverStateMachine(s, st3, Now(front, pick))
            st4 == ForgetStale(r.st, stale)
        IN  /\ Put(s, SwitchToPromotedSlave(st4))
            /\ link' = [link EXCEPT ![s] = Asked(s, st4, lks)]
            /\ orders' = orders \cup r.out
            /\ won' = IF /\ st3.foState = WaitStart
                         /\ r.st.foState = SelectSlave
                         /\ "force" \notin st3.flags
                      THEN won \cup {Win(s, r.st)} ELSE won
            /\ UNCHANGED <<setup, hello, replOf, down, faults, meddled, crossed>>
  BY <1>1, Zenon
<1> DEFINE now == Now(front, pick)
           st5 == FailoverStateMachine(s, st3, now).st
           st4 == ForgetStale(st5, stale)
           st6 == SwitchToPromotedSlave(st4)
<1>3. /\ Put(s, st6) /\ link' = [link EXCEPT ![s] = Asked(s, st4, lks)]
      /\ won' = IF st3.foState = 1 /\ st5.foState = 2 /\ "force" \notin st3.flags
                THEN won \cup {Win(s, st5)} ELSE won
      /\ UNCHANGED <<setup, hello, meddled, crossed>>
  BY <1>2 DEF WaitStart, SelectSlave
<1>4. GoodNow(st3, now)
  <2>1. Suitable(st3, now) = Suitable(st3, clock)
    BY DEF Suitable
  <2> QED
    BY <2>1 DEF GoodNow
<1> HIDE DEF fronts, picks, now, clock, Now
<1>5. /\ Calm(s) \in BOOLEAN /\ GoodRecord(sent[s], Calm(s)) /\ GoodRow(setup.group, s, link[s])
      /\ DOMAIN sent[s] = Fields /\ Met(sent[s]) /\ DOMAIN sent[s].peers \subseteq setup.group \ {s}
  BY DEF Calm, GroupInv, RecordInv, VoteInv, Electorate, GoodQuestions, GoodRecord, Live
<1>6. Goes(sent[s], st0, Calm(s)) /\ Alike(sent[s], st0) /\ SamePhase(sent[s], st0)
  <2>1. Alike(sent[s], st0) /\ SamePhase(sent[s], st0)
    BY <1>5, QuietEdits
  <2> QED
    BY <1>5, <2>1, AlikeGoes
<1> HIDE DEF st0
<1>7. Goes(sent[s], st1, Calm(s)) /\ Alike(st0, st1) /\ SamePhase(st0, st1)
  <2>1. GoodRecord(st0, Calm(s)) /\ DOMAIN st0 = Fields /\ Met(st0)
    BY <1>6 DEF Goes, GoodRecord, Live
  <2>2. Alike(st0, st1) /\ SamePhase(st0, st1)
    BY <2>1, QuietEdits
  <2>3. Goes(st0, st1, Calm(s))
    BY <1>5, <2>1, <2>2, AlikeGoes
  <2> QED
    BY <1>5, <1>6, <2>2, <2>3, GoesTwice
<1> HIDE DEF st1
<1>8. Goes(sent[s], st2, Calm(s)) /\ Alike(st1, st2) /\ SamePhase(st1, st2)
  <2>1. GoodRecord(st1, Calm(s)) /\ DOMAIN st1 = Fields /\ Met(st1)
    BY <1>7 DEF Goes, GoodRecord, Live
  <2>2. Alike(st1, st2) /\ SamePhase(st1, st2)
    BY <2>1, QuietEdits
  <2>3. Goes(st1, st2, Calm(s))
    BY <1>5, <2>1, <2>2, AlikeGoes
  <2> QED
    BY <1>5, <1>7, <2>2, <2>3, GoesTwice
<1> HIDE DEF st2
<1>9. /\ st2.epoch = sent[s].epoch /\ st2.foEpoch = sent[s].foEpoch /\ st2.foState = sent[s].foState
      /\ InProgress(st2) <=> InProgress(sent[s])
  BY <1>6, <1>7, <1>8 DEF Alike, SamePhase
<1>10. /\ Goes(sent[s], st3, Calm(s))
       /\ \/ st3 = st2
          \/ ~InProgress(st2) /\ InProgress(st3) /\ st3.foState = 1 /\ st3.foEpoch = st2.epoch + 1
  <2>1. GoodRecord(st2, Calm(s)) /\ Goes(st2, st2, Calm(s))
    BY <1>5, <1>8, StayingGoes DEF Goes
  <2>2. CASE Startable(st2)
    <3>1. st2.epoch < MaxEpoch /\ ~InProgress(st2)
      BY <2>1, <2>2, SentinelAssumption, ElectionAssumption
         DEF Startable, InProgress, GroupInv, RecordInv, GoodRecord, Live
    <3>2. st3 = StartFailover(st2)
      BY <2>2 DEF StartFailoverIfNeeded
    <3>3. Goes(st2, st3, Calm(s)) /\ InProgress(st3) /\ st3.foEpoch = st2.epoch + 1 /\ st3.foState = WaitStart
      BY <1>5, <2>1, <3>1, <3>2, StartFailoverGoes
    <3> QED
      BY <1>5, <1>8, <3>1, <3>3, GoesTwice DEF WaitStart
  <2>3. CASE ~Startable(st2)
    BY <1>8, <2>3 DEF StartFailoverIfNeeded
  <2> QED
    BY <2>2, <2>3
<1>11. GoodRow(setup.group, s, lks)
  <2>1. st3.epoch \in Nat /\ st3.epoch <= MaxEpoch /\ DOMAIN st3.peers \subseteq setup.group \ {s}
    BY <1>5, <1>10 DEF Goes, GoodRecord, Live, Shaped, Handles, SamePeers
  <2> HIDE DEF st3
  <2> QED
    BY <1>5, <2>1, AskedIsGood
<1> HIDE DEF st3, lks
<1>12. Goes(sent[s], st5, Calm(s)) /\ Advances(s, st3, st5, Calm(s))
  <2>1. GoodRecord(st3, Calm(s))
    BY <1>10 DEF Goes
  <2>2. Advances(s, st3, st5, Calm(s))
    BY <1>4, <1>5, <2>1, StateMachineAdvances
  <2> QED
    BY <1>5, <1>10, <2>2, GoesTwice DEF Advances
<1> HIDE DEF st5
<1>13. Goes(sent[s], st4, Calm(s)) /\ Alike(st5, st4) /\ SamePhase(st5, st4)
  <2>1. GoodRecord(st5, Calm(s)) /\ DOMAIN st5 = Fields /\ Met(st5)
    BY <1>12 DEF Goes, GoodRecord, Live
  <2>2. Alike(st5, st4) /\ SamePhase(st5, st4)
    BY <2>1, QuietEdits
  <2>3. Goes(st5, st4, Calm(s))
    BY <1>5, <2>1, <2>2, AlikeGoes
  <2> QED
    BY <1>5, <1>12, <2>2, <2>3, GoesTwice
<1> HIDE DEF st4
<1>14. GoodQuestions(setup.group, link')
  <2>1. st4.epoch \in Nat /\ st4.epoch <= MaxEpoch /\ DOMAIN st4.peers \subseteq setup.group \ {s}
    BY <1>5, <1>13 DEF Goes, GoodRecord, Live, Shaped, Handles, SamePeers
  <2>2. GoodRow(setup.group, s, Asked(s, st4, lks))
    BY <1>11, <2>1, AskedIsGood
  <2> QED
    BY <1>3, <2>2, NewRowIsGood DEF GroupInv, RecordInv
<1>15. /\ Goes(sent[s], st6, Calm(s)) /\ st6.foState # 6 /\ (st6 = st4 \/ ~InProgress(st6))
       /\ st4.foState # 6 => st6 = st4
  <2>1. GoodRecord(st4, Calm(s))
    BY <1>13 DEF Goes
  <2>2. /\ Goes(st4, st6, Calm(s)) /\ st6.foState # 6 /\ (st6 = st4 \/ ~InProgress(st6))
        /\ st4.foState # 6 => st6 = st4
    BY <1>5, <2>1, SwitchGoes
  <2> QED
    BY <1>5, <1>13, <2>2, GoesTwice
<1> HIDE DEF st6
<1>16. /\ InProgress(st6) => InProgress(st5) /\ st6.foState = st5.foState /\ st6.foEpoch = st5.foEpoch
       /\ st5.foState = 2 => st6.leader = st5.leader /\ st6.leaderEpoch = st5.leaderEpoch
  BY <1>13, <1>15 DEF Alike, SamePhase
<1>17. TickRuns(s, st2, st3, st5, st6)
  BY <1>3, <1>8, <1>9, <1>10, <1>12, <1>13, <1>14, <1>15, <1>16 DEF TickRuns, Advances
<1> QED
  BY <1>17

\* sentinelTimer keeps the invariant: a sentinel that wins an election has a
\* majority, and nobody has a configuration of its epoch.
LEMMA TickKeeps ==
  ASSUME GroupInv, NEW s \in Group, s \in setup.group, Tick(s)
  PROVE  GroupInv' /\ ConfigStep
<1>1. PICK early, begun, done, v : TickRuns(s, early, begun, done, v)
  BY TickRunsSo
<1>2. /\ DOMAIN sent' = Group /\ sent'[s] = v /\ \A x \in Group \ {s} : sent'[x] = sent[x]
      /\ cast' = cast \cup Ballot(s, sent[s], v)
  BY <1>1 DEF TickRuns, Put, GroupInv, RecordInv
<1>3. RestKept /\ NoMoreCalm
  BY <1>1, <1>2 DEF TickRuns, RestKept, NoMoreCalm, Calm, GroupInv, RecordInv
<1>4. CastKept /\ Ballot(s, sent[s], sent'[s]) \subseteq cast'
  BY <1>2 DEF CastKept
<1>5. KeptRecord(s) /\ Pairs(sent'[s]) \subseteq Announced
  BY <1>1, <1>2, <1>4, GoingIsKept DEF TickRuns
<1>6. \A x \in Group \ {s} : Kept(x)
  BY <1>2, <1>3, <1>4, UntouchedIsKept
<1>7. RecordInv' /\ VoteInv' /\ ConfigStep
  <2>1. \A x \in Group : KeptRecord(x)
    BY <1>5, <1>6 DEF Kept
  <2> QED
    BY <1>3, <1>4, <2>1, RecordsKeep DEF GroupInv
<1>8. GoodRecord(sent[s], Calm(s)) /\ GoodRecord(begun, Calm(s)) /\ GoodRecord(done, Calm(s)) /\ GoodRecord(v, Calm(s))
  BY <1>1 DEF TickRuns, Goes, GroupInv, RecordInv
<1> DEFINE elected == begun.foState = 1 /\ done.foState = 2 /\ "force" \notin begun.flags
           win == Win(s, done)
<1>9. won' = IF elected THEN won \cup {win} ELSE won
  BY <1>1 DEF TickRuns
<1>10. win.epoch = done.foEpoch /\ win.leader = s /\ (win.fresh <=> done.epoch = done.foEpoch)
  BY DEF Win
<1>11. ASSUME elected, win.fresh
       PROVE  /\ win.leader \in Group /\ win.epoch \in Nat /\ win.epoch <= v.leaderEpoch
              /\ meddled' = {} => Backed(setup'.group, cast', win)
  <2>1. done.epoch = done.foEpoch /\ done.foEpoch \in Nat /\ done.leaderEpoch = v.leaderEpoch /\ v.leader = done.leader
    BY <1>1, <1>8, <1>10, <1>11 DEF TickRuns, GoodRecord, Live
  <2>2. Elected(s, begun, done) /\ "force" \notin begun.flags
    BY <1>1, <1>11 DEF TickRuns
  <2>3. win.epoch <= v.leaderEpoch
    BY <1>8, <1>10, <2>1, <2>2 DEF Elected, GoodRecord, Live
  <2>4. ASSUME meddled' = {} PROVE Backed(setup'.group, cast', win)
    <3>1. meddled = {} /\ setup' = setup
      BY <1>1, <2>4 DEF TickRuns
    <3>2. SamePeers(sent[s], done) /\ DOMAIN sent[s].peers = setup.group \ {s} /\ Told(sent[s], cast)
      BY <1>1, <3>1 DEF TickRuns, Goes, Handles, GroupInv, VoteInv, Electorate
    <3>3. DOMAIN done.peers = setup.group \ {s} /\ Told(done, cast')
      BY <1>4, <3>2 DEF SamePeers, Told, CastKept
    <3>4. OwnVote(s, done, cast')
      BY <1>2, <1>7, <2>1 DEF VoteInv, OwnVote
    <3>5. PICK front : Winner(done, done.foEpoch, front) = s
      BY <2>2 DEF Elected
    <3>6. IsFiniteSet(setup.group) /\ setup.group \subseteq Sentinels
      BY GroupIsFinite, SentinelAssumption DEF GroupInv
    <3>7. Backed(setup.group, cast', Win(s, done))
      BY <2>1, <3>3, <3>4, <3>5, <3>6, WinnerIsBacked
    <3> QED
      BY <3>1, <3>7
  <2> QED
    BY <1>10, <2>1, <2>3, <2>4
<1> HIDE DEF win
<1>12. WonInv'
  <2> SUFFICES ASSUME NEW w \in won', w.fresh
               PROVE  /\ w.leader \in Group /\ w.epoch \in Nat /\ w.epoch <= sent'[w.leader].leaderEpoch
                      /\ meddled' = {} => Backed(setup'.group, cast', w)
    BY DEF WonInv
  <2>1. CASE w \in won
    <3>1. /\ w.leader \in Group /\ w.epoch \in Nat /\ w.epoch <= sent[w.leader].leaderEpoch
          /\ meddled = {} => Backed(setup.group, cast, w)
      BY <2>1 DEF GroupInv, WonInv
    <3>2. /\ sent'[w.leader].leaderEpoch >= sent[w.leader].leaderEpoch
          /\ sent[w.leader].leaderEpoch \in Nat /\ sent'[w.leader].leaderEpoch \in Nat
      BY <1>7, <3>1 DEF ConfigStep, Fine, GroupInv, RecordInv, GoodRecord, Live
    <3>3. w.epoch <= sent'[w.leader].leaderEpoch
      BY <3>1, <3>2
    <3>4. Backed(setup.group, cast, w) => Backed(setup.group, cast', w)
      BY <1>4, GroupIsFinite, BackedStays DEF CastKept, GroupInv
    <3> QED
      BY <1>3, <3>1, <3>3, <3>4 DEF RestKept, NoMoreCalm
  <2>2. CASE w = win /\ elected
    BY <1>2, <1>10, <1>11, <2>2
  <2> QED
    BY <1>9, <2>1, <2>2
<1>13. ConfInv'
  <2> SUFFICES ASSUME Quiet'
               PROVE  /\ \A x \in Group : Undecided(x, sent'[x], Announced', won')
                      /\ Known(Announced', won') /\ Agreeing(Announced')
    BY DEF ConfInv
  <2>1. won \subseteq won' /\ Quiet /\ meddled = {} /\ meddled' = {}
    BY <1>3, <1>9 DEF Quiet, NoMoreCalm
  <2>2. /\ \A x \in Group : Undecided(x, sent[x], Announced, won)
        /\ Known(Announced, won) /\ Agreeing(Announced)
    BY <2>1 DEF GroupInv, ConfInv
  <2>3. Announced' \subseteq Announced
    <3>1. \A x \in Group : Pairs(sent'[x]) \subseteq Announced
      BY <1>2, <1>5, PairsAreAnnounced
    <3>2. hello' = Nil \/ <<hello'.configEpoch, hello'.addr>> \in Announced
      BY <1>1, PairsAreAnnounced DEF TickRuns
    <3> QED
      BY <3>1, <3>2, AnnouncedWithin
  <2>4. Known(Announced', won') /\ Agreeing(Announced')
    BY <2>1, <2>2, <2>3 DEF Known, Agreeing
  <2>5. \A x \in Group \ {s} : Undecided(x, sent'[x], Announced', won')
    <3> TAKE x \in Group \ {s}
    <3>1. sent'[x] = sent[x] /\ Undecided(x, sent[x], Announced, won)
      BY <1>2, <2>2
    <3>2. \A w \in won' : w.leader = x => w \in won
      BY <1>9, <1>10
    <3> QED
      BY <2>1, <2>3, <3>1, <3>2 DEF Undecided
  <2>6. ASSUME InProgress(v) PROVE Undecided(s, v, Announced', won')
    <3>1. /\ InProgress(done) /\ v.foState = done.foState /\ v.foEpoch = done.foEpoch
          /\ InProgress(begun) /\ done.foEpoch = begun.foEpoch
          /\ \/ done.foState = begun.foState
             \/ begun.foState = 1 /\ done.foState = 2
             \/ begun.foState \in 2..4 /\ done.foState \in 2..4
             \/ begun.foState >= 5 /\ done.foState >= 5
      BY <1>1, <2>6 DEF TickRuns, Turns
    <3>2. Undecided(s, sent[s], Announced, won)
      BY <2>2
    <3>3. /\ \A w \in won : w.fresh
          /\ sent[s].leaderEpoch \in Nat /\ sent[s].epoch \in Nat /\ sent[s].leaderEpoch <= sent[s].epoch
          /\ \A w \in won : w.leader = s => w.epoch \in Nat /\ w.epoch <= sent[s].leaderEpoch
      BY <1>8, <2>1 DEF Quiet, GroupInv, WonInv, GoodRecord, Live
    <3>4. \/ /\ InProgress(sent[s]) /\ begun.foState = sent[s].foState /\ begun.foEpoch = sent[s].foEpoch
          \/ begun.foState = 1 /\ begun.foEpoch = sent[s].epoch + 1
      BY <1>1, <3>1 DEF TickRuns
    <3>5. begun.foEpoch > 0 /\ (begun.foState = 1 => \A w \in won : w.leader = s => w.epoch < begun.foEpoch)
      <4>1. CASE /\ InProgress(sent[s]) /\ begun.foState = sent[s].foState /\ begun.foEpoch = sent[s].foEpoch
        BY <3>2, <4>1 DEF Undecided
      <4>2. CASE begun.foState = 1 /\ begun.foEpoch = sent[s].epoch + 1
        BY <3>3, <4>2
      <4> QED
        BY <3>4, <4>1, <4>2
    <3>6. begun.foState \in 0..6 /\ begun.foState # 0
      BY <1>8, <3>1 DEF GoodRecord, Shaped
    <3>7. CASE begun.foState = 1 /\ v.foState = 1
      <4>1. won' = won
        BY <1>9, <3>1, <3>7
      <4> QED
        BY <3>1, <3>5, <3>7, <4>1 DEF Undecided
    <3>8. CASE begun.foState = 1 /\ v.foState = 2
      <4>1. "force" \notin begun.flags
        BY <1>1, <2>1 DEF TickRuns, Goes, Handles, GroupInv, VoteInv, Electorate
      <4>2. win \in won' /\ win.epoch = v.foEpoch /\ win.leader = s
        BY <1>9, <1>10, <3>1, <3>8, <4>1
      <4>3. \A a \in Announced' : a[1] # v.foEpoch
        <5> SUFFICES ASSUME NEW a \in Announced', a[1] = v.foEpoch PROVE FALSE
          OBVIOUS
        <5>1. v.foEpoch = begun.foEpoch /\ a[1] # 0 /\ a \in Announced
          BY <2>3, <3>1, <3>5
        <5>2. PICK w \in won : w.epoch = a[1]
          BY <2>2, <5>1 DEF Known
        <5>3. w \in won' /\ w.fresh /\ win.fresh
          BY <2>1, <4>2 DEF Quiet
        <5>4. w.leader = s
          <6>1. WonInv' /\ RecordInv' /\ VoteInv' /\ meddled' = {}
            BY <1>7, <1>12, <2>1
          <6>2. Backed(setup'.group, cast', w) /\ Backed(setup'.group, cast', win)
            BY <4>2, <5>3, <6>1 DEF WonInv
          <6>3. IsFiniteSet(setup'.group)
            BY <1>3, GroupIsFinite DEF RestKept, GroupInv
          <6>4. \A x, y \in cast' : x[1] = y[1] /\ x[2] = y[2] => x[3] = y[3]
            BY <6>1 DEF VoteInv
          <6>5. w.leader = win.leader
            BY <4>2, <5>2, <6>2, <6>3, <6>4, OneWinner
          <6> QED
            BY <4>2, <6>5
        <5> QED
          BY <3>5, <3>8, <5>1, <5>2, <5>4, <3>3
      <4> QED
        BY <3>1, <3>5, <3>8, <4>2, <4>3 DEF Undecided
    <3>9. CASE begun.foState >= 2
      <4>1. InProgress(sent[s]) /\ begun.foState = sent[s].foState /\ begun.foEpoch = sent[s].foEpoch
        BY <3>4, <3>6, <3>9
      <4>2. won' = won /\ v.foState >= 2 /\ (v.foState \in 2..4 => begun.foState \in 2..4)
        <5>1. begun.foState \in {2, 3, 4, 5, 6} /\ v.foState = done.foState
          BY <3>1, <3>6, <3>9
        <5>2. begun.foState # 1
          BY <5>1
        <5>3. won' = won
          BY <1>9, <5>2
        <5>4. CASE begun.foState \in 2..4
          <6>1. done.foState \in 2..4
            BY <3>1, <5>2, <5>4
          <6> QED
            BY <5>1, <5>3, <5>4, <6>1
        <5>5. CASE begun.foState >= 5
          <6>1. done.foState >= 5 /\ done.foState \in 0..6
            BY <1>8, <3>1, <5>1, <5>5 DEF GoodRecord, Shaped
          <6> QED
            BY <5>1, <5>3, <5>5, <6>1
        <5> QED
          BY <5>1, <5>4, <5>5
      <4>3. v.foEpoch = sent[s].foEpoch /\ InProgress(sent[s])
        BY <3>1, <4>1
      <4> QED
        BY <2>3, <3>2, <3>9, <4>1, <4>2, <4>3 DEF Undecided
    <3>10. begun.foState = 1 => v.foState = 1 \/ v.foState = 2
      BY <3>1
    <3> QED
      BY <3>6, <3>7, <3>8, <3>9, <3>10
  <2>7. Undecided(s, v, Announced', won')
    BY <2>6 DEF Undecided
  <2> QED
    BY <1>2, <2>4, <2>5, <2>7
<1> QED
  BY <1>7, <1>12, <1>13 DEF GroupInv

-----------------------------------------------------------------------------
(* Votes that are asked for, and hellos.                                   *)

\* sentinelReceiveIsMasterDownReply: only what is known of the peer changes.
LEMMA ReplyChangesThePeer ==
  ASSUME NEW st, NEW calm \in BOOLEAN, GoodRecord(st, calm), NEW t, NEW a
  PROVE  LET v == MasterDownReply(st, t, a)
         IN  /\ GoodRecord(v, calm) /\ v.foState = st.foState /\ v.flags = st.flags /\ v.foEpoch = st.foEpoch
             /\ v.leaderEpoch = st.leaderEpoch /\ v.leader = st.leader /\ v.configEpoch = st.configEpoch
             /\ v.disk = st.disk /\ CurrentMasterAddress(v) = CurrentMasterAddress(st)
             /\ DOMAIN v.peers = DOMAIN st.peers
             /\ \A x \in DOMAIN st.peers :
                  \/ v.peers[x].leader = st.peers[x].leader /\ v.peers[x].epoch = st.peers[x].epoch
                  \/ x = t /\ a.leader # Nil /\ v.peers[x].leader = a.leader /\ v.peers[x].epoch = a.epoch
<1> DEFINE v == MasterDownReply(st, t, a)
           q == [masterDown |-> a.isdown,
                 leader |-> IF a.leader = Nil THEN st.peers[t].leader ELSE a.leader,
                 epoch |-> IF a.leader = Nil THEN st.peers[t].epoch ELSE a.epoch]
           peers == [st.peers EXCEPT ![t] = q]
<1>1. v = IF t \in DOMAIN st.peers THEN [st EXCEPT !.peers = peers] ELSE st
  BY DEF MasterDownReply
<1>2. CASE t \notin DOMAIN st.peers
  BY <1>1, <1>2
<1>3. CASE t \in DOMAIN st.peers
  <2>1. /\ DOMAIN peers = DOMAIN st.peers /\ peers[t] = q
        /\ \A x \in DOMAIN st.peers : x # t => peers[x] = st.peers[x]
    BY <1>3
  <2>2. /\ DOMAIN q = PeerFields /\ q.leader = (IF a.leader = Nil THEN st.peers[t].leader ELSE a.leader)
        /\ q.epoch = (IF a.leader = Nil THEN st.peers[t].epoch ELSE a.epoch)
    BY DEF PeerFields
  <2> HIDE DEF q, peers
  <2>3. DOMAIN st = Fields
    BY DEF GoodRecord, Live
  <2>4. v = [st EXCEPT !.peers = peers]
    BY <1>1, <1>3
  <2> HIDE DEF v
  <2>5. /\ DOMAIN v = Fields /\ v.peers = peers /\ v.epoch = st.epoch /\ v.addr = st.addr
        /\ v.configEpoch = st.configEpoch /\ v.leader = st.leader /\ v.leaderEpoch = st.leaderEpoch
        /\ v.foEpoch = st.foEpoch /\ v.foState = st.foState /\ v.promoted = st.promoted
        /\ v.flags = st.flags /\ v.slaves = st.slaves /\ v.disk = st.disk
    BY <2>3, <2>4 DEF Fields
  <2>6. CurrentMasterAddress(v) = CurrentMasterAddress(st)
    BY <2>5 DEF CurrentMasterAddress
  <2>7. Live(v, calm) /\ Shaped(v)
    BY <2>5 DEF GoodRecord, Live, Shaped, InProgress
  <2>8. Met(v)
    BY <2>1, <2>2, <2>5 DEF GoodRecord, Met
  <2>9. Saved(v, calm)
    BY <2>5, <2>6 DEF GoodRecord, Saved
  <2>10. \A x \in DOMAIN st.peers :
           \/ v.peers[x].leader = st.peers[x].leader /\ v.peers[x].epoch = st.peers[x].epoch
           \/ x = t /\ a.leader # Nil /\ v.peers[x].leader = a.leader /\ v.peers[x].epoch = a.epoch
    BY <2>1, <2>2, <2>5
  <2> QED
    BY <2>1, <2>5, <2>6, <2>7, <2>8, <2>9, <2>10 DEF GoodRecord, v
<1> QED
  BY <1>2, <1>3

\* is-master-down-by-addr: the vote at t, the answer at s.
LEMMA IsMasterDownKeeps ==
  ASSUME GroupInv, NEW s \in Group, NEW t \in Group, NEW lost \in BOOLEAN, IsMasterDownByAddr(s, t, lost)
  PROVE  GroupInv' /\ ConfigStep
<1> DEFINE q == link[s][t]
           a == Answer(t, q)
           b == IF lost THEN sent[s] ELSE MasterDownReply(sent[s], t, a)
<1>1. /\ q # Nil /\ sent' = [sent EXCEPT ![t] = a.st, ![s] = b]
      /\ cast' = cast \cup Ballot(t, sent[t], a.st)
      /\ link' = [link EXCEPT ![s] = [link[s] EXCEPT ![t] = Nil]]
      /\ UNCHANGED <<setup, hello, meddled, crossed, won>>
  BY DEF IsMasterDownByAddr
<1>2. q.epoch \in Nat /\ q.epoch <= MaxEpoch /\ t # s
  BY <1>1 DEF GroupInv, RecordInv, GoodQuestions, GoodRow
<1>3. \A x \in Group : /\ Calm(x) \in BOOLEAN /\ GoodRecord(sent[x], Calm(x)) /\ sent[x].foState # 6
                       /\ Goes(sent[x], sent[x], Calm(x)) /\ Calm(x)' = Calm(x)
  BY <1>1, StayingGoes DEF Calm, GroupInv, RecordInv
<1>4. Goes(sent[t], a.st, Calm(t)) /\ Still(sent[t], a.st) /\ a.st.foState = sent[t].foState
  <2> HIDE DEF q
  <2>1. /\ Goes(sent[t], SentinelVote(t, sent[t], q.epoch, q.cand), Calm(t))
        /\ Voted(sent[t], SentinelVote(t, sent[t], q.epoch, q.cand))
    BY <1>2, <1>3, SentinelVoteGoes
  <2>2. a.st = SentinelVote(t, sent[t], q.epoch, q.cand) \/ a.st = sent[t]
    BY DEF Answer
  <2> HIDE DEF a
  <2> QED
    BY <1>3, <2>1, <2>2 DEF Voted, SamePhase, Still
<1>5. a.leader = Nil \/ (a.leader = a.st.leader /\ a.epoch = a.st.leaderEpoch)
  <2> HIDE DEF q
  <2> QED
    BY DEF Answer
<1> HIDE DEF a
<1>6. /\ GoodRecord(b, Calm(s)) /\ b.foState = sent[s].foState /\ b.flags = sent[s].flags
      /\ b.foEpoch = sent[s].foEpoch /\ b.leaderEpoch = sent[s].leaderEpoch /\ b.leader = sent[s].leader
      /\ b.configEpoch = sent[s].configEpoch /\ b.disk = sent[s].disk
      /\ CurrentMasterAddress(b) = CurrentMasterAddress(sent[s])
      /\ DOMAIN b.peers = DOMAIN sent[s].peers
      /\ \A x \in DOMAIN sent[s].peers :
           \/ b.peers[x].leader = sent[s].peers[x].leader /\ b.peers[x].epoch = sent[s].peers[x].epoch
           \/ x = t /\ a.leader # Nil /\ b.peers[x].leader = a.leader /\ b.peers[x].epoch = a.epoch
  <2>1. CASE lost
    BY <1>3, <2>1
  <2>2. CASE ~lost
    BY <1>3, <2>2, ReplyChangesThePeer
  <2> QED
    BY <2>1, <2>2
<1> HIDE DEF b
<1>7. /\ DOMAIN sent' = Group /\ sent'[s] = b /\ sent'[t] = a.st
      /\ \A x \in Group \ {s, t} : sent'[x] = sent[x]
  BY <1>1, <1>2 DEF GroupInv, RecordInv
<1>8. CastKept /\ Ballot(t, sent[t], sent'[t]) \subseteq cast'
  BY <1>1, <1>7 DEF CastKept
<1>9. NoMoreCalm
  BY <1>1 DEF NoMoreCalm, Calm
<1>10. Kept(t)
  BY <1>1, <1>3, <1>4, <1>7, <1>8, GoingIsKept DEF Kept
<1>11. Kept(s)
  <2>1. Fine(sent[s], b, Calm(s)) /\ VoteUp(sent[s], b)
    BY <1>3, <1>6 DEF Fine, VoteUp, GoodRecord, Live
  <2>2. Electorate(setup.group, s, b, meddled' # {})
    BY <1>1, <1>6 DEF GroupInv, VoteInv, Electorate
  <2>3. OwnVote(t, a.st, cast')
    <3>1. OwnVote(t, sent[t], cast)
      BY DEF GroupInv, VoteInv
    <3> QED
      BY <1>1, <3>1 DEF OwnVote, Ballot
  <2>4. Told(b, cast')
    <3>1. Told(sent[s], cast)
      BY DEF GroupInv, VoteInv
    <3> QED
      BY <1>1, <1>5, <1>6, <2>3, <3>1 DEF Told, OwnVote
  <2>5. Ballot(s, sent[s], b) = {}
    BY <1>6 DEF Ballot
  <2>6. Still(sent[s], b) /\ Pairs(b) = Pairs(sent[s])
    BY <1>6 DEF Still, InProgress, Pairs
  <2> QED
    BY <1>3, <1>6, <1>7, <2>1, <2>2, <2>4, <2>5, <2>6, PairsAreAnnounced DEF Kept, KeptRecord
<1>12. \A x \in Group \ {s, t} : Kept(x)
  BY <1>7, <1>8, <1>9, UntouchedIsKept
<1>13. RestKept
  <2>1. GoodRow(setup.group, s, [link[s] EXCEPT ![t] = Nil])
    BY DEF GroupInv, RecordInv, GoodQuestions, GoodRow
  <2> QED
    BY <1>1, <1>7, <2>1, NewRowIsGood DEF GroupInv, RecordInv, RestKept
<1> QED
  BY <1>1, <1>8, <1>9, <1>10, <1>11, <1>12, <1>13, PlainStepKeeps

\* sentinelSendHello announces what its sentinel holds.
LEMMA SendHelloKeeps ==
  ASSUME GroupInv, NEW s \in Group, s \in setup.group, SendHello(s)
  PROVE  GroupInv' /\ ConfigStep
<1>1. /\ hello'.epoch = sent[s].epoch /\ hello'.addr = CurrentMasterAddress(sent[s])
      /\ hello'.configEpoch = sent[s].configEpoch /\ hello'.from = s
      /\ UNCHANGED <<setup, sent, link, meddled, cast, won, crossed>>
  BY DEF SendHello
<1>2. GoodRecord(sent[s], Calm(s))
  BY DEF GroupInv, RecordInv
<1>3. CurrentMasterAddress(sent[s]) \in Redis
  BY <1>2 DEF GoodRecord, Shaped, CurrentMasterAddress
<1>4. GoodHello(setup.group, hello')
  BY <1>1, <1>2, <1>3 DEF GoodHello, GoodRecord, Live, Shaped
<1>5. <<hello'.configEpoch, hello'.addr>> \in Announced
  BY <1>1, PairsAreAnnounced DEF Pairs
<1>6. RestKept /\ CastKept /\ NoMoreCalm
  BY <1>1, <1>4 DEF GroupInv, RecordInv, RestKept, CastKept, NoMoreCalm, Calm
<1>7. \A x \in Group : Kept(x)
  BY <1>1, <1>6, UntouchedIsKept
<1> QED
  BY <1>1, <1>5, <1>6, <1>7, PlainStepKeeps
\* Who met a sentinel and knows a newer epoch: all else is as it was.
Meets(st, v, m) ==
  /\ v.leaderEpoch = st.leaderEpoch /\ v.leader = st.leader /\ v.configEpoch = st.configEpoch
  /\ v.addr = st.addr /\ v.flags = st.flags /\ v.foEpoch = st.foEpoch /\ SamePhase(st, v)
  /\ CurrentMasterAddress(v) = CurrentMasterAddress(st)
  /\ Pairs(v) \subseteq Pairs(st)
  /\ DOMAIN v.peers = DOMAIN st.peers \cup {m.from}
  /\ \A p \in DOMAIN v.peers : v.peers[p].leader = Nil \/ (p \in DOMAIN st.peers /\ v.peers[p] = st.peers[p])
  /\ v.disk.peers = st.disk.peers \/ v.disk.peers = DOMAIN v.peers

\* What a hello makes of a record.
Hears(st, v, m) ==
  /\ v.leaderEpoch = st.leaderEpoch /\ (v.leader = st.leader \/ v.leader = Nil)
  /\ DOMAIN v.peers = DOMAIN st.peers \cup {m.from}
  /\ \A p \in DOMAIN v.peers : v.peers[p].leader = Nil \/ (p \in DOMAIN st.peers /\ v.peers[p] = st.peers[p])
  /\ v.disk.peers = st.disk.peers \/ v.disk.peers = DOMAIN v.peers
  /\ "force" \in v.flags => "force" \in st.flags
  /\ (v.foState = st.foState \/ v.foState = 0) /\ Still(st, v)

\* A hello tells of a sentinel and of an epoch; what it tells is saved.
LEMMA MeetingKeeps ==
  ASSUME NEW st, NEW calm \in BOOLEAN, GoodRecord(st, calm), NEW m, m.epoch \in Nat, m.epoch <= MaxEpoch
  PROVE  LET met == IF m.from \in DOMAIN st.peers THEN st
                    ELSE FlushConfig([st EXCEPT !.peers =
                           [p \in DOMAIN st.peers \cup {m.from} |->
                              IF p = m.from THEN NewPeer ELSE st.peers[p]]])
             st1 == IF m.epoch > met.epoch
                    THEN FlushConfig([met EXCEPT !.epoch = m.epoch]) ELSE met
         IN  GoodRecord(st1, calm) /\ Meets(st, st1, m) /\ st1.epoch >= m.epoch
<1> DEFINE peers == [p \in DOMAIN st.peers \cup {m.from} |-> IF p = m.from THEN NewPeer ELSE st.peers[p]]
           met0 == [st EXCEPT !.peers = peers]
           met == IF m.from \in DOMAIN st.peers THEN st ELSE FlushConfig(met0)
           new0 == [met EXCEPT !.epoch = m.epoch]
           st1 == IF m.epoch > met.epoch THEN FlushConfig(new0) ELSE met
<1>1. /\ DOMAIN peers = DOMAIN st.peers \cup {m.from} /\ peers[m.from] = NewPeer
      /\ \A p \in DOMAIN st.peers : p # m.from => peers[p] = st.peers[p]
  OBVIOUS
<1> HIDE DEF peers
<1>2. DOMAIN st = Fields /\ DOMAIN NewPeer = PeerFields /\ NewPeer.leader = Nil
  BY DEF GoodRecord, Live, PeerFields, NewPeer
<1>3. GoodRecord(met, calm) /\ Meets(st, met, m)
  <2>1. CASE m.from \in DOMAIN st.peers
    <3>1. met = st
      BY <2>1
    <3> HIDE DEF met
    <3> QED
      BY <2>1, <3>1 DEF Meets, SamePhase, SameSlaves
  <2>2. CASE m.from \notin DOMAIN st.peers
    <3>1. /\ DOMAIN met0 = Fields /\ met0.peers = peers /\ met0.epoch = st.epoch /\ met0.addr = st.addr
          /\ met0.configEpoch = st.configEpoch /\ met0.leader = st.leader /\ met0.leaderEpoch = st.leaderEpoch
          /\ met0.foEpoch = st.foEpoch /\ met0.foState = st.foState /\ met0.promoted = st.promoted
          /\ met0.flags = st.flags /\ met0.slaves = st.slaves
      BY <1>2 DEF Fields
    <3>2. met = FlushConfig(met0)
      BY <2>2
    <3> HIDE DEF met0, met
    <3>3. Live(met0, calm) /\ Shaped(met0) /\ CurrentMasterAddress(met0) = CurrentMasterAddress(st)
      BY <3>1 DEF GoodRecord, Live, Shaped, InProgress, CurrentMasterAddress
    <3>4. Met(met0)
      BY <1>1, <1>2, <3>1 DEF GoodRecord, Met
    <3>5. /\ GoodRecord(met, calm) /\ SamePhase(met0, met)
          /\ met.leaderEpoch = met0.leaderEpoch /\ met.leader = met0.leader /\ met.configEpoch = met0.configEpoch
          /\ met.addr = met0.addr /\ met.flags = met0.flags /\ met.foEpoch = met0.foEpoch
          /\ met.peers = met0.peers
          /\ CurrentMasterAddress(met) = CurrentMasterAddress(met0)
          /\ met.disk.configEpoch = met0.configEpoch /\ met.disk.addr = CurrentMasterAddress(met0)
          /\ met.disk.peers = DOMAIN met0.peers
      BY <3>2, <3>3, <3>4, FlushSaves
    <3>6. SamePhase(st, met)
      BY <3>1, <3>5 DEF SamePhase, SameSlaves, InProgress
    <3>7. Pairs(met) \subseteq Pairs(st)
      BY <3>1, <3>3, <3>5 DEF Pairs
    <3> QED
      BY <1>1, <1>2, <3>1, <3>3, <3>5, <3>6, <3>7 DEF Meets
  <2> QED
    BY <2>1, <2>2
<1> HIDE DEF met
<1>4. CASE ~(m.epoch > met.epoch)
  <2>1. st1 = met /\ met.epoch \in Nat
    BY <1>3, <1>4 DEF GoodRecord, Live
  <2> QED
    BY <1>3, <1>4, <2>1 DEF met, peers
<1>5. CASE m.epoch > met.epoch
  <2>1. DOMAIN met = Fields
    BY <1>3 DEF GoodRecord, Live
  <2>2. /\ DOMAIN new0 = Fields /\ new0.peers = met.peers /\ new0.epoch = m.epoch /\ new0.addr = met.addr
        /\ new0.configEpoch = met.configEpoch /\ new0.leader = met.leader
        /\ new0.leaderEpoch = met.leaderEpoch
        /\ new0.foEpoch = met.foEpoch /\ new0.foState = met.foState /\ new0.promoted = met.promoted
        /\ new0.flags = met.flags /\ new0.slaves = met.slaves
    BY <2>1 DEF Fields
  <2>3. st1 = FlushConfig(new0)
    BY <1>5
  <2> HIDE DEF new0, st1
  <2>4. Live(new0, calm) /\ CurrentMasterAddress(new0) = CurrentMasterAddress(met)
    BY <1>3, <1>5, <2>2 DEF GoodRecord, Live, InProgress, CurrentMasterAddress
  <2>5. Shaped(new0) /\ Met(new0)
    BY <1>3, <2>2 DEF GoodRecord, Shaped, Met, InProgress
  <2>6. /\ GoodRecord(st1, calm) /\ SamePhase(new0, st1)
        /\ st1.leaderEpoch = new0.leaderEpoch /\ st1.leader = new0.leader /\ st1.configEpoch = new0.configEpoch
        /\ st1.addr = new0.addr /\ st1.flags = new0.flags /\ st1.foEpoch = new0.foEpoch
        /\ st1.peers = new0.peers /\ st1.epoch = new0.epoch
        /\ CurrentMasterAddress(st1) = CurrentMasterAddress(new0)
        /\ st1.disk.configEpoch = new0.configEpoch /\ st1.disk.addr = CurrentMasterAddress(new0)
        /\ st1.disk.peers = DOMAIN new0.peers
    BY <2>3, <2>4, <2>5, FlushSaves
  <2>7. SamePhase(st, st1)
    BY <1>3, <2>2, <2>6 DEF SamePhase, SameSlaves, InProgress, Meets
  <2>8. Pairs(st1) \subseteq Pairs(st)
    BY <1>3, <2>2, <2>4, <2>6 DEF Pairs, Meets
  <2>9. Meets(st, st1, m)
    BY <1>3, <2>2, <2>4, <2>6, <2>7, <2>8 DEF Meets
  <2>10. GoodRecord(st1, calm) /\ Meets(st, st1, m) /\ st1.epoch >= m.epoch
    BY <2>2, <2>6, <2>9
  <2> QED
    BY <2>10, Zenon DEF st1, new0, met, met0, peers
<1> QED
  BY <1>4, <1>5
\* sentinelProcessHelloMessage: only a newer configuration is taken over, and a
\* newer epoch of the same master in the middle of a failover is noted.
LEMMA HelloGoes ==
  ASSUME NEW t, NEW calm \in BOOLEAN, NEW c2 \in BOOLEAN, GoodRecord(sent[t], calm), NEW m,
         m.epoch \in Nat, m.epoch <= MaxEpoch, m.configEpoch \in Nat, m.configEpoch <= m.epoch,
         m.addr \in Redis, c2 => calm,
         c2 => ~(/\ m.configEpoch > sent[t].configEpoch
                 /\ m.addr = sent[t].addr /\ InProgress(sent[t]))
  PROVE  /\ GoodRecord(Hello(t, m), c2) /\ Fine(sent[t], Hello(t, m), calm)
         /\ Hears(sent[t], Hello(t, m), m)
         /\ c2 => Pairs(Hello(t, m)) \subseteq Pairs(sent[t]) \cup {<<m.configEpoch, m.addr>>}
<1> DEFINE st == sent[t]
           met == IF m.from \in DOMAIN st.peers THEN st
                  ELSE FlushConfig([st EXCEPT !.peers =
                         [p \in DOMAIN st.peers \cup {m.from} |->
                            IF p = m.from THEN NewPeer ELSE st.peers[p]]])
           st1 == IF m.epoch > met.epoch
                  THEN FlushConfig([met EXCEPT !.epoch = m.epoch]) ELSE met
           st2 == [st1 EXCEPT !.configEpoch = m.configEpoch]
<1>1. Hello(t, m) = IF st1.configEpoch >= m.configEpoch THEN st1
                    ELSE IF m.addr = st2.addr THEN st2 ELSE ResetMasterAndChangeAddress(st2, m.addr)
  BY Zenon DEF Hello
<1>2. GoodRecord(st, c2)
  BY DEF GoodRecord, Live, Saved
<1>3. GoodRecord(st1, c2) /\ Meets(st, st1, m) /\ st1.epoch >= m.epoch
  BY <1>2, MeetingKeeps
<1> HIDE DEF st1
<1>4. /\ st.leaderEpoch \in Nat /\ st.configEpoch \in Nat /\ st1.epoch \in Nat /\ st1.configEpoch = st.configEpoch
      /\ st1.leaderEpoch = st.leaderEpoch
  BY <1>2, <1>3 DEF GoodRecord, Live, Meets
<1>5. CASE st1.configEpoch >= m.configEpoch
  <2>1. Fine(st, st1, calm)
    BY <1>4 DEF Fine
  <2>2. Hears(st, st1, m)
    BY <1>3 DEF Hears, Meets, Still, SamePhase, InProgress
  <2> QED
    BY <1>1, <1>3, <1>5, <2>1, <2>2 DEF Meets
<1>6. CASE ~(st1.configEpoch >= m.configEpoch)
  <2>1. /\ DOMAIN st2 = Fields /\ st2.epoch = st1.epoch /\ st2.configEpoch = m.configEpoch
        /\ st2.leaderEpoch = st1.leaderEpoch /\ st2.leader = st1.leader /\ st2.foEpoch = st1.foEpoch
        /\ st2.foState = st1.foState /\ st2.promoted = st1.promoted /\ st2.flags = st1.flags
        /\ st2.addr = st1.addr /\ st2.slaves = st1.slaves /\ st2.peers = st1.peers /\ st2.disk = st1.disk
    BY <1>3 DEF GoodRecord, Live, Fields
  <2> HIDE DEF st2
  <2>2. m.configEpoch > st.configEpoch
    BY <1>4, <1>6
  <2>3. CASE m.addr = st2.addr
    <3>1. c2 => ~InProgress(st2)
      BY <1>3, <2>1, <2>2, <2>3 DEF InProgress, Meets
    <3>2. CurrentMasterAddress(st2) = CurrentMasterAddress(st1)
      BY <2>1 DEF CurrentMasterAddress
    <3>3. Live(st2, c2)
      BY <1>3, <2>1, <3>1 DEF GoodRecord, Live, InProgress
    <3>4. Shaped(st2) /\ Met(st2)
      BY <1>3, <2>1 DEF GoodRecord, Shaped, Met, InProgress
    <3>5. Saved(st2, c2)
      BY <1>3, <2>1, <3>2 DEF GoodRecord, Saved
    <3>6. Fine(st, st2, calm)
      BY <1>4, <2>1, <2>2 DEF Fine
    <3>7. Hears(st, st2, m)
      BY <1>3, <2>1 DEF Hears, Meets, Still, SamePhase, InProgress
    <3>8. c2 => Pairs(st2) \subseteq Pairs(st) \cup {<<m.configEpoch, m.addr>>}
      <4>1. c2 => CurrentMasterAddress(st2) = m.addr
        BY <2>3, <3>1 DEF CurrentMasterAddress, InProgress
      <4>2. <<st1.disk.configEpoch, st1.disk.addr>> \in Pairs(st)
        BY <1>3 DEF Meets, Pairs
      <4> QED
        BY <2>1, <4>1, <4>2 DEF Pairs
    <3> QED
      BY <1>1, <1>6, <2>3, <3>3, <3>4, <3>5, <3>6, <3>7, <3>8 DEF GoodRecord
  <2>4. CASE m.addr # st2.addr
    <3> DEFINE v == ResetMasterAndChangeAddress(st2, m.addr)
    <3>1. /\ st2.epoch \in Nat /\ st2.configEpoch \in Nat /\ st2.leaderEpoch \in Nat /\ st2.foEpoch \in Nat
          /\ st2.configEpoch <= st2.epoch /\ st2.foEpoch <= st2.epoch /\ st2.leaderEpoch <= st2.epoch
          /\ st2.epoch <= MaxEpoch /\ Met(st2) /\ st2.addr \in Redis /\ DOMAIN st2.slaves \subseteq Redis
      BY <1>3, <2>1 DEF GoodRecord, Live, Shaped, Met
    <3>2. /\ GoodRecord(v, c2) /\ ~InProgress(v) /\ v.flags = {} /\ v.foState = 0
          /\ v.leaderEpoch = st2.leaderEpoch /\ v.leader = Nil /\ v.configEpoch = st2.configEpoch
          /\ v.peers = st2.peers /\ CurrentMasterAddress(v) = m.addr
          /\ v.disk.configEpoch = st2.configEpoch /\ v.disk.addr = m.addr /\ v.disk.peers = DOMAIN st2.peers
      BY <2>1, <3>1, ChangeAddressSaves
    <3> HIDE DEF v
    <3>3. Fine(st, v, calm)
      BY <1>4, <2>1, <2>2, <3>2 DEF Fine
    <3>4. Hears(st, v, m)
      BY <1>3, <2>1, <3>2 DEF Hears, Meets, Still
    <3>5. Pairs(v) \subseteq {<<m.configEpoch, m.addr>>}
      BY <2>1, <3>2 DEF Pairs
    <3> QED
      BY <1>1, <1>6, <2>4, <3>2, <3>3, <3>4, <3>5 DEF v
  <2> QED
    BY <2>3, <2>4
<1> QED
  BY <1>5, <1>6

\* A hello that is processed keeps the invariant: the configuration it tells of has
\* been announced.
LEMMA ProcessHelloKeeps ==
  ASSUME GroupInv, NEW t \in Group, t \in setup.group, ProcessHello(t)
  PROVE  GroupInv' /\ ConfigStep
<1> DEFINE v == Hello(t, hello)
<1>1. /\ hello # Nil /\ hello.from # t /\ sent' = [sent EXCEPT ![t] = v]
      /\ cast' = cast \cup Ballot(t, sent[t], v)
      /\ crossed' = IF /\ hello.configEpoch > sent[t].configEpoch
                       /\ hello.addr = sent[t].addr /\ InProgress(sent[t])
                    THEN crossed \cup {t} ELSE crossed
      /\ UNCHANGED <<setup, link, hello, meddled, won>>
  BY DEF ProcessHello, Put, InProgress
<1>2. /\ hello.epoch \in Nat /\ hello.epoch <= MaxEpoch /\ hello.configEpoch \in Nat
      /\ hello.configEpoch <= hello.epoch /\ hello.addr \in Redis /\ hello.from \in setup.group
  BY <1>1 DEF GroupInv, RecordInv, GoodHello
<1>3. /\ NoMoreCalm
      /\ Calm(t)' => ~(/\ hello.configEpoch > sent[t].configEpoch
                       /\ hello.addr = sent[t].addr /\ InProgress(sent[t]))
      /\ Calm(t) \in BOOLEAN /\ Calm(t)' \in BOOLEAN /\ (Calm(t)' => Calm(t))
  BY <1>1 DEF Calm, NoMoreCalm
<1>4. GoodRecord(sent[t], Calm(t)) /\ sent[t].foState # 6
  BY DEF GroupInv, RecordInv
<1>5. /\ GoodRecord(v, Calm(t)') /\ Fine(sent[t], v, Calm(t)) /\ Hears(sent[t], v, hello)
      /\ Calm(t)' => Pairs(v) \subseteq Pairs(sent[t]) \cup {<<hello.configEpoch, hello.addr>>}
  BY <1>2, <1>3, <1>4, HelloGoes
<1> HIDE DEF v
<1>6. DOMAIN sent' = Group /\ sent'[t] = v /\ \A x \in Group \ {t} : sent'[x] = sent[x]
  BY <1>1 DEF GroupInv, RecordInv
<1>7. CastKept /\ Ballot(t, sent[t], sent'[t]) \subseteq cast'
  BY <1>1, <1>6 DEF CastKept
<1>8. RestKept
  BY <1>1, <1>6 DEF RestKept, GroupInv, RecordInv
<1>9. Kept(t)
  <2>1. VoteUp(sent[t], v) /\ v.foState # 6 /\ Still(sent[t], v)
    BY <1>4, <1>5 DEF VoteUp, Hears
  <2>2. Electorate(setup.group, t, sent[t], meddled # {}) /\ Told(sent[t], cast)
    BY DEF GroupInv, VoteInv
  <2>3. Electorate(setup.group, t, v, meddled' # {})
    BY <1>1, <1>2, <1>5, <2>2 DEF Electorate, Hears
  <2>4. Told(v, cast')
    BY <1>5, <1>7, <2>2 DEF Told, Hears, CastKept
  <2>5. Quiet' => Pairs(v) \subseteq Announced
    <3>1. Quiet' => Calm(t)'
      BY DEF Quiet, Calm
    <3> QED
      BY <1>1, <1>5, <3>1, PairsAreAnnounced
  <2> QED
    BY <1>5, <1>6, <1>7, <2>1, <2>3, <2>4, <2>5 DEF Kept, KeptRecord
<1>10. \A x \in Group \ {t} : Kept(x)
  BY <1>3, <1>6, <1>7, UntouchedIsKept
<1> QED
  BY <1>1, <1>3, <1>7, <1>8, <1>9, <1>10, PlainStepKeeps
-----------------------------------------------------------------------------
(* What the instances say.                                                 *)

\* sentinelRefreshInstanceInfo of the master: new slaves are added.
LEMMA MasterInfoGoes ==
  ASSUME NEW st, NEW calm \in BOOLEAN, GoodRecord(st, calm)
  PROVE  LET v == MasterInfo(st)
         IN  Goes(st, v, calm) /\ v.foState = st.foState /\ v.foEpoch = st.foEpoch /\ v.flags = st.flags
<1> DEFINE new == {j \in Redis \ down : replOf[j] = st.addr /\ j # st.addr} \ DOMAIN st.slaves
           slaves == [j \in DOMAIN st.slaves \cup new |-> IF j \in new THEN {} ELSE st.slaves[j]]
           w == [st EXCEPT !.slaves = slaves]
           v == SlavesSeen(st, st.addr)
<1>1. v = IF new = {} THEN st ELSE FlushConfig(w)
  BY Zenon DEF SlavesSeen
<1>2. /\ DOMAIN slaves = DOMAIN st.slaves \cup new
      /\ \A j \in new : slaves[j] = {}
      /\ \A j \in DOMAIN st.slaves : slaves[j] = st.slaves[j]
      /\ new \subseteq Redis /\ st.addr \notin new /\ new \cap DOMAIN st.slaves = {}
  OBVIOUS
<1> HIDE DEF new, slaves
<1>3. /\ DOMAIN w = Fields /\ w.peers = st.peers /\ w.epoch = st.epoch /\ w.addr = st.addr
      /\ w.configEpoch = st.configEpoch /\ w.leader = st.leader /\ w.leaderEpoch = st.leaderEpoch
      /\ w.foEpoch = st.foEpoch /\ w.foState = st.foState /\ w.promoted = st.promoted
      /\ w.flags = st.flags /\ w.slaves = slaves
  BY DEF GoodRecord, Live, Fields
<1> HIDE DEF w
<1>4. Live(w, calm) /\ Met(w) /\ CurrentMasterAddress(w) = CurrentMasterAddress(st) /\ SamePeers(st, w)
  BY <1>3 DEF GoodRecord, Live, Met, InProgress, CurrentMasterAddress, SamePeers
<1>5. Shaped(w)
  <2>1. \A j \in DOMAIN slaves : ("promoted" \in slaves[j]) <=> (st.promoted = j)
    BY <1>2, SentinelAssumption DEF GoodRecord, Shaped
  <2> QED
    BY <1>2, <1>3, <2>1 DEF GoodRecord, Shaped, InProgress
<1>6. Goes(st, FlushConfig(w), calm)
  BY <1>3, <1>4, <1>5, FlushGoes
<1>7. FlushConfig(w).foState = st.foState /\ FlushConfig(w).foEpoch = st.foEpoch /\ FlushConfig(w).flags = st.flags
  BY <1>3, <1>4, <1>5, FlushSaves DEF SamePhase
<1>8. Goes(st, v, calm) /\ v.foState = st.foState /\ v.foEpoch = st.foEpoch /\ v.flags = st.flags
  BY <1>1, <1>6, <1>7, StayingGoes
<1>9. MasterInfo(st) = [v EXCEPT !.saysSlave = replOf[st.addr] # Nil]
  BY DEF MasterInfo
<1>10. GoodRecord(v, calm) /\ DOMAIN v = Fields
  BY <1>8 DEF Goes, GoodRecord, Live
<1> HIDE DEF v
<1>11. /\ Alike(v, MasterInfo(st)) /\ SamePhase(v, MasterInfo(st))
       /\ MasterInfo(st).foState = v.foState /\ MasterInfo(st).foEpoch = v.foEpoch
       /\ MasterInfo(st).flags = v.flags
  BY <1>9, <1>10 DEF Alike, SamePhase, SamePeers, SameSlaves, Fields, InProgress, GoodRecord, Met
<1>12. Goes(v, MasterInfo(st), calm)
  BY <1>10, <1>11, AlikeGoes
<1> QED
  BY <1>8, <1>11, <1>12, GoesTwice

\* sentinelRefreshInstanceInfo of a slave: how far it is with its new master.
LEMMA ProgressGoes ==
  ASSUME NEW st, NEW calm \in BOOLEAN, GoodRecord(st, calm), NEW i \in DOMAIN st.slaves
  PROVE  LET v == ReconfProgress(st, i)
         IN  Goes(st, v, calm) /\ v.foState = st.foState /\ v.foEpoch = st.foEpoch /\ v.flags = st.flags
<1> DEFINE f == st.slaves[i]
           g == IF "sent" \in f /\ replOf[i] = st.promoted
                THEN (f \ {"sent"}) \cup {"reconf"} ELSE f
           h == IF "reconf" \in g /\ replOf[i] \notin down
                THEN (g \ {"reconf"}) \cup {"done"} ELSE g
           v == [st EXCEPT !.slaves = [st.slaves EXCEPT ![i] = h]]
<1>1. ReconfProgress(st, i) = v
  BY Zenon DEF ReconfProgress
<1>2. ("promoted" \in h) <=> ("promoted" \in st.slaves[i])
  <2>1. ("promoted" \in g) <=> ("promoted" \in f)
    OBVIOUS
  <2> HIDE DEF g
  <2>2. ("promoted" \in h) <=> ("promoted" \in g)
    OBVIOUS
  <2> QED
    BY <2>1, <2>2
<1> HIDE DEF h
<1>3. DOMAIN st = Fields
  BY DEF GoodRecord, Live
<1>4. /\ DOMAIN v = Fields /\ v.peers = st.peers /\ v.epoch = st.epoch /\ v.addr = st.addr
      /\ v.configEpoch = st.configEpoch /\ v.leader = st.leader /\ v.leaderEpoch = st.leaderEpoch
      /\ v.foEpoch = st.foEpoch /\ v.foState = st.foState /\ v.promoted = st.promoted
      /\ v.flags = st.flags /\ v.slaves = [st.slaves EXCEPT ![i] = h] /\ v.disk = st.disk
  BY <1>3 DEF Fields
<1> HIDE DEF v
<1>5. SameSlaves(st, v)
  BY <1>2, <1>4 DEF SameSlaves
<1>6. Alike(st, v) /\ SamePhase(st, v)
  BY <1>4, <1>5 DEF Alike, SamePhase, SamePeers, InProgress, Met, GoodRecord
<1> QED
  BY <1>1, <1>4, <1>6, AlikeGoes

\* The slave that has obeyed gives the configuration the epoch of the election.
LEMMA PromotedIsNewer ==
  ASSUME NEW st, NEW calm \in BOOLEAN, GoodRecord(st, calm), InProgress(st), st.foState = 4
  PROVE  LET v == Promoted(st)
         IN  /\ GoodRecord(v, calm) /\ Fine(st, v, calm) /\ v.foState = 5 /\ v.foEpoch = st.foEpoch
             /\ v.leader = st.leader /\ v.leaderEpoch = st.leaderEpoch /\ v.flags = st.flags
             /\ v.peers = st.peers /\ v.disk.peers = DOMAIN st.peers
             /\ Pairs(v) = {<<st.foEpoch, st.promoted>>}
<1> DEFINE w == [st EXCEPT !.configEpoch = st.foEpoch, !.foState = ReconfSlaves]
           v == FlushConfig(w)
<1>1. Promoted(st) = v
  BY DEF Promoted
<1>2. /\ DOMAIN w = Fields /\ w.peers = st.peers /\ w.epoch = st.epoch /\ w.addr = st.addr
      /\ w.configEpoch = st.foEpoch /\ w.leader = st.leader /\ w.leaderEpoch = st.leaderEpoch
      /\ w.foEpoch = st.foEpoch /\ w.foState = 5 /\ w.promoted = st.promoted
      /\ w.flags = st.flags /\ w.slaves = st.slaves
  BY DEF GoodRecord, Live, Fields, ReconfSlaves
<1> HIDE DEF w
<1>3. Live(w, calm) /\ Met(w) /\ CurrentMasterAddress(w) = st.promoted
  <2>1. st.promoted # Nil
    BY DEF GoodRecord, Shaped
  <2> QED
    BY <1>2, <2>1 DEF GoodRecord, Live, Met, InProgress, CurrentMasterAddress, ReconfSlaves
<1>4. Shaped(w)
  BY <1>2 DEF GoodRecord, Shaped, InProgress
<1>5. /\ GoodRecord(v, calm) /\ SamePhase(w, v)
      /\ v.leaderEpoch = w.leaderEpoch /\ v.leader = w.leader /\ v.configEpoch = w.configEpoch
      /\ v.flags = w.flags /\ v.peers = w.peers /\ v.foEpoch = w.foEpoch
      /\ CurrentMasterAddress(v) = CurrentMasterAddress(w)
      /\ v.disk.configEpoch = w.configEpoch /\ v.disk.addr = CurrentMasterAddress(w)
      /\ v.disk.peers = DOMAIN w.peers
  BY <1>3, <1>4, FlushSaves
<1> HIDE DEF v
<1>6. Fine(st, v, calm)
  BY <1>2, <1>5 DEF Fine, GoodRecord, Live
<1>7. Pairs(v) = {<<st.foEpoch, st.promoted>>}
  BY <1>2, <1>3, <1>5 DEF Pairs
<1> QED
  BY <1>1, <1>2, <1>5, <1>6, <1>7 DEF SamePhase

\* A configuration is made: nobody has one of that epoch, and no other leader can
\* make one.
LEMMA PromotionKeeps ==
  ASSUME GroupInv, NEW s \in Group, InProgress(sent[s]), sent[s].foState = 4, Put(s, Promoted(sent[s])),
         UNCHANGED <<setup, meddled, crossed, won, hello, link>>
  PROVE  GroupInv' /\ ConfigStep
<1> DEFINE st == sent[s]
           v == Promoted(st)
           e == st.foEpoch
<1>1. Calm(s) \in BOOLEAN /\ GoodRecord(st, Calm(s)) /\ \A x \in Group : Calm(x)' = Calm(x)
  BY DEF Calm, GroupInv, RecordInv
<1>2. /\ GoodRecord(v, Calm(s)) /\ Fine(st, v, Calm(s)) /\ v.foState = 5 /\ v.foEpoch = e
      /\ v.leader = st.leader /\ v.leaderEpoch = st.leaderEpoch /\ v.flags = st.flags
      /\ v.peers = st.peers /\ v.disk.peers = DOMAIN st.peers
      /\ Pairs(v) = {<<e, st.promoted>>}
  BY <1>1, PromotedIsNewer
<1> HIDE DEF v
<1>3. /\ DOMAIN sent' = Group /\ sent'[s] = v /\ \A x \in Group \ {s} : sent'[x] = sent[x]
      /\ cast' = cast \cup Ballot(s, st, v)
  BY DEF Put, GroupInv, RecordInv, v
<1>4. Ballot(s, st, v) = {} /\ cast' = cast
  BY <1>2, <1>3 DEF Ballot
<1>5. CastKept /\ RestKept /\ NoMoreCalm
  BY <1>3, <1>4 DEF CastKept, RestKept, NoMoreCalm, Calm, GroupInv, RecordInv
<1>6. KeptRecord(s)
  <2>1. Electorate(setup.group, s, st, meddled # {}) /\ Told(st, cast)
    BY DEF GroupInv, VoteInv
  <2>2. Electorate(setup.group, s, v, meddled' # {}) /\ Told(v, cast')
    BY <1>2, <1>4, <2>1 DEF Electorate, Told
  <2>3. VoteUp(st, v)
    BY <1>2 DEF VoteUp
  <2> QED
    BY <1>1, <1>2, <1>3, <1>4, <2>2, <2>3 DEF KeptRecord
<1>7. \A x \in Group \ {s} : KeptRecord(x)
  BY <1>3, <1>5, UntouchedIsKept DEF Kept
<1>8. RecordInv' /\ VoteInv' /\ ConfigStep
  BY <1>5, <1>6, <1>7, RecordsKeep DEF GroupInv
<1>9. WonInv'
  <2>1. \A x \in Group : sent[x].leaderEpoch \in Nat /\ sent'[x].leaderEpoch \in Nat
    BY <1>8 DEF GroupInv, RecordInv, GoodRecord, Live
  <2> QED
    BY <1>5, <1>8, <2>1, WonKeeps DEF GroupInv
<1>10. ConfInv'
  <2> SUFFICES ASSUME Quiet'
               PROVE  /\ \A x \in Group : Undecided(x, sent'[x], Announced', won')
                      /\ Known(Announced', won') /\ Agreeing(Announced')
    BY DEF ConfInv
  <2>1. Quiet
    BY DEF Quiet
  <2>2. /\ \A x \in Group : Undecided(x, sent[x], Announced, won)
        /\ Known(Announced, won) /\ Agreeing(Announced)
    BY <2>1 DEF GroupInv, ConfInv
  <2>3. e > 0 /\ (\A a \in Announced : a[1] # e) /\ \E w \in won : w.epoch = e /\ w.leader = s
    BY <2>2 DEF Undecided
  <2>4. Announced' \subseteq Announced \cup {<<e, st.promoted>>}
    <3>1. \A x \in Group : Pairs(sent'[x]) \subseteq Announced \cup {<<e, st.promoted>>}
      BY <1>2, <1>3, PairsAreAnnounced
    <3>2. hello' = Nil \/ <<hello'.configEpoch, hello'.addr>> \in Announced \cup {<<e, st.promoted>>}
      BY PairsAreAnnounced
    <3> QED
      BY <3>1, <3>2, AnnouncedWithin
  <2>5. \A a \in Announced' : a \in Announced \/ a = <<e, st.promoted>>
    BY <2>4
  <2>6. Known(Announced', won')
    BY <2>2, <2>3, <2>5 DEF Known
  <2>7. Agreeing(Announced')
    BY <2>2, <2>3, <2>5 DEF Agreeing
  <2>8. Undecided(s, v, Announced', won')
    BY <1>2, <2>3 DEF Undecided
  <2>9. \A x \in Group \ {s} : Undecided(x, sent'[x], Announced', won')
    <3> SUFFICES ASSUME NEW x \in Group \ {s}, InProgress(sent[x])
                 PROVE  Undecided(x, sent[x], Announced', won')
      BY <1>3 DEF Undecided
    <3>1. Undecided(x, sent[x], Announced, won)
      BY <2>2
    <3>2. sent[x].foState \in 2..4 => sent[x].foEpoch # e
      <4> SUFFICES ASSUME sent[x].foState \in 2..4, sent[x].foEpoch = e PROVE FALSE
        OBVIOUS
      <4>1. PICK w \in won : w.epoch = e /\ w.leader = s
        BY <2>3
      <4>2. PICK y \in won : y.epoch = e /\ y.leader = x
        BY <3>1 DEF Undecided
      <4>3. Backed(setup.group, cast, w) /\ Backed(setup.group, cast, y)
        BY <2>1, <4>1, <4>2 DEF GroupInv, WonInv, Quiet
      <4>4. IsFiniteSet(setup.group) /\ \A c, d \in cast : c[1] = d[1] /\ c[2] = d[2] => c[3] = d[3]
        BY GroupIsFinite DEF GroupInv, VoteInv
      <4> QED
        BY <4>1, <4>2, <4>3, <4>4, OneWinner
    <3> QED
      BY <2>5, <3>1, <3>2 DEF Undecided
  <2> QED
    BY <1>3, <2>6, <2>7, <2>8, <2>9
<1> QED
  BY <1>8, <1>9, <1>10 DEF GroupInv

\* So does a step that changes none of the records, votes, questions and hellos.
LEMMA UntouchedKeep ==
  ASSUME GroupInv, UNCHANGED <<setup, sent, hello, meddled, cast, won, crossed, link>>
  PROVE  GroupInv' /\ ConfigStep
<1>1. RestKept /\ CastKept /\ NoMoreCalm
  BY DEF RestKept, CastKept, NoMoreCalm, Calm, GroupInv, RecordInv
<1>2. \A x \in Group : Kept(x)
  BY <1>1, UntouchedIsKept
<1> QED
  BY <1>1, <1>2, PlainStepKeeps

\* sentinelRefreshInstanceInfo keeps the invariant of the group.
LEMMA RefreshKeeps ==
  ASSUME GroupInv, NEW s \in Group, NEW i, NEW long, RefreshInstanceInfo(s, i, long)
  PROVE  GroupInv' /\ ConfigStep
<1> DEFINE st == sent[s]
<1>1. Calm(s) \in BOOLEAN /\ GoodRecord(st, Calm(s)) /\ st.foState # 6
  BY DEF Calm, GroupInv, RecordInv
<1>2. UNCHANGED <<setup, meddled, crossed, won, hello, link>> /\ GoodQuestions(setup.group, link')
  BY DEF RefreshInstanceInfo, GroupInv, RecordInv
<1>3. \/ Put(s, MasterInfo(st))
      \/ InProgress(st) /\ st.foState = 4 /\ Put(s, Promoted(st))
      \/ UNCHANGED <<sent, cast>>
      \/ i \in DOMAIN st.slaves /\ Put(s, ReconfProgress(st, i))
  BY DEF RefreshInstanceInfo, InProgress, WaitPromotion
<1>4. CASE Put(s, MasterInfo(st))
  <2> DEFINE v == MasterInfo(st)
  <2>1. Goes(st, v, Calm(s)) /\ v.foState = st.foState /\ v.foEpoch = st.foEpoch /\ v.flags = st.flags
    BY <1>1, MasterInfoGoes
  <2> HIDE DEF v
  <2>2. Still(st, v) /\ v.foState # 6
    BY <1>1, <2>1 DEF Still, InProgress
  <2> QED
    BY <1>2, <1>4, <2>1, <2>2, OneGoingKeeps DEF v
<1>5. CASE InProgress(st) /\ st.foState = 4 /\ Put(s, Promoted(st))
  BY <1>2, <1>5, PromotionKeeps
<1>6. CASE UNCHANGED <<sent, cast>>
  BY <1>2, <1>6, UntouchedKeep
<1>7. CASE i \in DOMAIN st.slaves /\ Put(s, ReconfProgress(st, i))
  <2> DEFINE v == ReconfProgress(st, i)
  <2>1. Goes(st, v, Calm(s)) /\ v.foState = st.foState /\ v.foEpoch = st.foEpoch /\ v.flags = st.flags
    BY <1>1, <1>7, ProgressGoes
  <2> HIDE DEF v
  <2>2. Still(st, v) /\ v.foState # 6
    BY <1>1, <2>1 DEF Still, InProgress
  <2> QED
    BY <1>2, <1>7, <2>1, <2>2, OneGoingKeeps DEF v
<1> QED
  BY <1>3, <1>4, <1>5, <1>6, <1>7
-----------------------------------------------------------------------------
(* Faults and administrators.                                              *)

\* The record made from a file has the master and the vote of the file.
LEMMA LoadedIsGood ==
  ASSUME NEW c, NEW calm \in BOOLEAN, c.epoch \in Nat, c.epoch <= MaxEpoch, c.configEpoch \in Nat,
         c.leaderEpoch \in Nat, c.configEpoch <= c.epoch, c.leaderEpoch <= c.epoch,
         c.addr \in Redis, c.addr \notin c.slaves, c.slaves \subseteq Redis
  PROVE  LET v == Loaded(c)
         IN  /\ GoodRecord(v, calm) /\ CurrentMasterAddress(v) = c.addr /\ ~InProgress(v)
             /\ v.leaderEpoch = c.leaderEpoch /\ v.leader = Nil /\ v.foState = 0 /\ v.flags = {}
             /\ v.disk = c /\ Pairs(v) = {<<c.configEpoch, c.addr>>}
             /\ DOMAIN v.peers = c.peers /\ \A t \in c.peers : v.peers[t].leader = Nil
<1> DEFINE v == Loaded(c)
           slaves == [i \in c.slaves |-> {}]
           peers == [t \in c.peers |-> NewPeer]
<1>1. /\ DOMAIN slaves = c.slaves /\ \A i \in c.slaves : slaves[i] = {}
      /\ DOMAIN peers = c.peers /\ \A t \in c.peers : peers[t] = NewPeer
      /\ DOMAIN NewPeer = PeerFields /\ NewPeer.leader = Nil
  BY DEF NewPeer, PeerFields
<1> HIDE DEF slaves, peers
<1>2. /\ DOMAIN v = Fields /\ v.epoch = c.epoch /\ v.configEpoch = c.configEpoch
      /\ v.leaderEpoch = c.leaderEpoch /\ v.leader = Nil /\ v.foEpoch = 0 /\ v.foState = 0 /\ v.flags = {}
      /\ v.promoted = Nil /\ v.slaves = slaves /\ v.peers = peers /\ v.addr = c.addr /\ v.disk = c
  BY DEF Loaded, Fields, None, slaves, peers
<1> HIDE DEF v
<1>3. ~InProgress(v) /\ CurrentMasterAddress(v) = c.addr
  BY <1>2 DEF InProgress, CurrentMasterAddress
<1>4. Live(v, calm) /\ Met(v)
  BY <1>1, <1>2, <1>3 DEF Live, Met
<1>5. Shaped(v)
  BY <1>1, <1>2, <1>3, SentinelAssumption DEF Shaped
<1>6. Saved(v, calm)
  BY <1>2, <1>3 DEF Saved
<1>7. Pairs(v) = {<<c.configEpoch, c.addr>>}
  BY <1>2, <1>3 DEF Pairs
<1> QED
  BY <1>1, <1>2, <1>3, <1>4, <1>5, <1>6, <1>7 DEF GoodRecord, v

\* A restart keeps the vote and the master, whatever it forgets.
LEMMA CrashKeeps ==
  ASSUME GroupInv, NEW s \in Group, CrashAndRestart(s)
  PROVE  GroupInv' /\ ConfigStep
<1> DEFINE st == sent[s]
           v == Loaded(st.disk)
<1>1. /\ sent' = [sent EXCEPT ![s] = v] /\ link' = CutLinks(s)
      /\ UNCHANGED <<setup, hello, meddled, crossed, cast, won>>
  BY DEF CrashAndRestart
<1>2. Calm(s) \in BOOLEAN /\ GoodRecord(st, Calm(s)) /\ \A x \in Group : Calm(x)' = Calm(x)
  BY <1>1 DEF Calm, GroupInv, RecordInv
<1>3. /\ GoodRecord(v, Calm(s)) /\ CurrentMasterAddress(v) = st.disk.addr /\ ~InProgress(v)
      /\ v.leaderEpoch = st.disk.leaderEpoch /\ v.leader = Nil /\ v.foState = 0 /\ v.flags = {}
      /\ v.disk = st.disk /\ Pairs(v) = {<<st.disk.configEpoch, st.disk.addr>>}
      /\ DOMAIN v.peers = st.disk.peers /\ \A t \in st.disk.peers : v.peers[t].leader = Nil
  <2>1. /\ st.disk.epoch \in Nat /\ st.disk.epoch <= MaxEpoch /\ st.disk.configEpoch \in Nat
        /\ st.disk.leaderEpoch \in Nat /\ st.disk.configEpoch <= st.disk.epoch
        /\ st.disk.leaderEpoch <= st.disk.epoch
    BY <1>2, ElectionAssumption DEF GoodRecord, Live, Shaped, Saved
  <2>2. st.disk.addr \in Redis /\ st.disk.addr \notin st.disk.slaves /\ st.disk.slaves \subseteq Redis
    BY <1>2 DEF GoodRecord, Saved
  <2> QED
    BY <1>2, <2>1, <2>2, LoadedIsGood
<1> HIDE DEF v
<1>4. Fine(st, v, Calm(s)) /\ VoteUp(st, v) /\ Still(st, v)
  BY <1>2, <1>3 DEF Fine, VoteUp, Still, GoodRecord, Live, Saved
<1>5. DOMAIN sent' = Group /\ sent'[s] = v /\ \A x \in Group \ {s} : sent'[x] = sent[x]
  BY <1>1 DEF GroupInv, RecordInv
<1>6. GoodQuestions(setup.group, link')
  BY <1>1 DEF GroupInv, RecordInv, GoodQuestions, GoodRow, CutLinks
<1>7. CastKept /\ RestKept /\ NoMoreCalm
  BY <1>1, <1>5, <1>6 DEF CastKept, RestKept, NoMoreCalm, Calm, GroupInv, RecordInv
<1>8. Kept(s)
  <2>1. Electorate(setup.group, s, st, meddled # {})
    BY DEF GroupInv, VoteInv
  <2>2. Electorate(setup.group, s, v, meddled' # {}) /\ Told(v, cast')
    BY <1>1, <1>3, <2>1 DEF Electorate, Told
  <2>3. Ballot(s, st, v) = {}
    BY <1>3 DEF Ballot
  <2>4. Pairs(v) \subseteq Pairs(st)
    BY <1>3 DEF Pairs
  <2> QED
    BY <1>2, <1>3, <1>4, <1>5, <2>2, <2>3, <2>4, PairsAreAnnounced DEF Kept, KeptRecord
<1>9. \A x \in Group \ {s} : Kept(x)
  BY <1>5, <1>7, UntouchedIsKept
<1> QED
  BY <1>1, <1>7, <1>8, <1>9, PlainStepKeeps

\* sentinelCheckTiltCondition stops the timer and nothing else.
LEMMA TiltKeeps ==
  ASSUME GroupInv, NEW s \in Group, CheckTiltCondition(s)
  PROVE  GroupInv' /\ ConfigStep
<1> DEFINE v == [sent[s] EXCEPT !.tilt = TRUE]
<1>1. Put(s, v) /\ UNCHANGED <<setup, link, hello, meddled, crossed, won>>
  BY DEF CheckTiltCondition
<1>2. Calm(s) \in BOOLEAN /\ GoodRecord(sent[s], Calm(s)) /\ DOMAIN sent[s] = Fields /\ sent[s].foState # 6
  BY DEF Calm, GroupInv, RecordInv, GoodRecord, Live
<1>3. /\ Alike(sent[s], v) /\ SamePhase(sent[s], v) /\ Still(sent[s], v) /\ v.foState # 6
  BY <1>2 DEF Alike, SamePhase, SamePeers, SameSlaves, Still, Fields, InProgress, GoodRecord, Met
<1> HIDE DEF v
<1>4. Goes(sent[s], v, Calm(s))
  BY <1>2, <1>3, AlikeGoes
<1>5. GoodQuestions(setup.group, link')
  BY <1>1 DEF GroupInv, RecordInv
<1> QED
  BY <1>1, <1>3, <1>4, <1>5, OneGoingKeeps

\* What an administrator's command makes of a record.
Commanded(st, v, calm) ==
  /\ GoodRecord(v, calm) /\ v.leaderEpoch = st.leaderEpoch /\ (v.leader = st.leader \/ v.leader = Nil)
  /\ v.configEpoch = st.configEpoch /\ v.foState # 6
  /\ v.peers = st.peers \/ DOMAIN v.peers = {}
  /\ v.disk.peers = st.disk.peers \/ v.disk.peers = DOMAIN st.peers

\* An administrator's commands: the vote and the epoch are kept, and nothing is
\* said any more of what configurations agree on.
LEMMA CommandKeeps ==
  ASSUME GroupInv, NEW s \in Group, NEW v, Commanded(sent[s], v, Calm(s)'), Put(s, v), meddled' # {},
         crossed \subseteq crossed', UNCHANGED <<setup, hello, won>>, GoodQuestions(setup.group, link')
  PROVE  GroupInv' /\ ConfigStep
<1>1. \A x \in Group : /\ Calm(x) \in BOOLEAN /\ Calm(x)' \in BOOLEAN /\ (Calm(x)' => Calm(x))
                       /\ GoodRecord(sent[x], Calm(x))
  BY DEF Calm, GroupInv, RecordInv
<1>2. /\ DOMAIN sent' = Group /\ sent'[s] = v /\ \A x \in Group \ {s} : sent'[x] = sent[x]
      /\ cast' = cast \cup Ballot(s, sent[s], v)
  BY DEF Put, GroupInv, RecordInv
<1>3. Ballot(s, sent[s], v) = {} /\ cast' = cast
  BY <1>2 DEF Ballot, Commanded
<1>4. CastKept /\ RestKept /\ NoMoreCalm
  BY <1>1, <1>2, <1>3 DEF CastKept, RestKept, NoMoreCalm, GroupInv, RecordInv
<1>5. KeptRecord(s)
  <2>1. Fine(sent[s], v, Calm(s)) /\ VoteUp(sent[s], v)
    BY <1>1 DEF Fine, VoteUp, Commanded, GoodRecord, Live
  <2>2. Electorate(setup.group, s, sent[s], meddled # {}) /\ Told(sent[s], cast)
    BY DEF GroupInv, VoteInv
  <2>3. Electorate(setup.group, s, v, meddled' # {})
    BY <2>2 DEF Electorate, Commanded
  <2>4. Told(v, cast')
    BY <1>3, <2>2 DEF Told, Commanded
  <2> QED
    BY <1>1, <1>2, <1>3, <2>1, <2>3, <2>4 DEF KeptRecord, Commanded
<1>6. \A x \in Group \ {s} : KeptRecord(x)
  BY <1>2, <1>4, UntouchedIsKept DEF Kept
<1>7. RecordInv' /\ VoteInv' /\ ConfigStep
  BY <1>4, <1>5, <1>6, RecordsKeep DEF GroupInv
<1>8. WonInv'
  <2>1. \A x \in Group : sent[x].leaderEpoch \in Nat /\ sent'[x].leaderEpoch \in Nat
    BY <1>7 DEF GroupInv, RecordInv, GoodRecord, Live
  <2> QED
    BY <1>4, <1>7, <2>1, WonKeeps DEF GroupInv
<1>9. ConfInv'
  BY DEF ConfInv, Quiet
<1> QED
  BY <1>7, <1>8, <1>9 DEF GroupInv

\* SENTINEL RESET: the peers are forgotten, the vote and the file are not.
LEMMA ResetIsCommanded ==
  ASSUME NEW st, NEW calm \in BOOLEAN, GoodRecord(st, calm), calm => CurrentMasterAddress(st) = st.addr
  PROVE  Commanded(st, ResetMaster(st, FALSE), calm)
<1> DEFINE v == ResetMaster(st, FALSE)
<1>1. DOMAIN << >> = {}
  OBVIOUS
<1>2. /\ DOMAIN v = Fields /\ v.epoch = st.epoch /\ v.configEpoch = st.configEpoch /\ v.addr = st.addr
      /\ v.leaderEpoch = st.leaderEpoch /\ v.leader = Nil /\ v.foEpoch = st.foEpoch /\ v.foState = 0
      /\ v.flags = {} /\ v.promoted = Nil /\ DOMAIN v.slaves = {} /\ DOMAIN v.peers = {} /\ v.disk = st.disk
  BY <1>1 DEF ResetMaster, GoodRecord, Live, Fields, None
<1> HIDE DEF v
<1>3. Live(v, calm) /\ Met(v) /\ Saved(v, calm)
  BY <1>2 DEF GoodRecord, Live, Met, Saved, InProgress, CurrentMasterAddress
<1>4. Shaped(v)
  BY <1>2 DEF GoodRecord, Shaped, InProgress
<1>5. GoodRecord(v, calm)
  BY <1>3, <1>4, Zenon DEF GoodRecord
<1>6. /\ v.leaderEpoch = st.leaderEpoch /\ (v.leader = st.leader \/ v.leader = Nil)
      /\ v.configEpoch = st.configEpoch /\ v.foState # 6
      /\ v.peers = st.peers \/ DOMAIN v.peers = {}
      /\ v.disk.peers = st.disk.peers \/ v.disk.peers = DOMAIN st.peers
  BY <1>2
<1>7. Commanded(st, v, calm)
  BY <1>5, <1>6, Zenon DEF Commanded
<1> QED
  BY <1>7 DEF v

\* SENTINEL FAILOVER: an epoch is taken, whatever the state of the master.
LEMMA ForcedIsCommanded ==
  ASSUME NEW st, NEW calm \in BOOLEAN, GoodRecord(st, calm), ~InProgress(st), st.epoch < MaxEpoch
  PROVE  Commanded(st, [StartFailover(st) EXCEPT !.flags = @ \cup {"force"}], calm)
<1> DEFINE w == StartFailover(st)
           v == [w EXCEPT !.flags = @ \cup {"force"}]
<1>1. /\ DOMAIN w = Fields /\ w.epoch = st.epoch + 1 /\ w.configEpoch = st.configEpoch /\ w.addr = st.addr
      /\ w.leaderEpoch = st.leaderEpoch /\ w.leader = st.leader /\ w.foEpoch = st.epoch + 1
      /\ w.foState = 1 /\ w.flags = st.flags \cup {"inprog"} /\ w.promoted = st.promoted
      /\ w.slaves = st.slaves /\ w.peers = st.peers /\ w.disk = st.disk
  BY DEF StartFailover, GoodRecord, Live, Fields, WaitStart
<1> HIDE DEF w
<1>2. /\ DOMAIN v = Fields /\ v.epoch = st.epoch + 1 /\ v.configEpoch = st.configEpoch /\ v.addr = st.addr
      /\ v.leaderEpoch = st.leaderEpoch /\ v.leader = st.leader /\ v.foEpoch = st.epoch + 1
      /\ v.foState = 1 /\ InProgress(v) /\ v.promoted = st.promoted
      /\ v.slaves = st.slaves /\ v.peers = st.peers /\ v.disk = st.disk
  BY <1>1 DEF Fields, InProgress
<1> HIDE DEF v
<1>3. Live(v, calm) /\ Met(v) /\ Saved(v, calm)
  BY <1>2 DEF GoodRecord, Live, Met, Saved, InProgress, CurrentMasterAddress, ReconfSlaves
<1>4. Shaped(v)
  <2>1. st.foState = 0 /\ st.promoted = Nil
    BY DEF GoodRecord, Shaped
  <2>2. st.epoch + 1 <= MaxEpoch
    BY ElectionAssumption DEF GoodRecord, Live
  <2> QED
    BY <1>2, <2>1, <2>2 DEF GoodRecord, Shaped
<1>5. GoodRecord(v, calm)
  BY <1>3, <1>4, Zenon DEF GoodRecord
<1>6. /\ v.leaderEpoch = st.leaderEpoch /\ (v.leader = st.leader \/ v.leader = Nil)
      /\ v.configEpoch = st.configEpoch /\ v.foState # 6
      /\ v.peers = st.peers \/ DOMAIN v.peers = {}
      /\ v.disk.peers = st.disk.peers \/ v.disk.peers = DOMAIN st.peers
  BY <1>2
<1>7. Commanded(st, v, calm)
  BY <1>5, <1>6, Zenon DEF Commanded
<1> QED
  BY <1>7 DEF v, w

\* The failover of another master takes an epoch, and saves it.
LEMMA OtherMasterKeeps ==
  ASSUME GroupInv, NEW s \in Group, OtherMasterFailover(s)
  PROVE  GroupInv' /\ ConfigStep
<1> DEFINE st == sent[s]
           w == [st EXCEPT !.epoch = @ + 1]
           v == FlushConfig(w)
<1>1. /\ Put(s, v) /\ st.epoch < setup.epochs /\ UNCHANGED <<setup, link, hello, meddled, crossed, won>>
  BY DEF OtherMasterFailover
<1>2. Calm(s) \in BOOLEAN /\ GoodRecord(st, Calm(s)) /\ st.foState # 6 /\ st.epoch \in Nat
  BY DEF Calm, GroupInv, RecordInv, GoodRecord, Live
<1>3. st.epoch + 1 <= MaxEpoch
  BY <1>1, <1>2, SentinelAssumption, ElectionAssumption DEF GroupInv, RecordInv
<1>4. GoodQuestions(setup.group, link')
  BY <1>1 DEF GroupInv, RecordInv
<1>5. /\ DOMAIN w = Fields /\ w.epoch = st.epoch + 1 /\ w.configEpoch = st.configEpoch /\ w.addr = st.addr
      /\ w.leaderEpoch = st.leaderEpoch /\ w.leader = st.leader /\ w.foEpoch = st.foEpoch
      /\ w.foState = st.foState /\ w.flags = st.flags /\ w.promoted = st.promoted
      /\ w.slaves = st.slaves /\ w.peers = st.peers
  BY <1>2 DEF GoodRecord, Live, Fields
<1> HIDE DEF w, st
<1>6. Live(w, Calm(s)) /\ Met(w)
  BY <1>2, <1>5 DEF GoodRecord, Live, Met, InProgress
<1>7. Shaped(w)
  BY <1>2, <1>3, <1>5 DEF GoodRecord, Shaped, InProgress
<1>8. SamePeers(st, w) /\ CurrentMasterAddress(w) = CurrentMasterAddress(st)
  BY <1>5 DEF SamePeers, CurrentMasterAddress
<1>9. Goes(st, v, Calm(s))
  BY <1>2, <1>5, <1>6, <1>7, <1>8, FlushGoes
<1>10. SamePhase(w, v) /\ v.flags = w.flags /\ v.foEpoch = w.foEpoch
  BY <1>2, <1>6, <1>7, FlushSaves
<1>11. Still(st, v) /\ v.foState # 6
  BY <1>2, <1>5, <1>10 DEF Still, SamePhase, InProgress
<1> HIDE DEF v
<1> USE DEF st
<1> QED
  BY <1>1, <1>4, <1>9, <1>11, OneGoingKeeps

\* The commands of an administrator keep the invariant of the group.
LEMMA MeddlingKeeps ==
  ASSUME GroupInv, NEW s \in Group, Reset(s) \/ ForceFailover(s)
  PROVE  GroupInv' /\ ConfigStep
<1>1. /\ Calm(s) \in BOOLEAN /\ GoodRecord(sent[s], Calm(s)) /\ GoodRecord(sent[s], FALSE)
      /\ sent[s].foState # 6 /\ sent[s].epoch \in Nat
  BY DEF GroupInv, RecordInv, GoodRecord, Live, Saved, Calm
<1>2. setup.epochs \in Nat /\ setup.epochs <= MaxEpoch /\ MaxEpoch \in Nat
  BY SentinelAssumption, ElectionAssumption DEF GroupInv, RecordInv
<1>3. GoodQuestions(setup.group, link) /\ GoodQuestions(setup.group, [link EXCEPT ![s] = [t \in Group |-> Nil]])
  <2>1. GoodRow(setup.group, s, [t \in Group |-> Nil])
    BY DEF GoodRow
  <2> QED
    BY <2>1, NewRowIsGood DEF GroupInv, RecordInv
<1>4. CASE Reset(s)
  <2>1. /\ Put(s, ResetMaster(sent[s], FALSE)) /\ meddled' # {} /\ crossed \subseteq crossed'
        /\ GoodQuestions(setup.group, link') /\ UNCHANGED <<setup, hello, won>>
    BY <1>3, <1>4 DEF Reset
  <2>2. Calm(s)' \in BOOLEAN /\ (Calm(s)' => Calm(s) /\ CurrentMasterAddress(sent[s]) = sent[s].addr)
    BY <1>4 DEF Reset, Calm
  <2>3. GoodRecord(sent[s], Calm(s)')
    BY <1>1, <2>2
  <2>4. Commanded(sent[s], ResetMaster(sent[s], FALSE), Calm(s)')
    BY <2>2, <2>3, ResetIsCommanded
  <2> QED
    BY <2>1, <2>4, CommandKeeps
<1>5. CASE ForceFailover(s)
  <2>1. /\ Put(s, [StartFailover(sent[s]) EXCEPT !.flags = @ \cup {"force"}]) /\ meddled' # {}
        /\ GoodQuestions(setup.group, link') /\ UNCHANGED <<setup, hello, crossed, won>>
        /\ ~InProgress(sent[s]) /\ sent[s].epoch < setup.epochs
    BY <1>3, <1>5 DEF ForceFailover, InProgress
  <2>2. sent[s].epoch < MaxEpoch /\ Calm(s)' = Calm(s) /\ crossed \subseteq crossed'
    BY <1>1, <1>2, <2>1 DEF Calm
  <2>3. Commanded(sent[s], [StartFailover(sent[s]) EXCEPT !.flags = @ \cup {"force"}], Calm(s)')
    BY <1>1, <2>1, <2>2, ForcedIsCommanded
  <2> QED
    BY <2>1, <2>2, <2>3, CommandKeeps
<1> QED
  BY <1>4, <1>5

\* Every step of the group keeps the invariant, the votes and the configurations.
LEMMA SentinelNextKeeps ==
  ASSUME GroupInv, SentinelNext
  PROVE  GroupInv' /\ ConfigStep
<1>1. setup.group \subseteq Group
  BY GroupIsFinite DEF GroupInv
<1>2. ASSUME NEW s \in setup.group,
             \/ Tick(s) \/ SendHello(s) \/ ProcessHello(s) \/ CrashAndRestart(s)
             \/ CheckTiltCondition(s) \/ Reset(s) \/ ForceFailover(s) \/ OtherMasterFailover(s)
      PROVE  GroupInv' /\ ConfigStep
  BY <1>1, <1>2, TickKeeps, SendHelloKeeps, ProcessHelloKeeps, CrashKeeps, TiltKeeps, MeddlingKeeps,
     OtherMasterKeeps
<1>3. ASSUME NEW s \in setup.group, NEW i \in Redis, NEW long \in BOOLEAN, RefreshInstanceInfo(s, i, long)
      PROVE  GroupInv' /\ ConfigStep
  BY <1>1, <1>3, RefreshKeeps
<1>4. ASSUME NEW s \in setup.group, NEW t \in Group, NEW lost \in BOOLEAN, IsMasterDownByAddr(s, t, lost)
      PROVE  GroupInv' /\ ConfigStep
  BY <1>1, <1>4, IsMasterDownKeeps
<1>5. ASSUME \/ \E o \in orders : Obey(o)
             \/ \E i \in Redis : InstanceDown(i) \/ InstanceUp(i)
      PROVE  GroupInv' /\ ConfigStep
  <2>1. UNCHANGED <<setup, sent, link, hello, meddled, cast, won, crossed>>
    BY <1>5 DEF Obey, InstanceDown, InstanceUp
  <2> QED
    BY <2>1, UntouchedKeep
<1> QED
  BY <1>2, <1>3, <1>4, <1>5 DEF SentinelNext
-----------------------------------------------------------------------------
(* The beginning, and the theorems.                                        *)

\* The files a group can begin with, and what they make.
LEMMA FirstRecords ==
  ASSUME setup \in Setups, NEW s, NEW calm \in BOOLEAN
  PROVE  LET v == Loaded(FirstConfig(s))
         IN  /\ GoodRecord(v, calm) /\ ~InProgress(v) /\ v.foState # 6 /\ v.leader = Nil /\ v.flags = {}
             /\ Pairs(v) = {<<0, FirstMaster>>} /\ v.disk.peers = setup.group \ {s}
             /\ DOMAIN v.peers = setup.group \ {s} /\ \A t \in DOMAIN v.peers : v.peers[t].leader = Nil
<1> DEFINE c == FirstConfig(s)
<1>1. /\ c.epoch = 0 /\ c.configEpoch = 0 /\ c.leaderEpoch = 0 /\ c.addr = FirstMaster
      /\ c.slaves = Redis \ {FirstMaster} /\ c.peers = setup.group \ {s}
  BY DEF FirstConfig
<1> HIDE DEF c
<1>2. 0 <= MaxEpoch /\ FirstMaster \in Redis
  BY ElectionAssumption, SentinelAssumption
<1>3. /\ GoodRecord(Loaded(c), calm) /\ ~InProgress(Loaded(c))
      /\ Loaded(c).leader = Nil /\ Loaded(c).foState = 0 /\ Loaded(c).flags = {}
      /\ Loaded(c).disk = c /\ Pairs(Loaded(c)) = {<<c.configEpoch, c.addr>>}
      /\ DOMAIN Loaded(c).peers = c.peers /\ \A t \in c.peers : Loaded(c).peers[t].leader = Nil
  BY <1>1, <1>2, LoadedIsGood
<1> QED
  BY <1>1, <1>3 DEF c

\* The record made from the file of a sentinel that knows of the failover.
LEMMA SwitchedRecords ==
  ASSUME setup \in Setups, 1 <= MaxEpoch, NEW s, NEW p \in Redis, NEW calm \in BOOLEAN
  PROVE  LET v == Loaded(SwitchedConfig(s, p))
         IN  /\ GoodRecord(v, calm) /\ ~InProgress(v) /\ v.foState # 6 /\ v.leader = Nil /\ v.flags = {}
             /\ v.leaderEpoch = 1
             /\ Pairs(v) = {<<1, p>>} /\ v.disk.peers = setup.group \ {s}
             /\ DOMAIN v.peers = setup.group \ {s} /\ \A t \in DOMAIN v.peers : v.peers[t].leader = Nil
<1> DEFINE c == SwitchedConfig(s, p)
<1>1. /\ c.epoch = 1 /\ c.configEpoch = 1 /\ c.leaderEpoch = 1 /\ c.addr = p
      /\ c.slaves = Redis \ {p} /\ c.peers = setup.group \ {s}
  BY DEF SwitchedConfig
<1> HIDE DEF c
<1>2. /\ GoodRecord(Loaded(c), calm) /\ ~InProgress(Loaded(c)) /\ Loaded(c).leaderEpoch = c.leaderEpoch
      /\ Loaded(c).leader = Nil /\ Loaded(c).foState = 0 /\ Loaded(c).flags = {}
      /\ Loaded(c).disk = c /\ Pairs(Loaded(c)) = {<<c.configEpoch, c.addr>>}
      /\ DOMAIN Loaded(c).peers = c.peers /\ \A t \in c.peers : Loaded(c).peers[t].leader = Nil
  BY <1>1, LoadedIsGood
<1> QED
  BY <1>1, <1>2 DEF c

\* The record of the leader that has not ended it.
LEMMA UnfinishedRecord ==
  ASSUME setup \in Setups, 1 <= MaxEpoch, NEW s, NEW p \in Redis \ {FirstMaster}, NEW calm \in BOOLEAN
  PROVE  LET v == Unfinished(s, p)
         IN  /\ GoodRecord(v, calm) /\ v.foState = 5 /\ v.foEpoch = 1 /\ v.leader = s /\ v.leaderEpoch = 1
             /\ v.flags = {"inprog"} /\ Pairs(v) = {<<1, p>>} /\ v.disk.peers = setup.group \ {s}
             /\ DOMAIN v.peers = setup.group \ {s} /\ \A t \in DOMAIN v.peers : v.peers[t].leader = Nil
<1> DEFINE c == SwitchedConfig(s, p)
           v == Unfinished(s, p)
           slaves == [i \in Redis \ {FirstMaster} |-> IF i = p THEN {"promoted"} ELSE {}]
           peers == [t \in c.peers |-> NewPeer]
<1>1. /\ c.epoch = 1 /\ c.configEpoch = 1 /\ c.leaderEpoch = 1 /\ c.addr = p
      /\ c.slaves = Redis \ {p} /\ c.peers = setup.group \ {s}
  BY DEF SwitchedConfig
<1> HIDE DEF c
<1>2. /\ DOMAIN slaves = Redis \ {FirstMaster}
      /\ \A i \in DOMAIN slaves : ("promoted" \in slaves[i]) <=> (p = i)
      /\ DOMAIN peers = c.peers /\ \A t \in c.peers : peers[t] = NewPeer
      /\ DOMAIN NewPeer = PeerFields /\ NewPeer.leader = Nil
  BY DEF NewPeer, PeerFields
<1>3. /\ DOMAIN v = Fields /\ v.epoch = c.epoch /\ v.configEpoch = c.configEpoch
      /\ v.leaderEpoch = c.leaderEpoch /\ v.leader = s /\ v.foEpoch = 1 /\ v.foState = 5
      /\ v.flags = {"inprog"} /\ v.promoted = p /\ v.addr = FirstMaster /\ v.disk = c
      /\ v.slaves = slaves /\ v.peers = peers
  BY DEF Unfinished, Loaded, Fields, ReconfSlaves, c
<1> HIDE DEF v, slaves, peers
<1>4. p # Nil /\ FirstMaster \in Redis
  BY SentinelAssumption
<1>5. CurrentMasterAddress(v) = p /\ InProgress(v)
  BY <1>3, <1>4 DEF CurrentMasterAddress, InProgress, ReconfSlaves
<1>6. Live(v, calm) /\ Met(v)
  BY <1>1, <1>2, <1>3, <1>5 DEF Live, Met
<1>7. Shaped(v)
  BY <1>1, <1>2, <1>3, <1>4, <1>5 DEF Shaped
<1>8. Saved(v, calm)
  BY <1>1, <1>3, <1>5 DEF Saved
<1>9. Pairs(v) = {<<1, p>>}
  BY <1>1, <1>3, <1>5 DEF Pairs
<1>10. /\ DOMAIN v.peers = setup.group \ {s} /\ \A t \in DOMAIN v.peers : v.peers[t].leader = Nil
       /\ v.disk.peers = setup.group \ {s} /\ v.leaderEpoch = 1
  BY <1>1, <1>2, <1>3
<1> QED
  BY <1>3, <1>6, <1>7, <1>8, <1>9, <1>10 DEF GoodRecord, v

\* The group begins in its invariant; a majority has voted for the failover that is over.
LEMMA SentinelInitIsGood == SentinelInit => GroupInv
<1> SUFFICES ASSUME SentinelInit PROVE GroupInv
  OBVIOUS
<1>1. /\ setup \in Setups /\ GoodQuestions(setup.group, link) /\ GoodHello(setup.group, hello)
      /\ hello = Nil /\ meddled = {} /\ crossed = {} /\ \A s \in Group : Calm(s) \in BOOLEAN
  BY DEF SentinelInit, GoodQuestions, GoodRow, GoodHello, Calm
<1> DEFINE Start(s, v) == /\ GoodRecord(v, Calm(s)) /\ v.foState # 6
                          /\ v.disk.peers = setup.group \ {s} /\ DOMAIN v.peers = setup.group \ {s}
                          /\ \A t \in DOMAIN v.peers : v.peers[t].leader = Nil
                          /\ v.flags \subseteq {"inprog"}
<1>2. \A s \in Group : LET v == Loaded(FirstConfig(s))
                       IN  /\ Start(s, v) /\ ~InProgress(v) /\ v.leader = Nil
                           /\ Pairs(v) = {<<0, FirstMaster>>}
  BY <1>1, FirstRecords
<1>3. ASSUME DOMAIN sent = Group, \A s \in Group : Start(s, sent[s])
      PROVE  RecordInv /\ \A s \in Group : Electorate(setup.group, s, sent[s], meddled # {}) /\ Told(sent[s], cast)
  BY <1>1, <1>3 DEF RecordInv, Electorate, Told
<1>4. ASSUME JustConfigured PROVE GroupInv
  <2>1. /\ DOMAIN sent = Group /\ \A s \in Group : sent[s] = Loaded(FirstConfig(s))
        /\ cast = {} /\ won = {}
    BY <1>4 DEF JustConfigured
  <2>2. \A s \in Group : /\ Start(s, sent[s]) /\ ~InProgress(sent[s]) /\ sent[s].leader = Nil
                         /\ Pairs(sent[s]) = {<<0, FirstMaster>>}
    BY <1>2, <2>1
  <2> HIDE DEF Start
  <2>3. RecordInv /\ VoteInv
    BY <1>3, <2>1, <2>2 DEF VoteInv, OwnVote
  <2>4. WonInv
    BY <2>1 DEF WonInv
  <2>5. ConfInv
    <3>1. Announced \subseteq {<<0, FirstMaster>>}
      BY <1>1, <2>2 DEF Announced, Pairs
    <3> QED
      BY <2>2, <3>1 DEF ConfInv, Undecided, Known, Agreeing
  <2> QED
    BY <2>3, <2>4, <2>5 DEF GroupInv
<1>5. ASSUME NEW p \in Redis \ {FirstMaster}, Switched(setup.leader, p) PROVE GroupInv
  <2> DEFINE l == setup.leader
             w == [epoch |-> 1, leader |-> l, fresh |-> TRUE]
             voters == setup.group \ setup.behind
  <2>1. /\ DOMAIN sent = Group /\ setup.after # "nothing"
        /\ \A s \in Group :
             sent[s] = IF s \in setup.behind \/ s \notin setup.group THEN Loaded(FirstConfig(s))
                       ELSE IF s = l /\ setup.after = "unfinished" THEN Unfinished(s, p)
                       ELSE Loaded(SwitchedConfig(s, p))
        /\ cast = {<<s, 1, l>> : s \in voters} /\ won = {w}
    BY <1>5 DEF Switched
  <2>2. /\ setup.group \subseteq Group /\ l \in setup.group /\ setup.behind \subseteq setup.group \ {l}
        /\ 2 * Cardinality(setup.behind) < Cardinality(setup.group) /\ 1 <= MaxEpoch
    BY <1>1, <2>1, SentinelAssumption, ElectionAssumption
  <2> DEFINE Old(s, v) == ~InProgress(v) /\ v.leader = Nil /\ Pairs(v) = {<<0, FirstMaster>>}
             New(s, v) == ~InProgress(v) /\ v.leader = Nil /\ v.leaderEpoch = 1 /\ Pairs(v) = {<<1, p>>}
             Mid(s, v) == /\ s = l /\ v.leader = s /\ v.leaderEpoch = 1 /\ v.foState = 5 /\ v.foEpoch = 1
                          /\ Pairs(v) = {<<1, p>>}
  <2>3. \A s \in Group : /\ Start(s, Loaded(SwitchedConfig(s, p))) /\ New(s, Loaded(SwitchedConfig(s, p)))
                         /\ Start(s, Unfinished(s, p)) /\ (s = l => Mid(s, Unfinished(s, p)))
    BY <1>1, <2>2, SwitchedRecords, UnfinishedRecord
  <2>4. \A s \in Group : Start(s, Loaded(FirstConfig(s))) /\ Old(s, Loaded(FirstConfig(s)))
    BY <1>2
  <2> HIDE DEF Start, Old, New, Mid, l
  <2>5. \A s \in Group : /\ Start(s, sent[s])
                         /\ \/ Old(s, sent[s]) /\ s \notin voters
                            \/ New(s, sent[s]) \/ Mid(s, sent[s])
    BY <2>1, <2>3, <2>4
  <2>6. RecordInv
    BY <1>3, <2>1, <2>5
  <2>7. VoteInv
    <3>1. \A s \in Group : OwnVote(s, sent[s], cast)
      BY <2>1, <2>2, <2>5 DEF OwnVote, Old, New, Mid
    <3>2. \A v \in cast : v[1] \in Group /\ v[2] \in Nat /\ v[2] <= sent[v[1]].leaderEpoch
      <4> TAKE v \in cast
      <4>1. PICK s \in voters : v = <<s, 1, l>>
        BY <2>1
      <4>2. sent[s].leaderEpoch = 1 /\ s \in Group
        BY <2>2, <2>5 DEF New, Mid
      <4> QED
        BY <4>1, <4>2
    <3>3. \A v, x \in cast : v[1] = x[1] /\ v[2] = x[2] => v[3] = x[3]
      BY <2>1
    <3> QED
      BY <1>3, <2>1, <2>5, <3>1, <3>2, <3>3 DEF VoteInv
  <2>8. WonInv
    <3>1. l \in Group /\ l \in voters
      BY <2>2
    <3>2. sent[l].leaderEpoch = 1
      BY <2>5, <3>1 DEF New, Mid
    <3>3. w.epoch = 1 /\ w.leader = l
      OBVIOUS
    <3> HIDE DEF w
    <3>4. Backed(setup.group, cast, w)
      <4>1. Backers(setup.group, cast, 1, l) = voters
        BY <2>1 DEF Backers
      <4>2. IsFiniteSet(setup.group) /\ IsFiniteSet(setup.behind)
        BY <2>2, <2>6, GroupIsFinite, FS_Subset
      <4>3. Cardinality(voters) = Cardinality(setup.group) - Cardinality(setup.group \cap setup.behind)
        BY <4>2, FS_Difference
      <4>4. setup.group \cap setup.behind = setup.behind
        BY <2>2
      <4>5. Cardinality(setup.group) \in Nat /\ Cardinality(setup.behind) \in Nat
        BY <4>2, FS_CardinalityType
      <4>6. 2 * Cardinality(voters) > Cardinality(setup.group)
        <5>1. Cardinality(voters) = Cardinality(setup.group) - Cardinality(setup.behind)
          BY <4>3, <4>4
        <5> HIDE DEF voters
        <5> QED
          BY <2>2, <4>5, <5>1
      <4> QED
        BY <3>3, <4>1, <4>6 DEF Backed
    <3> QED
      BY <2>1, <3>1, <3>2, <3>3, <3>4 DEF WonInv
  <2>9. ConfInv
    <3>1. Announced \subseteq {<<0, FirstMaster>>, <<1, p>>}
      <4>1. \A s \in Group : Pairs(sent[s]) \subseteq {<<0, FirstMaster>>, <<1, p>>}
        BY <2>5 DEF Old, New, Mid
      <4> QED
        BY <1>1, <4>1 DEF Announced, Pairs
    <3>2. w \in won /\ w.epoch = 1 /\ w.leader = l
      BY <2>1
    <3> HIDE DEF w
    <3>3. \A s \in Group : Undecided(s, sent[s], Announced, won)
      BY <2>5, <3>2 DEF Undecided, Old, New, Mid
    <3>4. Known(Announced, won) /\ Agreeing(Announced)
      BY <3>1, <3>2 DEF Known, Agreeing
    <3> QED
      BY <3>3, <3>4 DEF ConfInv
  <2> QED
    BY <2>6, <2>7, <2>8, <2>9 DEF GroupInv
<1> QED
  BY <1>4, <1>5 DEF SentinelInit

\* The invariant of the group holds of every behaviour; a step that changes a
\* record is one of ConfigStep.
LEMMA GroupInvIsInductive ==
  /\ Init => GroupInv
  /\ GroupInv /\ [Next]_vars => GroupInv' /\ (sent' = sent \/ ConfigStep)
<1>1. Init => GroupInv
  BY SentinelInitIsGood DEF Init
<1>2. ASSUME GroupInv, [Next]_vars PROVE GroupInv' /\ (sent' = sent \/ ConfigStep)
  <2>1. UNCHANGED sentinelVars => GroupInv' /\ sent' = sent
    BY <1>2, UntouchedKeep DEF sentinelVars
  <2>2. CASE SentinelStep
    BY <1>2, <2>2, SentinelNextKeeps DEF SentinelStep
  <2>3. CASE ElectionStep \/ ScriptsStep \/ LinksStep \/ UNCHANGED vars
    BY <2>1, <2>3 DEF ElectionStep, ScriptsStep, LinksStep, vars
  <2> QED
    BY <1>2, <2>2, <2>3 DEF Next
<1> QED
  BY <1>1, <1>2

\* A sentinel never takes back a vote, over restarts from the configuration file
\* (sentinelFlushConfig), hellos (sentinelProcessHelloMessage), failovers, forced
\* ones and resets; and the configuration of a sentinel that is not in crossed gets
\* older only where it keeps the same master.  For every group of sentinels, every
\* set of Redis instances, every setup and any number of faults.  A sentinel in
\* crossed has taken over a newer epoch in the middle of its failover, or was reset
\* between a promotion and its end; the code gives it an older configuration with
\* another master (sentinel.c:2150), so nothing is claimed of its configuration.
THEOREM ConfigsNeverGetOlder == Spec => ConfigNeverGetsOlder
<1>1. Init => GroupInv
  BY GroupInvIsInductive
<1>2. GroupInv /\ [Next]_vars => GroupInv'
  BY GroupInvIsInductive
<1>3. GroupInv /\ [Next]_vars =>
        [\A s \in Group :
           /\ sent'[s].leaderEpoch >= sent[s].leaderEpoch
           /\ sent'[s].configEpoch < sent[s].configEpoch /\ s \notin crossed
                => CurrentMasterAddress(sent'[s]) = CurrentMasterAddress(sent[s])]_sent
  BY GroupInvIsInductive DEF ConfigStep, Fine, Calm
<1> QED
  BY <1>1, <1>2, <1>3, PTL DEF Spec, ConfigNeverGetsOlder

\* Every record is well formed (sentinel.c:3740-4190, 2315-2414) in every run.  And
\* in every run without SENTINEL RESET and SENTINEL FAILOVER, in which no sentinel
\* took over a newer epoch in the middle of its failover and every leader was
\* elected in the newest epoch it knew (fresh), two configurations of the same epoch
\* name the same master, with any number of sentinels, instances, epochs, lost
\* answers, restarts and failovers of other masters: a majority votes once in an
\* epoch, so one leader wins it, and only that leader's promotion makes a
\* configuration of it.  Without these conditions the code does not have it: README,
\* section 5.
THEOREM ConfigurationsAlwaysAgree == Spec => []ConfigurationsAgree
<1>1. Init => GroupInv
  BY GroupInvIsInductive
<1>2. GroupInv /\ [Next]_vars => GroupInv'
  BY GroupInvIsInductive
<1>3. GroupInv => ConfigurationsAgree
  <2> SUFFICES ASSUME GroupInv PROVE ConfigurationsAgree
    OBVIOUS
  <2>1. SentinelTypeOK
    <3> SUFFICES ASSUME NEW s \in Group
                 PROVE  LET st == sent[s] IN
                        /\ st.epoch \in 0..MaxEpoch /\ st.leaderEpoch \in 0..MaxEpoch
                        /\ st.addr \in Redis /\ st.addr \notin DOMAIN st.slaves
                        /\ DOMAIN st.slaves \subseteq Redis /\ DOMAIN st.peers \subseteq Group \ {s}
                        /\ st.foState \in None..ReconfSlaves
                        /\ ("inprog" \in st.flags) <=> (st.foState # None)
                        /\ (st.promoted # Nil) <=> (st.foState >= SendSlaveOfNoOne)
                        /\ \A i \in DOMAIN st.slaves :
                             ("promoted" \in st.slaves[i]) <=> (st.promoted = i)
      BY DEF SentinelTypeOK
    <3>1. Live(sent[s], Calm(s)) /\ Shaped(sent[s]) /\ sent[s].foState # 6
      BY DEF GroupInv, RecordInv, GoodRecord
    <3>2. sent[s].epoch \in 0..MaxEpoch /\ sent[s].leaderEpoch \in 0..MaxEpoch
      BY <3>1, ElectionAssumption DEF Live, Shaped
    <3>3. DOMAIN sent[s].peers \subseteq Group \ {s}
      BY GroupIsFinite DEF GroupInv, VoteInv, Electorate
    <3>4. sent[s].foState \in None..ReconfSlaves
      BY <3>1 DEF Shaped, None, ReconfSlaves
    <3> QED
      BY <3>1, <3>2, <3>3, <3>4 DEF Shaped, InProgress, None, SendSlaveOfNoOne
  <2>2. SameEpochSameMaster
    BY DEF GroupInv, ConfInv, Quiet, Agreeing, SameEpochSameMaster
  <2> QED
    BY <2>1, <2>2 DEF ConfigurationsAgree
<1> QED
  BY <1>1, <1>2, <1>3, PTL DEF Spec
=============================================================================
