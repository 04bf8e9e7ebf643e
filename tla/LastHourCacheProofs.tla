------------------------ MODULE LastHourCacheProofs ------------------------
(***************************************************************************)
(* A proof about LastHourCache, for any number of updates and nodes and    *)
(* any length of the window: an observation that was written is lost only  *)
(* by an update that had read before, or by one whose GET had failed.      *)
(***************************************************************************)
EXTENDS LastHourCache, SequenceTheorems, TLAPS

Observations == Updates \X Nat
Lists        == Seq(Observations)
Stages       == {"new", "get", "got", "blind", "set", "overwrite", "done", "failed", "lost"}
Calls        == [stage : Stages, node : CacheNodes, time : Nat, list : Lists]

CacheTypeOK ==
  /\ cache \in [CacheNodes -> Lists]
  /\ calls \in [Updates -> Calls]
  /\ clock \in Nat

Own(u) == <<u, calls[u].time>>

\* u's observation is of the last hour, it was written, nobody who had read
\* before was still to write, and nobody whose GET failed wrote since.
Due(u) == calls[u].stage = "done" /\ u \notin exposed \cup wiped /\ calls[u].time + HOUR >= clock

\* What another update of the node has read and will write.
Reads(v, u) == calls[v].stage \in {"got", "set"} /\ calls[v].node = calls[u].node

\* Inductive: also those who are to write the list next have read what is due.
NobodyForgets ==
  \A u \in Updates : Due(u) =>
    /\ Contains(cache[calls[u].node], Own(u))
    /\ \A v \in Updates : Reads(v, u) => Contains(calls[v].list, Own(u))

WritesItsOwn ==
  \A u \in Updates : calls[u].stage \in {"set", "overwrite"} => Contains(calls[u].list, Own(u))

CacheInv == CacheTypeOK /\ NobodyForgets /\ WritesItsOwn

-----------------------------------------------------------------------------
\* What remains after the old ones at the front were dropped, and the new one.
LEMMA PruneKeeps ==
  ASSUME NEW list \in Lists, NEW o, NEW own \in Observations, Contains(list, o),
         NEW first \in 1..Len(list), \A i \in 1..(first - 1) : list[i] # o
  PROVE  Contains(Append(SubSeq(list, first, Len(list)), own), o)
<1>. DEFINE rest == SubSeq(list, first, Len(list))
<1>1. PICK i \in 1..Len(list) : list[i] = o
  BY DEF Contains
<1>2. Len(list) \in Nat /\ i >= first
  BY <1>1 DEF Lists
<1>3. /\ rest \in Lists /\ Len(rest) = Len(list) - first + 1
      /\ rest[i - first + 1] = o
  BY <1>1, <1>2 DEF Lists
<1>. HIDE DEF rest
<1>4. i - first + 1 \in 1..Len(rest)
  BY <1>2, <1>3
<1>5. /\ Len(Append(rest, own)) = Len(rest) + 1
      /\ Append(rest, own)[i - first + 1] = rest[i - first + 1]
  BY <1>3, <1>4 DEF Lists
<1>6. i - first + 1 \in 1..Len(Append(rest, own))
  BY <1>2, <1>3, <1>4, <1>5
<1>7. Contains(Append(rest, own), o)
  BY <1>3, <1>5, <1>6 DEF Contains
<1>. QED
  BY <1>7 DEF rest

\* What is appended is in the list.
LEMMA AppendHas ==
  ASSUME NEW list \in Lists, NEW own \in Observations
  PROVE  Append(list, own) \in Lists /\ Contains(Append(list, own), own)
<1>1. /\ Append(list, own) \in Lists
      /\ Len(Append(list, own)) = Len(list) + 1 /\ Len(list) \in Nat
      /\ Append(list, own)[Len(list) + 1] = own
  BY DEF Lists
<1>. QED
  BY <1>1 DEF Contains

\* An empty list holds nothing.
LEMMA NothingContained == \A o : ~Contains(<< >>, o)
BY DEF Contains

-----------------------------------------------------------------------------
\* The fields of a call.
LEMMA CallFields ==
  ASSUME NEW c \in Calls
  PROVE  c.stage \in Stages /\ c.node \in CacheNodes /\ c.time \in Nat /\ c.list \in Lists
BY DEF Calls

\* A call as its next stage leaves it: it keeps its node and its time.
Moved(c, d, stage, list) ==
  d \in Calls /\ d.stage = stage /\ d.list = list /\ d.node = c.node /\ d.time = c.time

\* Setting the stage and the list does that.
LEMMA CallMoves ==
  ASSUME NEW c \in Calls, NEW stage \in Stages, NEW list \in Lists
  PROVE  Moved(c, [c EXCEPT !.stage = stage, !.list = list], stage, list)
BY DEF Calls, Moved

\* A call that has not begun.
LEMMA NoCallType == NoCall \in Calls /\ NoCall.stage = "new"
<1>1. << >> \in Lists
  BY DEF Lists
<1>. QED
  BY <1>1, CacheAssumption DEF NoCall, Calls, Stages

\* The invariant holds at first.
LEMMA CacheStarts == CacheInit => CacheInv
<1>. SUFFICES ASSUME CacheInit PROVE CacheInv
  OBVIOUS
<1>1. << >> \in Lists
  BY DEF Lists
<1>2. CacheTypeOK
  BY <1>1, NoCallType DEF CacheInit, CacheTypeOK
<1>3. \A u \in Updates : calls[u].stage = "new"
  BY NoCallType DEF CacheInit
<1>. QED
  BY <1>2, <1>3 DEF CacheInv, NobodyForgets, WritesItsOwn, Due

\* A step that leaves the lists of Redis alone keeps them, if no call that was
\* not over is over now and what is read or to be written has all that is due.
LEMMA ReadersStay ==
  ASSUME CacheInv, cache' = cache, exposed' = exposed, wiped' = wiped, clock \in Nat, clock' \in Nat, clock' >= clock,
         calls' \in [Updates -> Calls],
         \A u \in Updates : calls'[u].stage = "done" => calls'[u] = calls[u],
         \A v \in Updates :
           calls'[v].stage \in {"got", "set"} =>
             \A u \in Updates : /\ calls[u].stage = "done" /\ calls[u].node = calls'[v].node
                                /\ Due(u)
                               => Contains(calls'[v].list, Own(u)),
         \A v \in Updates :
           calls'[v].stage \in {"set", "overwrite"} => Contains(calls'[v].list, <<v, calls'[v].time>>)
  PROVE  CacheInv'
<1>1. CacheTypeOK'
  BY DEF CacheInv, CacheTypeOK
<1>2. ASSUME NEW u \in Updates, Due(u)'
      PROVE  /\ calls'[u] = calls[u] /\ Due(u)
             /\ Contains(cache'[calls'[u].node], Own(u)')
             /\ \A v \in Updates : Reads(v, u)' => Contains(calls'[v].list, Own(u)')
  <2>1. calls'[u] = calls[u] /\ calls[u].stage = "done" /\ u \notin exposed \cup wiped
    BY <1>2 DEF Due
  <2>2. calls[u].time \in Nat /\ HOUR \in Nat
    BY CacheAssumption, CallFields DEF CacheInv, CacheTypeOK
  <2>3. calls[u].time + HOUR >= clock
    BY <1>2, <2>1, <2>2 DEF Due
  <2>4. Due(u)
    BY <2>1, <2>3 DEF Due
  <2>5. Own(u)' = Own(u)
    BY <2>1 DEF Own
  <2>. QED
    BY <2>1, <2>4, <2>5 DEF CacheInv, NobodyForgets, Reads
<1>3. NobodyForgets'
  BY <1>2 DEF NobodyForgets
<1>4. WritesItsOwn'
  BY DEF WritesItsOwn, Own
<1>. QED
  BY <1>1, <1>3, <1>4 DEF CacheInv

\* A call goes on and is not over.
LEMMA OneCallGoesOn ==
  ASSUME CacheInv, NEW u \in Updates, NEW c \in Calls, c.stage # "done",
         calls' = [calls EXCEPT ![u] = c], UNCHANGED <<cache, clock, exposed, wiped>>,
         c.stage \in {"got", "set"} =>
           \A w \in Updates : Due(w) /\ calls[w].node = c.node => Contains(c.list, Own(w)),
         c.stage \in {"set", "overwrite"} => Contains(c.list, <<u, c.time>>)
  PROVE  CacheInv'
<1>1. calls \in [Updates -> Calls] /\ clock \in Nat
  BY DEF CacheInv, CacheTypeOK
<1>2. calls' \in [Updates -> Calls]
  BY <1>1
<1>3. \A v \in Updates : calls'[v] = IF v = u THEN c ELSE calls[v]
  BY <1>1
<1>4. \A v \in Updates : calls'[v].stage = "done" => calls'[v] = calls[v]
  BY <1>3
<1>5. ASSUME NEW v \in Updates, calls'[v].stage \in {"got", "set"},
             NEW w \in Updates, calls[w].node = calls'[v].node, Due(w)
      PROVE  Contains(calls'[v].list, Own(w))
  <2>1. CASE v = u
    BY <1>3, <1>5, <2>1
  <2>2. CASE v # u
    BY <1>3, <1>5, <2>2 DEF CacheInv, NobodyForgets, Reads
  <2>. QED
    BY <2>1, <2>2
<1>6. \A v \in Updates : calls'[v].stage \in {"set", "overwrite"} => Contains(calls'[v].list, <<v, calls'[v].time>>)
  BY <1>3 DEF CacheInv, WritesItsOwn, Own
<1>. QED
  BY <1>1, <1>2, <1>4, <1>5, <1>6, ReadersStay

\* An update begins (redis_pull.js:25-27).
LEMMA UpdateNodeKeeps ==
  ASSUME CacheInv, NEW u \in Updates, NEW n \in CacheNodes, NEW time \in Nat, UpdateNode(u, n, time)
  PROVE  CacheInv'
<1>. DEFINE c == [NoCall EXCEPT !.stage = "get", !.node = n, !.time = time]
<1>1. c \in Calls /\ c.stage = "get"
  BY NoCallType DEF Calls, Stages
<1>2. calls' = [calls EXCEPT ![u] = c] /\ UNCHANGED <<cache, clock, exposed, wiped>>
  BY DEF UpdateNode, To
<1>. HIDE DEF c
<1>. QED
  BY <1>1, <1>2, OneCallGoesOn

\* GET reads the list that Redis has.
LEMMA CacheGetKeeps ==
  ASSUME CacheInv, NEW u \in Updates, CacheGet(u)
  PROVE  CacheInv'
<1>. DEFINE c == [calls[u] EXCEPT !.stage = "got", !.list = cache[calls[u].node]]
<1>1. calls[u] \in Calls /\ cache \in [CacheNodes -> Lists]
  BY DEF CacheInv, CacheTypeOK
<1>2. cache[calls[u].node] \in Lists
  BY <1>1, CallFields
<1>3. /\ c \in Calls /\ c.stage = "got" /\ c.node = calls[u].node
      /\ c.list = cache[calls[u].node]
  <2>1. "got" \in Stages
    BY DEF Stages
  <2>2. Moved(calls[u], c, "got", cache[calls[u].node])
    BY <1>1, <1>2, <2>1, CallMoves
  <2>. QED
    BY <2>2 DEF Moved
<1>4. calls' = [calls EXCEPT ![u] = c] /\ UNCHANGED <<cache, clock, exposed, wiped>>
  BY DEF CacheGet, To
<1>. HIDE DEF c
<1>5. \A w \in Updates : Due(w) /\ calls[w].node = c.node => Contains(c.list, Own(w))
  BY <1>3 DEF CacheInv, NobodyForgets
<1>. QED
  BY <1>3, <1>4, <1>5, OneCallGoesOn

\* A GET that fails, or a SET that fails, writes nothing.
LEMMA CacheFailureKeeps ==
  ASSUME CacheInv, NEW u \in Updates, CacheGetFails(u) \/ CacheSetFails(u)
  PROVE  CacheInv'
<1>1. calls[u] \in Calls /\ << >> \in Lists /\ {"blind", "failed"} \subseteq Stages
  BY DEF CacheInv, CacheTypeOK, Lists, Stages
<1>2. CASE CacheGetFails(u)
  <2>. DEFINE c == [calls[u] EXCEPT !.stage = "blind"]
  <2>1. c \in Calls /\ c.stage = "blind"
    BY <1>1 DEF Calls
  <2>2. calls' = [calls EXCEPT ![u] = c] /\ UNCHANGED <<cache, clock, exposed, wiped>>
    BY <1>2 DEF CacheGetFails, To
  <2>. HIDE DEF c
  <2>. QED
    BY <2>1, <2>2, OneCallGoesOn
<1>3. CASE CacheSetFails(u)
  <2>. DEFINE c == [calls[u] EXCEPT !.stage = "failed", !.list = << >>]
  <2>1. Moved(calls[u], c, "failed", << >>)
    BY <1>1, CallMoves
  <2>2. c \in Calls /\ c.stage = "failed"
    BY <2>1 DEF Moved
  <2>3. calls' = [calls EXCEPT ![u] = c] /\ UNCHANGED <<cache, clock, exposed, wiped>>
    BY <1>3 DEF CacheSetFails, To
  <2>. HIDE DEF c
  <2>. QED
    BY <2>2, <2>3, OneCallGoesOn
<1>. QED
  BY <1>2, <1>3

\* The loop drops only what is old, from the front (redis_pull.js:28-48).
LEMMA CacheGotValueKeeps ==
  ASSUME CacheInv, NEW u \in Updates, CacheGotValue(u)
  PROVE  CacheInv'
<1>. DEFINE list    == calls[u].list
            own     == <<u, calls[u].time>>
            c(kept) == [calls[u] EXCEPT !.stage = "set", !.list = Append(kept, own)]
<1>1. /\ calls[u] \in Calls /\ clock \in Nat
      /\ UNCHANGED <<cache, clock, exposed, wiped>>
  BY DEF CacheInv, CacheTypeOK, CacheGotValue
<1>2. list \in Lists /\ own \in Observations
  BY <1>1, CallFields DEF Observations
<1>3. calls[u].stage = "got" =>
        \A w \in Updates : Due(w) /\ calls[w].node = calls[u].node => Contains(list, Own(w))
  BY <1>1 DEF CacheInv, NobodyForgets, Reads
<1>4. ASSUME NEW kept \in Lists, calls' = [calls EXCEPT ![u] = c(kept)],
             \A w \in Updates :
               Due(w) /\ calls[w].node = calls[u].node => Contains(Append(kept, own), Own(w))
      PROVE  CacheInv'
  <2>1. Append(kept, own) \in Lists /\ Contains(Append(kept, own), own)
    BY <1>2, AppendHas
  <2>2. /\ c(kept) \in Calls /\ c(kept).stage = "set" /\ c(kept).node = calls[u].node
        /\ c(kept).list = Append(kept, own) /\ c(kept).time = calls[u].time
    <3>1. "set" \in Stages
      BY DEF Stages
    <3>2. Moved(calls[u], c(kept), "set", Append(kept, own))
      BY <1>1, <2>1, <3>1, CallMoves
    <3>. QED
      BY <3>2 DEF Moved
  <2>. HIDE DEF c
  <2>. QED
    BY <1>1, <1>4, <2>1, <2>2, OneCallGoesOn
<1>5. CASE calls[u].stage = "got" /\ list = << >> /\ calls' = [calls EXCEPT ![u] = c(<< >>)]
  <2>1. << >> \in Lists
    BY DEF Lists
  <2>2. \A w \in Updates : ~(Due(w) /\ calls[w].node = calls[u].node)
    BY <1>3, <1>5, NothingContained
  <2>. QED
    BY <1>4, <1>5, <2>1, <2>2
<1>6. ASSUME calls[u].stage = "got", NEW first \in 1..Len(list), \A i \in 1..(first - 1) : Old(list[i]),
             calls' = [calls EXCEPT ![u] = c(SubSeq(list, first, Len(list)))]
      PROVE  CacheInv'
  <2>1. SubSeq(list, first, Len(list)) \in Lists
    BY <1>2, <1>6 DEF Lists
  <2>2. ASSUME NEW w \in Updates, Due(w), calls[w].node = calls[u].node
        PROVE  Contains(Append(SubSeq(list, first, Len(list)), own), Own(w))
    <3>1. calls[w].time \in Nat /\ HOUR \in Nat
      BY CacheAssumption, CallFields DEF CacheInv, CacheTypeOK
    <3>2. ~Old(Own(w))
      BY <1>1, <2>2, <3>1 DEF Old, Due, Own
    <3>3. \A i \in 1..(first - 1) : list[i] # Own(w)
      BY <1>6, <3>2
    <3>. HIDE DEF list, own
    <3>. QED
      BY <1>2, <1>3, <1>6, <2>2, <3>3, PruneKeeps DEF list
  <2>. HIDE DEF c, list, own
  <2>. QED
    BY <1>4, <1>6, <2>1, <2>2
<1>7. CASE calls' = calls
  BY <1>1, <1>7 DEF CacheInv, CacheTypeOK, NobodyForgets, WritesItsOwn, Due, Own, Reads
<1>8. CASE calls' = [calls EXCEPT ![u] = [calls[u] EXCEPT !.stage = "overwrite", !.list = <<own>>]]
  <2>. DEFINE d == [calls[u] EXCEPT !.stage = "overwrite", !.list = <<own>>]
  <2>1. <<own>> \in Lists /\ Contains(<<own>>, own)
    BY <1>2 DEF Lists, Contains
  <2>2. "overwrite" \in Stages
    BY DEF Stages
  <2>3. Moved(calls[u], d, "overwrite", <<own>>)
    BY <1>1, <2>1, <2>2, CallMoves
  <2>4. d \in Calls /\ d.stage = "overwrite" /\ Contains(d.list, <<u, d.time>>)
    BY <2>1, <2>3 DEF Moved
  <2>5. calls' = [calls EXCEPT ![u] = d]
    BY <1>8
  <2>. HIDE DEF d
  <2>. QED
    BY <1>1, <2>4, <2>5, OneCallGoesOn
<1>. QED
  BY <1>5, <1>6, <1>7, <1>8 DEF CacheGotValue, To

\* SET writes what was read and its own: what is lost by it is exposed.
LEMMA CacheSetKeeps ==
  ASSUME CacheInv, NEW u \in Updates, CacheSet(u)
  PROVE  CacheInv'
<1>. DEFINE c == [calls[u] EXCEPT !.stage = "done", !.list = << >>]
            n == calls[u].node
<1>1. /\ calls \in [Updates -> Calls] /\ calls[u] \in Calls /\ cache \in [CacheNodes -> Lists]
      /\ calls[u].stage \in {"set", "overwrite"} /\ clock' = clock /\ clock \in Nat
      /\ calls' = [calls EXCEPT ![u] = c]
      /\ cache' = [cache EXCEPT ![n] = calls[u].list]
  BY DEF CacheInv, CacheTypeOK, CacheSet, To
<1>2. << >> \in Lists
  BY DEF Lists
<1>3. /\ c \in Calls /\ c.stage = "done" /\ c.node = n /\ c.time = calls[u].time
      /\ n \in CacheNodes /\ calls[u].list \in Lists
  <2>1. "done" \in Stages
    BY DEF Stages
  <2>2. Moved(calls[u], c, "done", << >>)
    BY <1>1, <1>2, <2>1, CallMoves
  <2>. QED
    BY <1>1, <2>2, CallFields DEF Moved
<1>4. /\ exposed \subseteq exposed'
      /\ (\E v \in Updates \ {u} : calls[v].stage \in {"got", "set"} /\ calls[v].node = n)
            => u \in exposed'
      /\ wiped \subseteq wiped'
      /\ calls[u].stage = "overwrite" =>
            \A v \in Updates : calls[v].stage = "done" /\ calls[v].node = n => v \in wiped'
  BY DEF CacheSet, SameNode
<1>. HIDE DEF c
<1>5. \A v \in Updates : calls'[v] = IF v = u THEN c ELSE calls[v]
  BY <1>1
<1>6. CacheTypeOK'
  BY <1>1, <1>3 DEF CacheTypeOK
<1>7. ASSUME NEW w \in Updates, Due(w)'
      PROVE  /\ Contains(cache[calls[w].node], Own(w))'
             /\ \A v \in Updates : Reads(v, w)' => Contains(calls[v].list, Own(w))'
  <2>1. CASE w = u
    <3>1. calls'[u] = c /\ Own(u)' = Own(u) /\ u \notin exposed'
      BY <1>3, <1>5, <1>7, <2>1 DEF Own, Due
    <3>2. Contains(cache'[n], Own(u))
      BY <1>1, <1>3 DEF CacheInv, WritesItsOwn
    <3>3. \A v \in Updates : ~Reads(v, u)'
      BY <1>3, <1>4, <1>5, <3>1 DEF Reads
    <3>. QED
      BY <1>3, <2>1, <3>1, <3>2, <3>3
  <2>2. CASE w # u
    <3>1. calls'[w] = calls[w] /\ Own(w)' = Own(w) /\ Due(w)
      BY <1>1, <1>4, <1>5, <1>7, <2>2 DEF Own, Due
    <3>2. Contains(cache[calls[w].node], Own(w))
      BY <3>1 DEF CacheInv, NobodyForgets
    <3>3. calls[w].node = n => Contains(calls[u].list, Own(w))
      BY <1>1, <1>4, <1>7, <3>1 DEF CacheInv, NobodyForgets, Reads, Due
    <3>4. calls[w].node \in CacheNodes
      BY <1>1, CallFields
    <3>5. Contains(cache'[calls[w].node], Own(w))
      BY <1>1, <3>2, <3>3, <3>4
    <3>6. ASSUME NEW v \in Updates, Reads(v, w)'
          PROVE  Contains(calls'[v].list, Own(w))
      <4>1. v # u /\ calls'[v] = calls[v]
        BY <1>3, <1>5, <3>6 DEF Reads
      <4>2. Reads(v, w)
        BY <3>1, <3>6, <4>1 DEF Reads
      <4>. QED
        BY <3>1, <4>1, <4>2 DEF CacheInv, NobodyForgets
    <3>. QED
      BY <3>1, <3>5, <3>6
  <2>. QED
    BY <2>1, <2>2
<1>8. NobodyForgets'
  BY <1>7 DEF NobodyForgets
<1>9. WritesItsOwn'
  BY <1>3, <1>5 DEF WritesItsOwn, CacheInv, Own
<1>. QED
  BY <1>6, <1>8, <1>9 DEF CacheInv

\* The clock, and a new start: the calls under way are gone.
LEMMA CacheOtherKeeps ==
  ASSUME CacheInv, CacheTick \/ CacheRestart \/ UNCHANGED cacheVars
  PROVE  CacheInv'
<1>1. calls \in [Updates -> Calls] /\ clock \in Nat
  BY DEF CacheInv, CacheTypeOK
<1>2. CASE UNCHANGED <<cache, calls, exposed, wiped>> /\ clock' \in {clock, clock + 1}
  <2>1. clock' \in Nat /\ clock' >= clock
    BY <1>1, <1>2
  <2>. QED
    BY <1>1, <1>2, <2>1, ReadersStay DEF CacheInv, NobodyForgets, WritesItsOwn, Reads, Own
<1>3. CASE CacheRestart
  <2>. DEFINE gone(u) == [calls[u] EXCEPT !.stage = "lost", !.list = << >>]
  <2>1. << >> \in Lists
    BY DEF Lists
  <2>2. \A u \in Updates : gone(u) \in Calls /\ gone(u).stage = "lost"
    <3>1. "lost" \in Stages
      BY DEF Stages
    <3>2. \A u \in Updates : Moved(calls[u], gone(u), "lost", << >>)
      BY <1>1, <2>1, <3>1, CallMoves
    <3>. QED
      BY <3>2 DEF Moved
  <2>3. /\ UNCHANGED <<cache, clock, exposed, wiped>>
        /\ calls' = [u \in Updates |-> IF calls[u].stage \in UnderWay THEN gone(u)
                                        ELSE calls[u]]
    BY <1>3 DEF CacheRestart
  <2>. HIDE DEF gone
  <2>4. calls' \in [Updates -> Calls]
    BY <1>1, <2>2, <2>3
  <2>5. \A u \in Updates : \/ calls'[u].stage = "lost"
                           \/ calls'[u] = calls[u] /\ calls[u].stage \notin {"got", "set", "overwrite"}
    BY <2>2, <2>3 DEF UnderWay
  <2>6. \A u \in Updates : calls'[u].stage = "done" => calls'[u] = calls[u]
    BY <2>5
  <2>7. \A u \in Updates : calls'[u].stage \notin {"got", "set", "overwrite"}
    BY <2>5
  <2>. QED
    BY <1>1, <2>3, <2>4, <2>6, <2>7, ReadersStay
<1>. QED
  BY <1>2, <1>3 DEF CacheTick, cacheVars

-----------------------------------------------------------------------------
\* The inductive invariant: the list in Redis, and every list that is to be
\* written to it, has what is due (redis_pull.js:25-49).
THEOREM CacheInvariant == CacheSpec => []CacheInv
<1>1. CacheInv /\ [CacheNext]_cacheVars => CacheInv'
  <2>. SUFFICES ASSUME CacheInv, [CacheNext]_cacheVars PROVE CacheInv'
    OBVIOUS
  <2>1. \A time \in 0..MaxTime : time \in Nat
    BY CacheAssumption
  <2>. QED
    BY <2>1, UpdateNodeKeeps, CacheGetKeeps, CacheGotValueKeeps, CacheSetKeeps, CacheFailureKeeps,
       CacheOtherKeeps
       DEF CacheNext
<1>. QED
  BY <1>1, CacheStarts, PTL DEF CacheSpec

\* update_node (redis_pull.js:25-49): an observation of the last hour that was
\* written is only ever missing when another update of its node read before and
\* wrote after, or when the GET of a later one failed (28, 40-41); the pruning
\* loop, late observations, exceptions, restarts and failed SETs lose nothing.
THEOREM OnlyOverlapOrErrorLoses == CacheSpec => []LossHasACause
<1>1. CacheInv => LossHasACause
  BY DEF CacheInv, NobodyForgets, LossHasACause, Due, Own
<1>. QED
  BY <1>1, CacheInvariant, PTL

=============================================================================
