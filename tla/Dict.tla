-------------------------------- MODULE Dict --------------------------------
(***************************************************************************)
(* dict.c: a hash table that grows and shrinks by moving its buckets one   *)
(* at a time into a second table, while it is used, iterated and scanned.  *)
(*                                                                         *)
(* A table is a record: its size, a power of two or 0 for no table, and    *)
(* its buckets, sequences of keys.  The hash of a key is the key; unsigned *)
(* long has Bits bits.  A scan and a safe iterator are clients of the      *)
(* dictionary that take turns; each remembers which keys it must return,   *)
(* the ones that have been there since it began, and which ones it has     *)
(* got.  scan.cut says that the scan met a table that is being cut to a    *)
(* quarter or less, scan.missed what the last scan should have returned.   *)
(***************************************************************************)
EXTENDS Integers, Sequences, FiniteSets, SequencesExt

CONSTANTS DictKeys,       \* the keys, which are their own hashes
          InitialSize,    \* DICT_HT_INITIAL_SIZE
          ForceRatio,     \* dict_force_resize_ratio
          Bits,           \* width of unsigned long
          MaxTable,       \* bound on the size of a table
          NoKey           \* no entry

ASSUME DictConstants ==
  /\ DictKeys \subseteq Nat /\ InitialSize \in {1, 2, 4} /\ ForceRatio \in Nat
  /\ MaxTable <= 2^Bits /\ NoKey \notin DictKeys

VARIABLES dict,    \* the dictionary
          scan,    \* a client of dictScan
          iter     \* a safe iterator

dictVars == <<dict, scan, iter>>

-----------------------------------------------------------------------------
(* Tables.                                                                 *)

_dictReset == [size |-> 0, table |-> <<>>]
NewTable(n) == [size |-> n, table |-> [i \in 0..(n - 1) |-> <<>>]]

used(t) == FoldFunctionOnSet(LAMBDA b, n : n + Len(b), 0, t.table, 0..(t.size - 1))
dictIsRehashing(d) == d.rehashidx # -1
Bucket(t, k) == t.table[k % t.size]
InTable(t, k) == t.size > 0 /\ \E i \in DOMAIN Bucket(t, k) : Bucket(t, k)[i] = k
KeysIn(t) == UNION {{t.table[i][j] : j \in DOMAIN t.table[i]} : i \in 0..(t.size - 1)}
dictContains(d, k) == InTable(d.ht[0], k) \/ InTable(d.ht[1], k)
Members(d) == KeysIn(d.ht[0]) \cup KeysIn(d.ht[1])
dictSize(d) == used(d.ht[0]) + used(d.ht[1])

Push(t, k) == [t EXCEPT !.table[k % t.size] = <<k>> \o @]
Unlink(t, k) == [t EXCEPT !.table[k % t.size] = SelectSeq(@, LAMBDA x : x # k)]

_dictNextPower(n) == CHOOSE p \in {InitialSize * 2^i : i \in 0..Bits} :
                       p >= n /\ (p = InitialSize \/ p \div 2 < n)

dictExpand(d, n) ==
  LET realsize == _dictNextPower(n) IN
  IF dictIsRehashing(d) \/ used(d.ht[0]) > n \/ realsize = d.ht[0].size THEN d
  ELSE IF d.ht[0].size = 0 THEN [d EXCEPT !.ht[0] = NewTable(realsize)]
  ELSE [d EXCEPT !.ht[1] = NewTable(realsize), !.rehashidx = 0]

dictResize(d) ==
  IF ~d.canresize \/ dictIsRehashing(d) THEN d
  ELSE dictExpand(d, IF used(d.ht[0]) < InitialSize THEN InitialSize ELSE used(d.ht[0]))

_dictExpandIfNeeded(d) ==
  LET t == d.ht[0] IN
  IF dictIsRehashing(d) THEN d
  ELSE IF t.size = 0 THEN dictExpand(d, InitialSize)
  ELSE IF used(t) >= t.size /\ (d.canresize \/ used(t) \div t.size > ForceRatio)
  THEN dictExpand(d, used(t) * 2) ELSE d

\* Mutant: the entries keep the index they had in the old table.
RehashBucketSameIndex(d, i) ==
  LET from == d.ht[0].table[i]
      t == d.ht[1]
  IN  [d EXCEPT !.ht[0].table[i] = <<>>,
                !.ht[1] = [t EXCEPT !.table[i % t.size] = Reverse(from) \o @],
                !.rehashidx = i + 1]

\* One bucket is moved, entry by entry, each in front of its new bucket.
RehashBucket(d, i) ==
  [d EXCEPT !.ht[0].table[i] = <<>>,
            !.ht[1] = FoldLeft(Push, d.ht[1], d.ht[0].table[i]),
            !.rehashidx = i + 1]

\* Done when the old table is empty: the new one takes its place.
RehashDone(d) ==
  IF used(d.ht[0]) = 0
  THEN [d EXCEPT !.ht = [t \in {0, 1} |-> IF t = 0 THEN d.ht[1] ELSE _dictReset], !.rehashidx = -1]
  ELSE d

\* n buckets that are not empty; the bound of 10 n on the empty ones visited
\* is not reached in tables this small.
dictRehash(d, n) ==
  LET busy == {i \in 0..(d.ht[0].size - 1) : i >= d.rehashidx /\ d.ht[0].table[i] # <<>>}
      turn == SetToSortSeq(busy, LAMBDA i, j : i < j)
  IN  IF ~dictIsRehashing(d) THEN d
      ELSE RehashDone(FoldLeft(RehashBucket, d, SubSeq(turn, 1, IF n < Len(turn) THEN n ELSE Len(turn))))

\* Mutant: a step is done although a safe iterator is open.
RehashStepAlways(d) == dictRehash(d, 1)

_dictRehashStep(d) == IF d.iterators = 0 THEN dictRehash(d, 1) ELSE d

-----------------------------------------------------------------------------
(* Operations.  Each does a step of rehashing first.                       *)

dictAddRaw(d, k) ==
  LET e == _dictRehashStep(d)
      f == _dictExpandIfNeeded(e)
  IN  IF dictContains(f, k) THEN f
      ELSE [f EXCEPT !.ht[IF dictIsRehashing(f) THEN 1 ELSE 0] = Push(@, k)]

\* The second table is searched only while rehashing, the first one first.
dictGenericDelete(d, k) ==
  LET e == _dictRehashStep(d)
  IN  IF d.ht[0].size = 0 THEN d
      ELSE IF InTable(e.ht[0], k) THEN [e EXCEPT !.ht[0] = Unlink(@, k)]
      ELSE IF InTable(e.ht[1], k) THEN [e EXCEPT !.ht[1] = Unlink(@, k)] ELSE e

dictFind(d, k) == IF dictSize(d) = 0 THEN d ELSE _dictRehashStep(d)

_dictClear(d) ==
  [d EXCEPT !.ht = [t \in {0, 1} |-> _dictReset], !.rehashidx = -1, !.iterators = 0]

-----------------------------------------------------------------------------
(* dictScan: the cursor is incremented from its highest masked bit down.   *)

rev(v) == FoldLeft(LAMBDA n, i : n + ((v \div 2^(i - 1)) % 2) * 2^(Bits - i), 0, [i \in 1..Bits |-> i])

\* Mutant: the cursor is incremented like a number.
NextCursorForward(v, size0) == ((v % size0) + 1) % size0

\* v | ~m0, incremented in reverse.
NextCursor(v, size0) ==
  LET w == (v % size0) + (2^Bits - size0) IN rev((rev(w) + 1) % 2^Bits)

Small(d) == IF dictIsRehashing(d) /\ d.ht[1].size < d.ht[0].size THEN d.ht[1] ELSE d.ht[0]
Large(d) == IF d.ht[1].size < d.ht[0].size THEN d.ht[0] ELSE d.ht[1]

\* Mutant: of the larger table only the bucket at the cursor is visited.
EmittedAtCursor(d, v) ==
  LET At(t) == {t.table[v % t.size][j] : j \in DOMAIN t.table[v % t.size]}
  IN  At(Small(d)) \cup IF dictIsRehashing(d) THEN At(Large(d)) ELSE {}

\* The bucket of the smaller table, and those of the larger one that are
\* expansions of it, from the cursor's own one on.
Emitted(d, v) ==
  LET s == Small(d)
      l == Large(d)
      expansions == {i \in 0..(l.size - 1) : i % s.size = v % s.size /\ i >= v % l.size}
      At(t, i) == {t.table[i][j] : j \in DOMAIN t.table[i]}
  IN  At(s, v % s.size) \cup
      IF dictIsRehashing(d) THEN UNION {At(l, i) : i \in expansions} ELSE {}

dictScan(d, v) ==
  IF dictSize(d) = 0 THEN [cursor |-> 0, keys |-> {}]
  ELSE [cursor |-> NextCursor(v, Small(d).size), keys |-> Emitted(d, v)]

-----------------------------------------------------------------------------
(* dictNext.  index is the bucket, entry the key returned last and next    *)
(* the one saved with it; the loop passes the empty buckets.               *)

\* All positions from (table, index) on, in the order they are visited.
Positions(d, t, i) ==
  LET First == [j \in 1..(d.ht[0].size - i) |-> <<0, i + j - 1>>]
      Second == [j \in 1..d.ht[1].size |-> <<1, j - 1>>]
  IN  IF t = 1 THEN [j \in 1..(d.ht[1].size - i) |-> <<1, i + j - 1>>]
      ELSE First \o (IF dictIsRehashing(d) THEN Second ELSE <<>>)

NextInBucket(b, k) == LET i == SelectInSeq(b, LAMBDA x : x = k)
                      IN  IF i < Len(b) THEN b[i + 1] ELSE NoKey

\* The entry the iterator returns next, NoKey at the end.
dictNext(d, it) ==
  LET ahead == Positions(d, it.table, it.index + 1)
      full == SelectSeq(ahead, LAMBDA p : d.ht[p[1]].table[p[2]] # <<>>)
      p == Head(full)
      b == d.ht[p[1]].table[p[2]]
      here == d.ht[it.table].table[it.index]
  IN  IF it.next # NoKey
      THEN [it EXCEPT !.entry = it.next, !.next = NextInBucket(here, it.next)]
      ELSE IF full = <<>> THEN [it EXCEPT !.entry = NoKey]
      ELSE [it EXCEPT !.table = p[1], !.index = p[2], !.entry = b[1], !.next = NextInBucket(b, b[1])]

-----------------------------------------------------------------------------
IdleScan == [active |-> FALSE, cursor |-> 0, must |-> {}, got |-> {}, cut |-> FALSE,
             missed |-> {}]
ClosedIter == [open |-> FALSE, table |-> 0, index |-> -1, entry |-> NoKey, next |-> NoKey,
               must |-> {}, got |-> {}, again |-> {}]

DictInit ==
  /\ dict = [ht |-> [t \in {0, 1} |-> _dictReset], rehashidx |-> -1, iterators |-> 0, canresize |-> TRUE]
  /\ scan = IdleScan
  /\ iter = ClosedIter

WithinTable(d) == d.ht[0].size <= MaxTable /\ d.ht[1].size <= MaxTable

DictAdd(k) ==
  /\ dict' = dictAddRaw(dict, k)
  /\ WithinTable(dict')
  /\ UNCHANGED <<scan, iter>>

\* While a safe iterator is open only the entry it returned last is deleted:
\* the code that uses one relies on nothing else.
DictDelete(k) ==
  /\ iter.open => k = iter.entry
  /\ dict' = dictGenericDelete(dict, k)
  /\ scan' = [scan EXCEPT !.must = @ \ {k}]
  /\ iter' = [iter EXCEPT !.must = @ \ {k}]

DictFind(k) == dict' = dictFind(dict, k) /\ UNCHANGED <<scan, iter>>

\* From databasesCron, so never while an iterator is open.
DictResize == ~iter.open /\ dict' = dictResize(dict) /\ UNCHANGED <<scan, iter>>
dictRehashMilliseconds ==
  ~iter.open /\ dict' = dictRehash(dict, 100) /\ UNCHANGED <<scan, iter>>

\* dictEnableResize, dictDisableResize: while a child saves, tables are left
\* alone unless they are far too full.
DictEnableResize == dict' = [dict EXCEPT !.canresize = ~@] /\ UNCHANGED <<scan, iter>>

DictEmpty ==
  /\ ~iter.open
  /\ dict' = _dictClear(dict)
  /\ scan' = [scan EXCEPT !.must = {}]
  /\ UNCHANGED iter

ScanBegin ==
  /\ ~scan.active /\ ~iter.open /\ dictSize(dict) > 0
  /\ scan' = [IdleScan EXCEPT !.active = TRUE, !.must = Members(dict)]
  /\ UNCHANGED <<dict, iter>>

ScanStep ==
  /\ scan.active
  /\ LET r == dictScan(dict, scan.cursor)
         cut == dictIsRehashing(dict) /\ dict.ht[0].size >= 4 * dict.ht[1].size
         step == [scan EXCEPT !.cursor = r.cursor, !.got = @ \cup r.keys, !.cut = @ \/ cut]
     IN  scan' = IF r.cursor # 0 THEN step
                 ELSE [IdleScan EXCEPT !.missed = step.must \ step.got, !.cut = step.cut]
  /\ UNCHANGED <<dict, iter>>

\* Creating the iterator and its first dictNext, which counts it.
IterBegin ==
  /\ ~iter.open /\ ~scan.active
  /\ dict' = [dict EXCEPT !.iterators = @ + 1]
  /\ LET it == dictNext(dict, ClosedIter)
     IN  iter' = [it EXCEPT !.open = TRUE, !.must = Members(dict),
                            !.got = {it.entry} \ {NoKey}]
  /\ UNCHANGED scan

IterNext ==
  /\ iter.open /\ iter.entry # NoKey
  /\ LET it == dictNext(dict, iter)
     IN  iter' = [it EXCEPT !.got = (@ \cup {it.entry}) \ {NoKey},
                            !.again = @ \cup ({it.entry} \cap iter.got)]
  /\ UNCHANGED <<dict, scan>>

dictReleaseIterator ==
  /\ iter.open
  /\ dict' = [dict EXCEPT !.iterators = @ - 1]
  /\ iter' = ClosedIter
  /\ UNCHANGED scan

DictNext ==
  \/ \E k \in DictKeys : DictAdd(k) \/ DictDelete(k) \/ DictFind(k)
  \/ DictResize \/ dictRehashMilliseconds \/ DictEnableResize \/ DictEmpty
  \/ ScanBegin \/ ScanStep
  \/ IterBegin \/ IterNext \/ dictReleaseIterator

-----------------------------------------------------------------------------
(* Properties.                                                             *)

\* A key is in one place at most, in the bucket its hash selects, and the old
\* table is empty below rehashidx: what lookups, random sampling and the end
\* of rehashing rely on, in every state rehashing can be left in.
EveryKeyFindable ==
  /\ \A t \in {0, 1} : \A i \in 0..(dict.ht[t].size - 1) :
       \A j \in DOMAIN dict.ht[t].table[i] : dict.ht[t].table[i][j] % dict.ht[t].size = i
  /\ dictSize(dict) = Cardinality(Members(dict))
  /\ dictIsRehashing(dict) =>
       /\ dict.ht[1].size > 0
       /\ \A i \in 0..(dict.rehashidx - 1) : dict.ht[0].table[i] = <<>>
  /\ ~dictIsRehashing(dict) => dict.ht[1].size = 0

\* The promise of the comment above dictScan: a key that is there from the
\* beginning to the end of a full iteration is returned, however the table
\* grew, shrank or was rehashed between the calls.
ScanReturnsAll == scan.missed = {}

\* What holds of it: keys are missed only if a call met a table that is being
\* cut to a quarter or less.  Then the cursor may have bits set above the
\* smaller mask, and the loop over the expansions, which counts upwards,
\* never comes to those that precede it as numbers and follow it reversed.
ScanReturnsWhatStayed == ~scan.cut => ScanReturnsAll

\* A safe iterator returns every key that stays exactly once, while keys are
\* added, tables grow and the key at hand is deleted.
IteratorReturnsEachOnce ==
  /\ iter.must \cap iter.again = {}
  /\ iter.open /\ iter.entry = NoKey => iter.must \subseteq iter.got

\* Every call of SCAN makes progress in the order of the reversed cursors, so
\* that no sequence of resizes keeps an iteration from ending.
ScanAdvances ==
  [][ScanStep /\ scan'.cursor # 0 => rev(scan'.cursor) > rev(scan.cursor)]_dictVars

\* The table while it is rehashed in small steps (dict.c:245-319, 558-640): every
\* key is found, and an iterator returns each once.
DictIsSound == EveryKeyFindable /\ IteratorReturnsEachOnce
=============================================================================
