----------------------------- MODULE RedisZset -----------------------------
(***************************************************************************)
(* Sorted set commands: t_zset.c.  A small sorted set is a ziplist, here   *)
(* the sequence of its <<element, score>> pairs; a large one is a skiplist *)
(* (the same sequence; module Skiplist models its levels) together with a  *)
(* dictionary from element to score.  Every command has one path for each  *)
(* encoding, and every path has to keep the order and the two halves of    *)
(* the second one in step.                                                 *)
(*                                                                         *)
(* Scores are integers; Inf and -Inf stand for the two infinities, whose   *)
(* sum is not a number.                                                    *)
(***************************************************************************)
EXTENDS RedisSet

CONSTANTS ZsetMaxZiplistEntries,  \* zset-max-ziplist-entries
          ZsetMaxZiplistValue     \* zset-max-ziplist-value

ASSUME ZsetConstants == ZsetMaxZiplistEntries \in Nat /\ ZsetMaxZiplistValue \in Nat

Inf == 100
IsNan(a, b) == {a, b} = {Inf, 0 - Inf}
AddScores(a, b) == IF Inf \in {a, b} THEN Inf ELSE IF 0 - Inf \in {a, b} THEN 0 - Inf ELSE a + b

createZsetObject == createObject("zset", "skiplist", [dict |-> EmptyDict, zsl |-> <<>>])
createZsetZiplistObject == createObject("zset", "ziplist", <<>>)

-----------------------------------------------------------------------------
(* The two orders and the ranges over them.                                *)

\* compareStringObjects: the difference of the first two bytes that differ,
\* or of the lengths.
compareStringObjects(s, t) ==
  LET diff == {i \in DOMAIN s \cap DOMAIN t : s[i] # t[i]}
      i == CHOOSE i \in diff : \A j \in diff : i <= j
  IN  IF diff = {} THEN Len(s) - Len(t) ELSE s[i] - t[i]

\* The order of a skiplist: by score, then by element.
Before(p, q) == p[2] < q[2] \/ (p[2] = q[2] /\ compareStringObjects(p[1], q[1]) < 0)

zslValueGteMin(x, r) == IF r.minex THEN x > r.min ELSE x >= r.min
zslValueLteMax(x, r) == IF r.maxex THEN x < r.max ELSE x <= r.max

zslIsInRange(z, r) ==
  /\ ~(r.min > r.max \/ (r.min = r.max /\ (r.minex \/ r.maxex)))
  /\ z # <<>>
  /\ zslValueGteMin(Last(z)[2], r)
  /\ zslValueLteMax(Head(z)[2], r)

\* Index of the node, 0 for none: forward while out of range, then one check.
zslFirstInRange(z, r) ==
  LET i == SelectInSeq(z, LAMBDA p : zslValueGteMin(p[2], r))
  IN  IF ~zslIsInRange(z, r) THEN 0 ELSE IF zslValueLteMax(z[i][2], r) THEN i ELSE 0

\* The walk stops before the first node that is above the maximum.
zslLastInRange(z, r) ==
  LET out == SelectInSeq(z, LAMBDA p : ~zslValueLteMax(p[2], r))
      i == IF out = 0 THEN Len(z) ELSE out - 1
  IN  IF ~zslIsInRange(z, r) THEN 0 ELSE IF zslValueGteMin(z[i][2], r) THEN i ELSE 0

\* The ziplist versions scan from the head and from the tail.
zzlFirstInRange(z, r) ==
  LET i == SelectInSeq(z, LAMBDA p : zslValueGteMin(p[2], r))
  IN  IF zslIsInRange(z, r) /\ i # 0 /\ zslValueLteMax(z[i][2], r) THEN i ELSE 0

zzlLastInRange(z, r) ==
  LET i == SelectLastInSeq(z, LAMBDA p : zslValueLteMax(p[2], r))
  IN  IF zslIsInRange(z, r) /\ i # 0 /\ zslValueGteMin(z[i][2], r) THEN i ELSE 0

\* A bound of a lexicographical range is shared.minstring, shared.maxstring,
\* or a string.
MinString == [kind |-> "min", s |-> <<>>]
MaxString_ == [kind |-> "max", s |-> <<>>]
LexBound(s) == [kind |-> "str", s |-> s]

compareStringObjectsForLexRange(a, b) ==
  CASE a = b -> 0
    [] a # b /\ (a = MinString \/ b = MaxString_) -> -1
    [] a # b /\ (a = MaxString_ \/ b = MinString) -> 1
    [] OTHER -> compareStringObjects(a.s, b.s)

zslLexValueGteMin(s, r) ==
  LET n == compareStringObjectsForLexRange(LexBound(s), r.min) IN IF r.minex THEN n > 0 ELSE n >= 0
zslLexValueLteMax(s, r) ==
  LET n == compareStringObjectsForLexRange(LexBound(s), r.max) IN IF r.maxex THEN n < 0 ELSE n <= 0

\* The code compares with > 1, so that some inverted ranges get past here.
zslIsInLexRange(z, r) ==
  /\ ~(compareStringObjectsForLexRange(r.min, r.max) > 1 \/ (r.min = r.max /\ (r.minex \/ r.maxex)))
  /\ z # <<>>
  /\ zslLexValueGteMin(Last(z)[1], r)
  /\ zslLexValueLteMax(Head(z)[1], r)

zslFirstInLexRange(z, r) ==
  LET i == SelectInSeq(z, LAMBDA p : zslLexValueGteMin(p[1], r))
  IN  IF ~zslIsInLexRange(z, r) THEN 0 ELSE IF zslLexValueLteMax(z[i][1], r) THEN i ELSE 0

zslLastInLexRange(z, r) ==
  LET out == SelectInSeq(z, LAMBDA p : ~zslLexValueLteMax(p[1], r))
      i == IF out = 0 THEN Len(z) ELSE out - 1
  IN  IF ~zslIsInLexRange(z, r) \/ i = 0 THEN 0
      ELSE IF zslLexValueGteMin(z[i][1], r) THEN i ELSE 0

-----------------------------------------------------------------------------
(* The two encodings.                                                      *)

\* zslInsert: the position is the one before the first node that is not
\* smaller.
zslInsert(z, s, score) ==
  LET i == SelectInSeq(z, LAMBDA p : ~Before(p, <<s, score>>))
  IN  InsertAt(z, IF i = 0 THEN Len(z) + 1 ELSE i, <<s, score>>)

\* zslDelete looks only at the first node that is not smaller: a wrong score
\* finds nothing.
zslDelete(z, s, score) ==
  LET i == SelectInSeq(z, LAMBDA p : ~Before(p, <<s, score>>))
  IN  IF i # 0 /\ z[i] = <<s, score>> THEN RemoveAt(z, i) ELSE z

zslGetRank(z, s, score) ==
  LET i == Cardinality({j \in DOMAIN z : ~Before(<<s, score>>, z[j])})
  IN  IF i # 0 /\ z[i][1] = s THEN i ELSE 0

zzlFind(z, s) == SelectInSeq(z, LAMBDA p : p[1] = s)

\* Before the first larger score, or an equal one with a larger element.
zzlInsert(z, s, score) ==
  LET Larger(p) == p[2] > score \/ (p[2] = score /\ compareStringObjects(p[1], s) > 0)
      i == SelectInSeq(z, Larger)
  IN  IF i = 0 THEN Append(z, <<s, score>>) ELSE InsertAt(z, i, <<s, score>>)

Elements(o) == IF o.enc = "ziplist" THEN o.v ELSE o.v.zsl
zsetLength(o) == Len(Elements(o))
zsetHas(o, s) == IF o.enc = "ziplist" THEN zzlFind(o.v, s) # 0 ELSE s \in DOMAIN o.v.dict
zsetScore(o, s) == IF o.enc = "ziplist" THEN o.v[zzlFind(o.v, s)][2] ELSE o.v.dict[s]

zsetConvert(o, enc) ==
  CASE o.enc = enc -> o
    [] o.enc = "ziplist" /\ enc = "skiplist" ->
         [o EXCEPT !.enc = enc,
                   !.v = [zsl |-> FoldLeft(LAMBDA z, p : zslInsert(z, p[1], p[2]), <<>>, o.v),
                          dict |-> FoldLeft(LAMBDA t, p : dictReplace(t, p[1], p[2]), EmptyDict, o.v)]]
    [] OTHER -> [o EXCEPT !.enc = enc, !.v = o.v.zsl]

zsetConvertToZiplistIfNeeded(o, maxelelen) ==
  IF zsetLength(o) <= ZsetMaxZiplistEntries /\ maxelelen <= ZsetMaxZiplistValue
  THEN zsetConvert(o, "ziplist") ELSE o

-----------------------------------------------------------------------------
(* Commands that change a sorted set.                                      *)

\* One score-element pair of ZADD on a ziplist.
zaddZiplist(o, s, score) ==
  LET moved == [o EXCEPT !.v = zzlInsert(RemoveAt(@, zzlFind(@, s)), s, score)]
      grown == [o EXCEPT !.v = zzlInsert(@, s, score)]
  IN  IF zsetHas(o, s) THEN moved
      ELSE IF Len(grown.v) > ZsetMaxZiplistEntries \/ Len(s) > ZsetMaxZiplistValue
      THEN zsetConvert(grown, "skiplist") ELSE grown

\* Mutant: the old node is looked for at its new score.
zaddSkiplistNewScore(o, s, score) ==
  LET z == IF zsetHas(o, s) THEN zslDelete(o.v.zsl, s, score) ELSE o.v.zsl
  IN  [o EXCEPT !.v = [zsl |-> zslInsert(z, s, score), dict |-> dictReplace(@.dict, s, score)]]

\* The same on a skiplist: the old node is found through the score kept in
\* the dictionary.
zaddSkiplist(o, s, score) ==
  LET z == IF zsetHas(o, s) THEN zslDelete(o.v.zsl, s, o.v.dict[s]) ELSE o.v.zsl
  IN  [o EXCEPT !.v = [zsl |-> zslInsert(z, s, score), dict |-> dictReplace(@.dict, s, score)]]

\* A pair is skipped by NX when the element exists, by XX when it does not,
\* and when its score would not change.
zaddPair(o, s, score0, flag, incr) ==
  LET score == IF incr /\ zsetHas(o, s) THEN AddScores(score0, zsetScore(o, s)) ELSE score0
      skip == \/ zsetHas(o, s) /\ (flag = "NX" \/ score = zsetScore(o, s))
              \/ ~zsetHas(o, s) /\ flag = "XX"
              \/ incr /\ zsetHas(o, s) /\ IsNan(score0, zsetScore(o, s))
  IN  IF skip THEN o ELSE IF o.enc = "ziplist" THEN zaddZiplist(o, s, score) ELSE zaddSkiplist(o, s, score)

\* server.dirty counts the pairs that changed something.
zaddCounted(r, o) == [o |-> o, n |-> IF o.enc = r.o.enc /\ o.v = r.o.v THEN r.n ELSE r.n + 1]
zaddStored(e, k, r) == Counted(dbAdd(e, k, r.o), dbAdd(e, k, r.o), k, r.n)

\* pairs is a sequence of <<element, score>>.
zaddGenericCommand(c, d, k, pairs, flag, incr) ==
  LET e == lookupKeyWrite(c, d, k)
      fresh == IF ZsetMaxZiplistEntries = 0 \/ ZsetMaxZiplistValue < Len(pairs[1][1])
               THEN createZsetObject ELSE createZsetZiplistObject
      base == IF dbExists(e, k) THEN lookupKey(e, k) ELSE fresh
      Step(r, p) == zaddCounted(r, zaddPair(r.o, p[1], p[2], flag, incr))
  IN  CASE ~dbExists(e, k) /\ flag = "XX" -> e
        [] WrongType(e, k, "zset") -> e
        [] OTHER -> zaddStored(e, k, FoldLeft(Step, [o |-> base, n |-> 0], pairs))

zremOne(o, s) ==
  CASE ~zsetHas(o, s) -> o
    [] zsetHas(o, s) /\ o.enc = "ziplist" -> [o EXCEPT !.v = RemoveAt(@, zzlFind(@, s))]
    [] OTHER -> [o EXCEPT !.v = [zsl |-> zslDelete(@.zsl, s, @.dict[s]), dict |-> dictDelete(@.dict, s)]]

zsetStore(d, k, o) == IF zsetLength(o) = 0 THEN dbDelete(d, k) ELSE dbOverwrite(d, k, o)

\* The end of ZREM and of the ZREMRANGE commands.
zremStored(e, k, o, new) == Counted(e, zsetStore(e, k, new), k, zsetLength(o) - zsetLength(new))

zremCommand(c, d, k, members) ==
  LET e == lookupKeyWrite(c, d, k)
      o == lookupKey(e, k)
  IN  IF ~dbExists(e, k) \/ checkType(e, k, "zset") THEN e
      ELSE zremStored(e, k, o, FoldLeft(zremOne, o, members))

\* Elements i to j of the sequence are deleted, from the dictionary too.
DeleteRun(o, i, j) ==
  LET z == Elements(o)
      kept == SubSeq(z, 1, i - 1) \o SubSeq(z, j + 1, Len(z))
      gone == {z[n][1] : n \in i..j}
  IN  IF o.enc = "ziplist" THEN [o EXCEPT !.v = kept]
      ELSE [o EXCEPT !.v = [zsl |-> kept,
                            dict |-> [s \in DOMAIN @.dict \ gone |-> @.dict[s]]]]

\* From index i on, as long as the next element is one of those inside.
RunFrom(z, i, inside) ==
  LET out == SelectInSubSeq(z, i, Len(z), LAMBDA p : p \notin inside)
  IN  IF out = 0 THEN Len(z) ELSE out - 1

\* Those not above the maximum.
UpToMax(z, r) == {p \in ToSet(z) : zslValueLteMax(p[2], r)}
UpToLexMax(z, r) == {p \in ToSet(z) : zslLexValueLteMax(p[1], r)}

\* The deletion from the first element of a range, if there is one.
DeleteFrom(o, i, inside) ==
  IF i = 0 THEN o ELSE DeleteRun(o, i, RunFrom(Elements(o), i, inside))

zzlDeleteRangeByScore(o, r) == DeleteFrom(o, zzlFirstInRange(o.v, r), UpToMax(o.v, r))

\* The skiplist version does not ask whether the range is empty.
zslDeleteRangeByScore(o, r) ==
  DeleteFrom(o, SelectInSeq(o.v.zsl, LAMBDA p : zslValueGteMin(p[2], r)), UpToMax(o.v.zsl, r))

zzlDeleteRangeByLex(o, r) == DeleteFrom(o, zslFirstInLexRange(o.v, r), UpToLexMax(o.v, r))

zslDeleteRangeByLex(o, r) ==
  DeleteFrom(o, SelectInSeq(o.v.zsl, LAMBDA p : zslLexValueGteMin(p[1], r)), UpToLexMax(o.v.zsl, r))

\* The 0-based indexes of a rank range; empty when first > last.
zsetRankRange(llen, start0, end0) ==
  LET s1 == IF start0 < 0 THEN llen + start0 ELSE start0
      e1 == IF end0 < 0 THEN llen + end0 ELSE end0
      start == IF s1 < 0 THEN 0 ELSE s1
  IN  IF start > e1 \/ start >= llen THEN [first |-> 0, last |-> -1]
      ELSE [first |-> start, last |-> IF e1 >= llen THEN llen - 1 ELSE e1]

\* rangetype is "rank", "score" or "lex".
zremrangeGenericCommand(c, d, k, rangetype, r) ==
  LET e == lookupKeyWrite(c, d, k)
      o == lookupKey(e, k)
      n == zsetRankRange(zsetLength(o), r.start, r.end)
      new == CASE rangetype = "rank" -> DeleteRun(o, n.first + 1, n.last + 1)
               [] rangetype = "score" /\ o.enc = "ziplist" -> zzlDeleteRangeByScore(o, r)
               [] rangetype = "score" /\ o.enc = "skiplist" -> zslDeleteRangeByScore(o, r)
               [] rangetype = "lex" /\ o.enc = "ziplist" -> zzlDeleteRangeByLex(o, r)
               [] OTHER -> zslDeleteRangeByLex(o, r)
  IN  IF ~dbExists(e, k) \/ checkType(e, k, "zset") THEN e ELSE zremStored(e, k, o, new)

-----------------------------------------------------------------------------
(* ZUNIONSTORE and ZINTERSTORE take sorted sets and sets, whose members    *)
(* count as elements of score 1.                                           *)

zuiNext(o) ==
  IF o.type = "set" THEN {<<s, 1>> : s \in setTypeNextObject(o)}
  ELSE {Elements(o)[i] : i \in DOMAIN Elements(o)}
zuiLength(o) == IF o.type = "set" THEN setTypeSize(o) ELSE zsetLength(o)
zuiFind(o, s) == IF o.type = "set" THEN setTypeIsMember(o, s) ELSE zsetHas(o, s)
zuiScore(o, s) == IF o.type = "set" THEN 1 ELSE zsetScore(o, s)

zunionInterAggregate(target, x, aggregate) ==
  CASE aggregate = "sum" -> IF IsNan(target, x) THEN 0 ELSE AddScores(target, x)
    [] aggregate = "min" -> IF x < target THEN x ELSE target
    [] OTHER -> IF x > target THEN x ELSE target

\* Scores are aggregated in the order of the sources, smallest source first.
zunionInterScore(srcs, s, aggregate) ==
  LET with == SelectSeq(srcs, LAMBDA o : zuiFind(o, s))
  IN  FoldLeft(LAMBDA t, o : zunionInterAggregate(t, zuiScore(o, s), aggregate),
               zuiScore(Head(with), s), Tail(with))

zunionInterMembers(srcs, op) ==
  IF op = "union" THEN UNION {{p[1] : p \in zuiNext(srcs[i])} : i \in DOMAIN srcs}
  ELSE {p[1] : p \in {q \in zuiNext(srcs[1]) : \A j \in DOMAIN srcs : zuiFind(srcs[j], q[1])}}

\* The result is built as a skiplist and its dictionary, and stored as a
\* ziplist if it is small.  Integer-encoded members do not count for the
\* length test.
zunionInterResult(srcs, op, aggregate) ==
  LET members == zunionInterMembers(srcs, op)
      score == [s \in members |-> zunionInterScore(srcs, s, aggregate)]
      lens == {0} \cup {Len(s) : s \in {t \in members : ~IsLong(t)}}
      zsl == FoldSet(LAMBDA s, z : zslInsert(z, s, score[s]), <<>>, members)
  IN  zsetConvertToZiplistIfNeeded(
        [createZsetObject EXCEPT !.v = [dict |-> score, zsl |-> zsl]],
        CHOOSE n \in lens : \A m \in lens : m <= n)

ZsetAt(d, k) == IF dbExists(d, k) THEN lookupKey(d, k) ELSE createZsetObject

\* An empty result only deletes the destination.
zunionInterStored(d, dst, o) ==
  LET e == dbDelete(d, dst)
  IN  CASE zsetLength(o) > 0 -> Dirty(signalModifiedKey(dbAdd(e, dst, o), dst), 1)
        [] OTHER -> IF dbExists(d, dst) THEN Dirty(signalModifiedKey(e, dst), 1) ELSE e

zunionInterGenericCommand(c, d, dst, keys, op, aggregate) ==
  LET r == LookupSources(c, d, keys, {"none", "set", "zset"})
      Smaller(o, p) == zuiLength(o) <= zuiLength(p)
      srcs == SortSeq([i \in DOMAIN keys |-> ZsetAt(r.d, keys[i])], Smaller)
  IN  IF r.stop # <<>> THEN r.d
      ELSE zunionInterStored(r.d, dst, zunionInterResult(srcs, op, aggregate))

-----------------------------------------------------------------------------
(* The replies of the commands that read.                                  *)

zrangeGenericCommand(o, start, end, reverse) ==
  LET z == IF reverse THEN Reverse(Elements(o)) ELSE Elements(o)
      n == zsetRankRange(zsetLength(o), start, end)
  IN  SubSeq(z, n.first + 1, n.last + 1)

\* The walk from the first element of a range: those in front of the offset
\* are skipped without looking at them, then elements are taken while they
\* are inside and the limit lasts.  A negative limit means no limit.
RangeWalk(z, first, reverse, offset, limit, inside) ==
  LET n == Len(z)
      walk == IF reverse THEN SubSeq(Reverse(z), n - first + 1 + offset, n) ELSE SubSeq(z, first + offset, n)
      run == SubSeq(walk, 1, RunFrom(walk, 1, inside))
  IN  IF first = 0 THEN <<>>
      ELSE IF limit < 0 \/ limit >= Len(run) THEN run ELSE SubSeq(run, 1, limit)

genericZrangebyscoreCommand(o, r, reverse, offset, limit) ==
  LET z == Elements(o)
      first == CASE o.enc = "ziplist" /\ reverse -> zzlLastInRange(z, r)
                 [] o.enc = "ziplist" /\ ~reverse -> zzlFirstInRange(z, r)
                 [] o.enc = "skiplist" /\ reverse -> zslLastInRange(z, r)
                 [] OTHER -> zslFirstInRange(z, r)
      AtLeastMin == {p \in ToSet(z) : zslValueGteMin(p[2], r)}
  IN  RangeWalk(z, first, reverse, offset, limit, IF reverse THEN AtLeastMin ELSE UpToMax(z, r))

\* Only meaningful when all the scores are the same.
genericZrangebylexCommand(o, r, reverse, offset, limit) ==
  LET z == Elements(o)
      first == IF reverse THEN zslLastInLexRange(z, r) ELSE zslFirstInLexRange(z, r)
      AtLeastMin == {p \in ToSet(z) : zslLexValueGteMin(p[1], r)}
  IN  RangeWalk(z, first, reverse, offset, limit, IF reverse THEN AtLeastMin ELSE UpToLexMax(z, r))

\* Mutant: the rank of the first element is taken for the number before it.
zcountRankForCount(o, r) ==
  LET z == Elements(o)
      i == zslFirstInRange(z, r)
      j == zslLastInRange(z, r)
  IN  IF i = 0 THEN 0 ELSE Len(z) - i - (Len(z) - j)

\* The skiplist path subtracts ranks instead of counting.
zcountCommand(o, r) ==
  LET z == Elements(o)
      i == zslFirstInRange(z, r)
      j == zslLastInRange(z, r)
      f == zzlFirstInRange(z, r)
  IN  IF o.enc = "ziplist"
      THEN IF f = 0 THEN 0 ELSE RunFrom(z, f, UpToMax(z, r)) - f + 1
      ELSE IF i = 0 THEN 0
      ELSE (Len(z) - (zslGetRank(z, z[i][1], z[i][2]) - 1))
             - (IF j = 0 THEN 0 ELSE Len(z) - zslGetRank(z, z[j][1], z[j][2]))

zlexcountCommand(o, r) ==
  LET z == Elements(o)
      i == zslFirstInLexRange(z, r)
      j == zslLastInLexRange(z, r)
  IN  IF i = 0 THEN 0
      ELSE IF o.enc = "ziplist" THEN RunFrom(z, i, UpToLexMax(z, r)) - i + 1
      ELSE (Len(z) - (i - 1)) - (IF j = 0 THEN 0 ELSE Len(z) - j)

\* Mutant: the reverse rank is off by one.
zrankOffByOne(o, s, reverse) ==
  LET rank == IF o.enc = "ziplist" THEN zzlFind(o.v, s) ELSE zslGetRank(o.v.zsl, s, zsetScore(o, s))
  IN  IF ~zsetHas(o, s) THEN -1 ELSE IF reverse THEN zsetLength(o) - rank + 1 ELSE rank - 1

\* The 0-based rank, -1 for none.
zrankGenericCommand(o, s, reverse) ==
  LET rank == IF o.enc = "ziplist" THEN zzlFind(o.v, s) ELSE zslGetRank(o.v.zsl, s, zsetScore(o, s))
  IN  IF ~zsetHas(o, s) THEN -1 ELSE IF reverse THEN zsetLength(o) - rank ELSE rank - 1
=============================================================================
