----------------------------- MODULE RedisList -----------------------------
(***************************************************************************)
(* List commands: t_list.c, without the blocking ones.  A list object is a *)
(* quicklist; its elements are what the commands see, a sequence.          *)
(***************************************************************************)
EXTENDS RedisDb

createQuicklistObject == createObject("list", "quicklist", <<>>)

listTypePush(o, s, where) ==
  [o EXCEPT !.v = IF where = "head" THEN <<s>> \o @ ELSE Append(@, s)]

listTypePopped(o, where) == IF where = "head" THEN Head(o.v) ELSE Last(o.v)
listTypePop(o, where) == [o EXCEPT !.v = IF where = "head" THEN Tail(@) ELSE Front(@)]

listTypeLength(o) == Len(o.v)

\* The entry is inserted after the pivot for "tail", before it for "head".
listTypeInsert(o, i, s, where) ==
  [o EXCEPT !.v = InsertAt(@, IF where = "tail" THEN i + 1 ELSE i, s)]

\* The list is stored back, or its key deleted when nothing is left.
StoreOrDelete(d, k, o) == IF listTypeLength(o) = 0 THEN dbDelete(d, k) ELSE dbOverwrite(d, k, o)

pushGenericCommand(c, d, k, values, where) ==
  LET e == lookupKeyWrite(c, d, k)
      base == IF dbExists(e, k) THEN lookupKey(e, k) ELSE createQuicklistObject
      pushed == FoldLeft(LAMBDA o, s : listTypePush(o, s, where), base, values)
  IN  IF WrongType(e, k, "list") THEN e
      ELSE Dirty(signalModifiedKey(dbAdd(e, k, pushed), k), Len(values))

\* refval is <<>> for LPUSHX and RPUSHX, <<pivot>> for LINSERT.
pushxGenericCommand(c, d, k, refval, s, where) ==
  LET e == lookupKeyWrite(c, d, k)
      o == lookupKey(e, k)
      at == SelectInSeq(o.v, LAMBDA x : x = refval[1])
      new == IF refval = <<>> THEN listTypePush(o, s, where) ELSE listTypeInsert(o, at, s, where)
  IN  IF ~dbExists(e, k) \/ checkType(e, k, "list") THEN e
      ELSE IF refval # <<>> /\ at = 0 THEN e
      ELSE Dirty(signalModifiedKey(dbOverwrite(e, k, new), k), 1)

\* Position of a C index in a sequence, 0 when it is out of range.
Position(n, index) ==
  LET i == IF index < 0 THEN n + index + 1 ELSE index + 1 IN IF i \in 1..n THEN i ELSE 0

lindexCommand(o, index) ==
  LET i == Position(listTypeLength(o), index) IN IF i = 0 THEN <<>> ELSE <<o.v[i]>>

lsetCommand(c, d, k, index, s) ==
  LET e == lookupKeyWrite(c, d, k)
      o == lookupKey(e, k)
      i == Position(listTypeLength(o), index)
  IN  IF ~dbExists(e, k) \/ checkType(e, k, "list") THEN e
      ELSE IF i = 0 THEN e
      ELSE Dirty(signalModifiedKey(dbOverwrite(e, k, [o EXCEPT !.v[i] = s]), k), 1)

popGenericCommand(c, d, k, where) ==
  LET e == lookupKeyWrite(c, d, k)
  IN  IF ~dbExists(e, k) \/ checkType(e, k, "list") THEN e
      ELSE Dirty(signalModifiedKey(StoreOrDelete(e, k, listTypePop(lookupKey(e, k), where)), k), 1)

\* The 0-based first and last index of a range of a sequence of llen elements,
\* as LRANGE and ZRANGE compute them; the range is empty when first > last.
NormalRange(llen, start0, end0) ==
  LET s1 == IF start0 < 0 THEN llen + start0 ELSE start0
      e1 == IF end0 < 0 THEN llen + end0 ELSE end0
      start == IF s1 < 0 THEN 0 ELSE s1
  IN  IF start > e1 \/ start >= llen THEN [first |-> 0, last |-> -1]
      ELSE [first |-> start, last |-> IF e1 >= llen THEN llen - 1 ELSE e1]

lrangeCommand(o, start, end) ==
  LET r == NormalRange(listTypeLength(o), start, end) IN SubSeq(o.v, r.first + 1, r.last + 1)

\* Mutant: one element too many is cut off at the tail.
ltrimOneMore(c, d, k, start, end) ==
  LET o == lookupKey(d, k)
      r == NormalRange(listTypeLength(o), start, end)
      new == [o EXCEPT !.v = SubSeq(@, r.first + 1, r.last)]
  IN  IF ~dbExists(d, k) \/ checkType(d, k, "list") THEN d
      ELSE Dirty(signalModifiedKey(StoreOrDelete(d, k, new), k), 1)

ltrimCommand(c, d, k, start, end) ==
  LET e == lookupKeyWrite(c, d, k)
      o == lookupKey(e, k)
      llen == listTypeLength(o)
      r == NormalRange(llen, start, end)
      ltrim == IF r.last < r.first THEN llen ELSE r.first
      rtrim == IF r.last < r.first THEN 0 ELSE llen - r.last - 1
      new == [o EXCEPT !.v = SubSeq(@, ltrim + 1, llen - rtrim)]
  IN  IF ~dbExists(e, k) \/ checkType(e, k, "list") THEN e
      ELSE Dirty(signalModifiedKey(StoreOrDelete(e, k, new), k), 1)

\* The positions LREM deletes: the first toremove matches from the head, or
\* from the tail when toremove is negative; all of them when it is zero.
LremPositions(s, toremove, x) ==
  LET hits == {i \in DOMAIN s : s[i] = x}
      Rank(i) == IF toremove < 0 THEN Cardinality({j \in hits : j >= i})
                 ELSE Cardinality({j \in hits : j <= i})
      n == IF toremove < 0 THEN 0 - toremove ELSE toremove
  IN  IF toremove = 0 THEN hits ELSE {i \in hits : Rank(i) <= n}

lremCommand(c, d, k, toremove, x) ==
  LET e == lookupKeyWrite(c, d, k)
      o == lookupKey(e, k)
      gone == LremPositions(o.v, toremove, x)
      kept == FoldLeft(LAMBDA s, i : IF i \in gone THEN s ELSE Append(s, o.v[i]),
                       <<>>, [i \in DOMAIN o.v |-> i])
      new == StoreOrDelete(e, k, [o EXCEPT !.v = kept])
  IN  IF ~dbExists(e, k) \/ checkType(e, k, "list") THEN e
      ELSE IF gone = {} THEN e
      ELSE Dirty(signalModifiedKey(new, k), Cardinality(gone))

rpoplpushHandlePush(d, dst, s) ==
  LET base == IF dbExists(d, dst) THEN lookupKey(d, dst) ELSE createQuicklistObject
  IN  dbAdd(signalModifiedKey(d, dst), dst, listTypePush(base, s, "head"))

\* Source and destination may be the same key: the element is popped before
\* it is pushed, and the source is deleted only if it is empty after the push.
rpoplpushCommand(c, d, src, dst) ==
  LET e == lookupKeyWrite(c, d, src)
      f == lookupKeyWrite(c, e, dst)
      s == listTypePopped(lookupKey(f, src), "tail")
      popped == dbOverwrite(f, src, listTypePop(lookupKey(f, src), "tail"))
      pushed == rpoplpushHandlePush(popped, dst, s)
  IN  IF ~dbExists(e, src) \/ checkType(e, src, "list") THEN e
      ELSE IF WrongType(f, dst, "list") THEN f
      ELSE Dirty(signalModifiedKey(StoreOrDelete(pushed, src, lookupKey(pushed, src)), src), 1)
=============================================================================
