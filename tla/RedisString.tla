---------------------------- MODULE RedisString ----------------------------
(***************************************************************************)
(* String commands: t_string.c.  Every operator takes the context, the     *)
(* data set and the command's arguments and gives the data set after it;   *)
(* an error leaves the data set as it was, except that looking the key up  *)
(* may already have expired it.                                            *)
(***************************************************************************)
EXTENDS RedisDb

\* flag is "NX", "XX" or "NONE"; ttl = 0 means that no expire was given, a
\* negative one that an invalid expire was.
setGenericCommand(c, d, k, s, flag, ttl) ==
  LET e == IF flag = "NONE" THEN d ELSE lookupKeyWrite(c, d, k)
      set == Dirty(setKey(c, e, k, tryObjectEncoding(s)), 1)
  IN  CASE ttl < 0 -> d
        [] ttl >= 0 /\ flag = "NX" /\ dbExists(e, k) -> e
        [] ttl >= 0 /\ flag = "XX" /\ ~dbExists(e, k) -> e
        [] OTHER -> IF ttl > 0 THEN setExpire(set, k, c.now + ttl) ELSE set

\* The reply of GET, <<>> when there is nothing to return.
getGenericCommand(c, d, k) ==
  LET e == expireIfNeeded(c, d, k)
  IN  IF VisibleToReader(c, e, k) /\ ~checkType(e, k, "string")
      THEN <<getDecodedObject(lookupKey(e, k))>> ELSE <<>>

getsetCommand(c, d, k, s) ==
  LET e == expireIfNeeded(c, d, k)
  IN  IF WrongType(e, k, "string") THEN e
      ELSE Dirty(setKey(c, e, k, tryObjectEncoding(s)), 1)

sdsgrowzero(s, n) == s \o [i \in 1..(n - Len(s)) |-> Nul]

\* The bytes [offset, offset + Len(new)) of s are overwritten by new.
OverwriteAt(s, offset, new) ==
  LET t == sdsgrowzero(s, offset + Len(new))
  IN  [i \in DOMAIN t |-> IF i - offset \in DOMAIN new THEN new[i - offset] ELSE t[i]]

setrangeCommand(c, d, k, offset, s) ==
  LET e == lookupKeyWrite(c, d, k)
      u == IF dbExists(e, k) THEN dbUnshareStringValue(e, k)
           ELSE dbAdd(e, k, createObject("string", "raw", sdsgrowzero(<<>>, offset + Len(s))))
      v == OverwriteAt(lookupKey(u, k).v, offset, s)
  IN  CASE offset < 0 -> d
        [] WrongType(e, k, "string") -> e
        [] s = <<>> \/ offset + Len(s) > MaxString -> e
        [] OTHER -> Dirty(signalModifiedKey(dbOverwrite(u, k, createObject("string", "raw", v)), k), 1)

\* The reply of GETRANGE on a string of that content.
getrangeCommand(str, start0, end0) ==
  LET strlen == Len(str)
      AtLeastZero(n) == IF n < 0 THEN 0 ELSE n
      start == AtLeastZero(IF start0 < 0 THEN strlen + start0 ELSE start0)
      end1 == AtLeastZero(IF end0 < 0 THEN strlen + end0 ELSE end0)
      end == IF end1 >= strlen THEN strlen - 1 ELSE end1
  IN  IF (start0 < 0 /\ end0 < 0 /\ start0 > end0) \/ start > end \/ strlen = 0
      THEN <<>> ELSE SubSeq(str, start + 1, end + 1)

\* pairs is a sequence of <<key, string>>.
msetGenericCommand(c, d, pairs, nx) ==
  LET e == IF nx THEN FoldLeft(LAMBDA x, p : lookupKeyWrite(c, x, p[1]), d, pairs) ELSE d
      busy == nx /\ \E i \in DOMAIN pairs : dbExists(e, pairs[i][1])
      Set(x, p) == setKey(c, x, p[1], tryObjectEncoding(p[2]))
  IN  IF busy THEN e ELSE Dirty(FoldLeft(Set, e, pairs), Len(pairs))

incrDecrCommand(c, d, k, incr) ==
  LET e == lookupKeyWrite(c, d, k)
      old == IF dbExists(e, k) THEN getLongLongFromObject(lookupKey(e, k).v) ELSE 0
  IN  CASE WrongType(e, k, "string") -> e
        [] dbExists(e, k) /\ ~IsNumber(lookupKey(e, k).v) -> e
        [] Overflows(old, incr) -> e
        [] OTHER ->
             Dirty(signalModifiedKey(dbStore(e, k, createStringObjectFromLongLong(old + incr)), k), 1)

\* DECRBY negates its argument first; the negation of LLONG_MIN wraps around
\* to LLONG_MIN itself.
decrbyCommand(c, d, k, n) ==
  incrDecrCommand(c, d, k, IF n = LLONG_MIN THEN LLONG_MIN ELSE 0 - n)

\* A long double holds every long long; it is replicated as a SET.
incrbyfloatCommand(c, d, k, incr) ==
  LET e == lookupKeyWrite(c, d, k)
      old == IF dbExists(e, k) THEN getLongLongFromObject(lookupKey(e, k).v) ELSE 0
      new == createStringObject(ll2string(old + incr))
  IN  IF WrongType(e, k, "string") \/ (dbExists(e, k) /\ ~IsNumber(lookupKey(e, k).v)) THEN e
      ELSE [Dirty(signalModifiedKey(dbStore(e, k, new), k), 1)
              EXCEPT !.argv = <<[name |-> "SET", key |-> k, str |-> new.v, flag |-> "NONE", ttl |-> 0]>>]

appendCommand(c, d, k, s) ==
  LET e == lookupKeyWrite(c, d, k)
      u == dbUnshareStringValue(e, k)
      joined == createObject("string", "raw", lookupKey(e, k).v \o s)
      set == IF dbExists(e, k) THEN dbOverwrite(u, k, joined) ELSE dbAdd(e, k, tryObjectEncoding(s))
  IN  IF WrongType(e, k, "string") \/ (dbExists(e, k) /\ Len(joined.v) > MaxString) THEN e
      ELSE Dirty(signalModifiedKey(set, k), 1)

\* mget and strlen: what the readers return.
mgetCommand(c, d, keys) == [i \in DOMAIN keys |-> getGenericCommand(c, d, keys[i])]
strlenCommand(c, d, k) ==
  LET r == getGenericCommand(c, d, k) IN IF r = <<>> THEN 0 ELSE Len(r[1])
=============================================================================
