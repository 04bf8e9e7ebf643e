------------------------------ MODULE RedisDb ------------------------------
(***************************************************************************)
(* The data set of a Redis server and the functions every command reaches  *)
(* it through: db.c and the parts of object.c that decide how a string is  *)
(* stored.                                                                 *)
(*                                                                         *)
(* A data set d is a record                                                *)
(*   val, ex   the main dictionary and the expires dictionary, functions   *)
(*             over the keys they hold; a key is <<database, name>>        *)
(* and, while one command runs,                                            *)
(*   dirty     what the command added to server.dirty                      *)
(*   touched   the keys signalModifiedKey was called for                   *)
(*   feed      commands given to propagate() while the command was running *)
(*   also      commands scheduled with alsoPropagate()                     *)
(*   argv      the command as rewriteClientCommandVector() left it         *)
(*   prevent   preventCommandPropagation() was called                      *)
(* A command is executed in a context c: c.role is "master", "slave" (the  *)
(* command comes from the master) or "loading" (from the append only       *)
(* file), c.now is mstime().                                               *)
(*                                                                         *)
(* A byte is a number: 0 to 9 are the digits, and three more stand for all *)
(* other bytes.  A string is a sequence of bytes; long long is scaled down *)
(* to -LLONG_MAX-1 .. LLONG_MAX.                                           *)
(***************************************************************************)
EXTENDS Integers, Sequences, FiniteSets, SequencesExt

CONSTANTS LLONG_MAX,        \* the largest long long
          EmbstrLimit,      \* OBJ_ENCODING_EMBSTR_SIZE_LIMIT
          MaxString         \* checkStringLength: 512 MB

ASSUME DbConstants == LLONG_MAX \in 1..8 /\ EmbstrLimit \in Nat /\ MaxString \in Nat

Minus == 10
Nul == 11
Letter == 12
LLONG_MIN == 0 - LLONG_MAX - 1

-----------------------------------------------------------------------------
(* Dictionaries and numbers.                                               *)

EmptyDict == [k \in {} |-> 0]
dictReplace(f, k, v) == [x \in DOMAIN f \cup {k} |-> IF x = k THEN v ELSE f[x]]
dictDelete(f, k) == [x \in DOMAIN f \ {k} |-> f[x]]

\* ll2string: the only spelling of n that the server itself produces.
ll2string(n) == IF n < 0 THEN <<Minus, 0 - n>> ELSE <<n>>

\* string2ll: exactly the strings ll2string produces are accepted.
IsLong(s) == \E n \in LLONG_MIN..LLONG_MAX : s = ll2string(n)
string2ll(s) == CHOOSE n \in LLONG_MIN..LLONG_MAX : s = ll2string(n)

\* strtoll is laxer: it stops at a NUL byte, takes leading zeros, and reads
\* the empty string as zero.
CString(s) == LET n == SelectInSeq(s, LAMBDA b : b = Nul)
              IN  IF n = 0 THEN s ELSE SubSeq(s, 1, n - 1)
Digits(s) == IF s # <<>> /\ Head(s) = Minus THEN Tail(s) ELSE s
Magnitude(s) == FoldLeft(LAMBDA n, b : 10 * n + b, 0, Digits(s))
strtoll(s) == IF Digits(s) = s THEN Magnitude(s) ELSE 0 - Magnitude(s)

\* getLongLongFromObject: the strings INCR and its kin accept as a number.
IsNumber(s) ==
  LET t == CString(s) IN
  /\ \A i \in DOMAIN Digits(t) : Digits(t)[i] \in 0..9
  /\ Digits(t) = <<>> => t = <<>>
  /\ strtoll(t) \in LLONG_MIN..LLONG_MAX

getLongLongFromObject(s) == strtoll(CString(s))

\* The test in front of the addition, written so that it cannot overflow itself.
Overflows(old, incr) ==
  \/ incr < 0 /\ old < 0 /\ incr < LLONG_MIN - old
  \/ incr > 0 /\ old > 0 /\ incr > LLONG_MAX - old

\* memcmp on sds strings, the shorter one first when it is a prefix.
sdscmpLess(s, t) ==
  \/ IsStrictPrefix(s, t)
  \/ \E i \in DOMAIN s \cap DOMAIN t :
       s[i] < t[i] /\ \A j \in 1..(i - 1) : s[j] = t[j]

-----------------------------------------------------------------------------
(* Objects.                                                                *)

createObject(type, enc, v) == [type |-> type, enc |-> enc, v |-> v]

createStringObject(s) ==
  createObject("string", IF Len(s) <= EmbstrLimit THEN "embstr" ELSE "raw", s)

createStringObjectFromLongLong(n) == createObject("string", "int", ll2string(n))

tryObjectEncoding(s) ==
  IF IsLong(s) THEN createStringObjectFromLongLong(string2ll(s)) ELSE createStringObject(s)

getDecodedObject(o) == o.v

-----------------------------------------------------------------------------
(* Data sets.                                                              *)

EmptyDataset ==
  [val |-> EmptyDict, ex |-> EmptyDict, dirty |-> 0, touched |-> {}, feed |-> <<>>,
   also |-> <<>>, argv |-> <<>>, prevent |-> FALSE]

dbExists(d, k) == k \in DOMAIN d.val
lookupKey(d, k) == d.val[k]

getExpire(d, k) == IF k \in DOMAIN d.ex THEN d.ex[k] ELSE -1
setExpire(d, k, when) == [d EXCEPT !.ex = dictReplace(@, k, when)]
removeExpire(d, k) == [d EXCEPT !.ex = dictDelete(@, k)]

\* Mutant: the entry of the expires dictionary stays behind.
dbDeleteKeepsExpire(d, k) == [d EXCEPT !.val = dictDelete(@, k)]

dbAdd(d, k, o) == [d EXCEPT !.val = dictReplace(@, k, o)]
dbOverwrite(d, k, o) == [d EXCEPT !.val = dictReplace(@, k, o)]
dbDelete(d, k) == [d EXCEPT !.val = dictDelete(@, k), !.ex = dictDelete(@, k)]

\* removeExpire and setExpire assert that the key is in the main dictionary.
signalModifiedKey(d, k) == [d EXCEPT !.touched = @ \cup {k}]
Dirty(d, n) == [d EXCEPT !.dirty = @ + n]

\* The end of a command that adds or removes n elements: data set e when that
\* changed nothing, else the stored one, with the change signalled and counted.
Counted(e, stored, k, n) == IF n = 0 THEN e ELSE Dirty(signalModifiedKey(stored, k), n)

propagateExpire(d, k) == [d EXCEPT !.feed = Append(@, [name |-> "DEL", key |-> k])]

\* A slave never deletes an expired key by itself, and nothing expires while
\* loading; keys are dead strictly after their expire time.
LogicallyExpired(c, d, k) == getExpire(d, k) >= 0 /\ c.now > getExpire(d, k)
\* Mutant: the key is deleted, but the copies are not told.
expireSilently(c, d, k) ==
  IF LogicallyExpired(c, d, k) /\ c.role = "master" THEN dbDelete(d, k) ELSE d

expireIfNeeded(c, d, k) ==
  IF LogicallyExpired(c, d, k) /\ c.role = "master"
  THEN dbDelete(propagateExpire(d, k), k)
  ELSE d

lookupKeyWrite(c, d, k) == expireIfNeeded(c, d, k)

\* What a client sees: a slave hides an expired key from its own readers.
VisibleToReader(c, d, k) ==
  /\ dbExists(d, k)
  /\ c.role = "loading" \/ ~LogicallyExpired(c, d, k)

\* Add or overwrite, whichever applies.
dbStore(e, k, o) == IF dbExists(e, k) THEN dbOverwrite(e, k, o) ELSE dbAdd(e, k, o)

setKey(c, d, k, o) ==
  signalModifiedKey(removeExpire(dbStore(lookupKeyWrite(c, d, k), k, o), k), k)

dbUnshareStringValue(d, k) ==
  IF lookupKey(d, k).enc = "raw" THEN d
  ELSE dbOverwrite(d, k, createObject("string", "raw", getDecodedObject(lookupKey(d, k))))

checkType(d, k, type) == lookupKey(d, k).type # type
WrongType(d, k, type) == dbExists(d, k) /\ checkType(d, k, type)

-----------------------------------------------------------------------------
(* Commands that do not look into the value.                               *)

DelOne(c, d, k) ==
  LET e == expireIfNeeded(c, d, k)
  IN  IF dbExists(e, k) THEN Dirty(signalModifiedKey(dbDelete(e, k), k), 1) ELSE e

delCommand(c, d, keys) == FoldLeft(LAMBDA e, k : DelOne(c, e, k), d, keys)

existsCommand(c, d, keys) == FoldLeft(LAMBDA e, k : expireIfNeeded(c, e, k), d, keys)

InDb(d, db) == {k \in DOMAIN d.val : k[1] = db}

flushdbCommand(d, db) ==
  LET gone == InDb(d, db)
  IN  [Dirty(d, Cardinality(gone)) EXCEPT
        !.touched = @ \cup gone,
        !.val = [k \in DOMAIN d.val \ gone |-> d.val[k]],
        !.ex = [k \in DOMAIN d.ex \ gone |-> d.ex[k]]]

emptyDb(d) == [Dirty(d, Cardinality(DOMAIN d.val)) EXCEPT !.val = EmptyDict, !.ex = EmptyDict]

flushallCommand(d) == Dirty(emptyDb([d EXCEPT !.touched = @ \cup DOMAIN d.val]), 1)

\* Mutant: only the source is signalled.
renameSignalsSource(c, d, src, dst, nx) ==
  LET e == lookupKeyWrite(c, d, src)
      f == lookupKeyWrite(c, e, dst)
      moved == dbDelete(dbAdd(dbDelete(f, dst), dst, lookupKey(e, src)), src)
  IN  IF ~dbExists(e, src) \/ src = dst \/ (nx /\ dbExists(f, dst)) THEN f
      ELSE Dirty(signalModifiedKey(moved, src), 1)

renameGenericCommand(c, d, src, dst, nx) ==
  LET e == lookupKeyWrite(c, d, src)
      o == lookupKey(e, src)
      f == lookupKeyWrite(c, e, dst)
      added == dbAdd(dbDelete(f, dst), dst, o)
      timed == IF getExpire(e, src) # -1 THEN setExpire(added, dst, getExpire(e, src)) ELSE added
  IN  CASE ~dbExists(e, src) \/ src = dst -> e
        [] nx /\ dbExists(f, dst) -> f
        [] OTHER -> Dirty(signalModifiedKey(signalModifiedKey(dbDelete(timed, src), src), dst), 1)

\* MOVE signals neither the source nor the destination.
moveCommand(c, d, k, db) ==
  LET to == <<db, k[2]>>
      e == lookupKeyWrite(c, d, k)
      f == lookupKeyWrite(c, e, to)
      added == dbAdd(f, to, lookupKey(e, k))
      timed == IF getExpire(e, k) # -1 THEN setExpire(added, to, getExpire(e, k)) ELSE added
  IN  CASE to = k -> d
        [] to # k /\ ~dbExists(e, k) -> e
        [] to # k /\ dbExists(e, k) /\ dbExists(f, to) -> f
        [] OTHER -> Dirty(dbDelete(timed, k), 1)

\* basetime is 0 for EXPIREAT and PEXPIREAT.
expireGenericCommand(c, d, k, basetime, ttl) ==
  LET when == basetime + ttl
      e == lookupKeyWrite(c, d, k)
  IN  CASE ~dbExists(e, k) -> e
        [] dbExists(e, k) /\ when <= c.now /\ c.role = "master" ->
             [Dirty(signalModifiedKey(dbDelete(e, k), k), 1)
                EXCEPT !.argv = <<[name |-> "DEL", key |-> k]>>]
        [] OTHER -> Dirty(signalModifiedKey(setExpire(e, k, when), k), 1)

\* PERSIST looks the key up directly: it neither expires nor signals it.
persistCommand(d, k) ==
  IF dbExists(d, k) /\ getExpire(d, k) # -1 THEN Dirty(removeExpire(d, k), 1) ELSE d

\* The reply of PTTL: -2 for no key, -1 for no expire.
ttlGenericCommand(c, d, k) ==
  LET e == expireIfNeeded(c, d, k)
      when == getExpire(e, k)
  IN  CASE ~VisibleToReader(c, e, k) -> -2
        [] VisibleToReader(c, e, k) /\ when = -1 -> -1
        [] OTHER -> IF when < c.now THEN 0 ELSE when - c.now
=============================================================================
