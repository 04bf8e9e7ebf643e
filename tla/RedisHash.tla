----------------------------- MODULE RedisHash -----------------------------
(***************************************************************************)
(* Hash commands: t_hash.c.  A small hash is a ziplist, here the sequence  *)
(* of its <<field, value>> pairs; a large one is a hash table.             *)
(***************************************************************************)
EXTENDS RedisDb

CONSTANTS HashMaxZiplistEntries,  \* hash-max-ziplist-entries
          HashMaxZiplistValue     \* hash-max-ziplist-value

ASSUME HashConstants == HashMaxZiplistEntries \in Nat /\ HashMaxZiplistValue \in Nat

createHashObject == createObject("hash", "ziplist", <<>>)

\* ziplistFind with a skip of one: only the fields are compared.
FieldAt(o, f) == SelectInSeq(o.v, LAMBDA p : p[1] = f)

hashTypeExists(o, f) == IF o.enc = "ziplist" THEN FieldAt(o, f) # 0 ELSE f \in DOMAIN o.v
hashTypeGetObject(o, f) == IF o.enc = "ziplist" THEN o.v[FieldAt(o, f)][2] ELSE o.v[f]
hashTypeLength(o) == IF o.enc = "ziplist" THEN Len(o.v) ELSE Cardinality(DOMAIN o.v)
hashTypeGetValueLength(o, f) == IF hashTypeExists(o, f) THEN Len(hashTypeGetObject(o, f)) ELSE 0

\* The iterator walks the pairs in order, or the dictionary.
hashTypeNext(o) ==
  IF o.enc = "ziplist" THEN {o.v[i] : i \in DOMAIN o.v} ELSE {<<f, o.v[f]>> : f \in DOMAIN o.v}

hashTypeConvert(o) ==
  IF o.enc = "hashtable" THEN o
  ELSE [o EXCEPT !.enc = "hashtable",
                 !.v = FoldLeft(LAMBDA t, p : dictReplace(t, p[1], p[2]), EmptyDict, o.v)]

hashTypeTryConversion(o, args) ==
  IF \E i \in DOMAIN args : Len(args[i]) > HashMaxZiplistValue THEN hashTypeConvert(o) ELSE o

\* Mutant: the pair is appended although the field is there.
ziplistAppend(o, f, s) == [o EXCEPT !.v = Append(@, <<f, s>>)]

ziplistSet(o, f, s) ==
  [o EXCEPT !.v = IF FieldAt(o, f) # 0 THEN [@ EXCEPT ![FieldAt(o, f)] = <<f, s>>]
                  ELSE Append(@, <<f, s>>)]

hashTypeSet(o, f, s) ==
  LET z == ziplistSet(o, f, s)
  IN  IF o.enc = "hashtable" THEN [o EXCEPT !.v = dictReplace(@, f, s)]
      ELSE IF hashTypeLength(z) > HashMaxZiplistEntries THEN hashTypeConvert(z) ELSE z

hashTypeDelete(o, f) ==
  IF ~hashTypeExists(o, f) THEN o
  ELSE [o EXCEPT !.v = IF o.enc = "ziplist" THEN RemoveAt(@, FieldAt(o, f)) ELSE dictDelete(@, f)]

\* The key is created at once: a command that then fails would leave an empty
\* hash behind.
HashCreated(e, k) == IF dbExists(e, k) THEN e ELSE dbAdd(e, k, createHashObject)
hashTypeLookupWriteOrCreate(c, d, k) == HashCreated(lookupKeyWrite(c, d, k), k)

hsetCommand(c, d, k, f, s) ==
  LET e == hashTypeLookupWriteOrCreate(c, d, k)
      o == hashTypeTryConversion(lookupKey(e, k), <<f, s>>)
  IN  IF checkType(e, k, "hash") THEN e
      ELSE Dirty(signalModifiedKey(dbOverwrite(e, k, hashTypeSet(o, f, s)), k), 1)

hsetnxCommand(c, d, k, f, s) ==
  LET e == hashTypeLookupWriteOrCreate(c, d, k)
      o == hashTypeTryConversion(lookupKey(e, k), <<f, s>>)
  IN  IF checkType(e, k, "hash") THEN e
      ELSE IF hashTypeExists(o, f) THEN dbOverwrite(e, k, o)
      ELSE Dirty(signalModifiedKey(dbOverwrite(e, k, hashTypeSet(o, f, s)), k), 1)

\* pairs is a sequence of <<field, value>>.
hmsetCommand(c, d, k, pairs) ==
  LET e == hashTypeLookupWriteOrCreate(c, d, k)
      o == hashTypeTryConversion(lookupKey(e, k), FlattenSeq(pairs))
      set == FoldLeft(LAMBDA x, p : hashTypeSet(x, p[1], p[2]), o, pairs)
  IN  IF checkType(e, k, "hash") THEN e
      ELSE Dirty(signalModifiedKey(dbOverwrite(e, k, set), k), 1)

\* A field that is not there counts as zero.
Current(o, f) == IF hashTypeExists(o, f) THEN hashTypeGetObject(o, f) ELSE ll2string(0)

hincrbyCommand(c, d, k, f, incr) ==
  LET e == hashTypeLookupWriteOrCreate(c, d, k)
      o == lookupKey(e, k)
      old == getLongLongFromObject(Current(o, f))
  IN  IF checkType(e, k, "hash") THEN e
      ELSE IF ~IsNumber(Current(o, f)) \/ Overflows(old, incr) THEN e
      ELSE Dirty(signalModifiedKey(dbOverwrite(e, k, hashTypeSet(o, f, ll2string(old + incr))), k), 1)

\* Replicated as an HSET of the final value.
hincrbyfloatCommand(c, d, k, f, incr) ==
  LET e == hashTypeLookupWriteOrCreate(c, d, k)
      o == lookupKey(e, k)
      new == ll2string(getLongLongFromObject(Current(o, f)) + incr)
  IN  IF checkType(e, k, "hash") THEN e
      ELSE IF ~IsNumber(Current(o, f)) THEN e
      ELSE [Dirty(signalModifiedKey(dbOverwrite(e, k, hashTypeSet(o, f, new)), k), 1)
              EXCEPT !.argv = <<[name |-> "HSET", key |-> k, field |-> f, str |-> new]>>]

\* Fields are deleted one by one, and the loop stops when the hash is empty.
hdelCommand(c, d, k, fields) ==
  LET e == lookupKeyWrite(c, d, k)
      o == lookupKey(e, k)
      new == FoldLeft(hashTypeDelete, o, fields)
      stored == IF hashTypeLength(new) = 0 THEN dbDelete(e, k) ELSE dbOverwrite(e, k, new)
  IN  IF ~dbExists(e, k) \/ checkType(e, k, "hash") THEN e
      ELSE Counted(e, stored, k, hashTypeLength(o) - hashTypeLength(new))

\* The replies of HGET, HMGET, HGETALL.
addHashFieldToReply(o, f) == IF hashTypeExists(o, f) THEN <<hashTypeGetObject(o, f)>> ELSE <<>>
hmgetCommand(o, fields) == [i \in DOMAIN fields |-> addHashFieldToReply(o, fields[i])]
genericHgetallCommand(o) == hashTypeNext(o)
=============================================================================
