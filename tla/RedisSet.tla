------------------------------ MODULE RedisSet ------------------------------
(***************************************************************************)
(* Set commands: t_set.c.  An intset holds integers, a hash table holds    *)
(* strings; random choices are arguments of the operators.                 *)
(***************************************************************************)
EXTENDS RedisDb

CONSTANTS SetMaxIntsetEntries,   \* set-max-intset-entries
          SpopMoveStrategyMul    \* SPOP_MOVE_STRATEGY_MUL, 5 in the code

ASSUME SetConstants == SetMaxIntsetEntries \in Nat /\ SpopMoveStrategyMul \in Nat

createIntsetObject == createObject("set", "intset", {})
createSetObject == createObject("set", "hashtable", {})

setTypeCreate(s) == IF IsLong(s) THEN createIntsetObject ELSE createSetObject

\* The elements as strings, whatever the encoding: setTypeNextObject turns
\* each integer of an intset into its decimal string.
setTypeNextObject(o) == IF o.enc = "intset" THEN {ll2string(n) : n \in o.v} ELSE o.v
setTypeSize(o) == Cardinality(o.v)

setTypeConvert(o) == [o EXCEPT !.enc = "hashtable", !.v = setTypeNextObject(o)]

setTypeIsMember(o, s) ==
  IF o.enc = "hashtable" THEN s \in o.v ELSE IsLong(s) /\ string2ll(s) \in o.v

intsetAdd(o, s) ==
  LET new == [o EXCEPT !.v = @ \cup {string2ll(s)}]
  IN  IF ~setTypeIsMember(o, s) /\ setTypeSize(new) > SetMaxIntsetEntries
      THEN setTypeConvert(new) ELSE new

setTypeAdd(o, s) ==
  CASE o.enc = "hashtable" -> [o EXCEPT !.v = @ \cup {s}]
    [] o.enc = "intset" /\ IsLong(s) -> intsetAdd(o, s)
    [] OTHER -> [setTypeConvert(o) EXCEPT !.v = @ \cup {s}]

setTypeRemove(o, s) ==
  IF o.enc = "hashtable" THEN [o EXCEPT !.v = @ \ {s}]
  ELSE IF IsLong(s) THEN [o EXCEPT !.v = @ \ {string2ll(s)}] ELSE o

AddAll(o, S) == FoldSet(LAMBDA s, x : setTypeAdd(x, s), o, S)
RemoveAll(o, S) == FoldSet(LAMBDA s, x : setTypeRemove(x, s), o, S)

\* Mutant: the empty set is stored.
setStoreKeepsEmpty(d, k, o) == dbOverwrite(d, k, o)

setStore(d, k, o) == IF setTypeSize(o) = 0 THEN dbDelete(d, k) ELSE dbOverwrite(d, k, o)

\* The set is the same object, changed in place: only the report depends on
\* whether something was added.
saddStored(e, k, old, new) ==
  LET added == setTypeSize(new) - setTypeSize(old)
  IN  Counted(dbAdd(e, k, new), dbAdd(e, k, new), k, added)

saddCommand(c, d, k, values) ==
  LET e == lookupKeyWrite(c, d, k)
      base == IF dbExists(e, k) THEN lookupKey(e, k) ELSE setTypeCreate(values[1])
  IN  IF WrongType(e, k, "set") THEN e
      ELSE saddStored(e, k, base, FoldLeft(setTypeAdd, base, values))

\* The loop stops as soon as the set is empty.
sremCommand(c, d, k, values) ==
  LET e == lookupKeyWrite(c, d, k)
      o == lookupKey(e, k)
      new == FoldLeft(setTypeRemove, o, values)
  IN  IF ~dbExists(e, k) \/ checkType(e, k, "set") THEN e
      ELSE Counted(e, setStore(e, k, new), k, setTypeSize(o) - setTypeSize(new))

smoveCommand(c, d, src, dst, s) ==
  LET e == lookupKeyWrite(c, lookupKeyWrite(c, d, src), dst)
      removed == setStore(e, src, setTypeRemove(lookupKey(e, src), s))
      base == IF dbExists(e, dst) THEN lookupKey(e, dst) ELSE setTypeCreate(s)
      new == dbAdd(removed, dst, setTypeAdd(base, s))
      isnew == ~setTypeIsMember(base, s)
  IN  CASE ~dbExists(e, src) -> e
        [] dbExists(e, src) /\ (checkType(e, src, "set") \/ WrongType(e, dst, "set")) -> e
        [] dbExists(e, src) /\ ~checkType(e, src, "set") /\ ~WrongType(e, dst, "set")
           /\ (src = dst \/ ~setTypeIsMember(lookupKey(e, src), s)) -> e
        [] OTHER -> Dirty(signalModifiedKey(signalModifiedKey(new, src), dst), IF isnew THEN 2 ELSE 1)

Srem(k, s) == [name |-> "SREM", key |-> k, values |-> <<s>>]

\* The members SPOP takes are the argument popped, count of them.
\* preventCommandPropagation is called, and one SREM per member is sent.
spopRemove(e, k, popped, count) ==
  LET o == lookupKey(e, k)
      remaining == setTypeSize(o) - count
      rest == setTypeNextObject(o) \ popped
      shrunk == RemoveAll(o, popped)                                   \* case 2
      rebuilt == AddAll(setTypeCreate(CHOOSE s \in rest : TRUE), rest)  \* case 3
      new == IF remaining * SpopMoveStrategyMul > count THEN shrunk ELSE rebuilt
  IN  [Dirty(signalModifiedKey(dbOverwrite(e, k, new), k), count + 1)
        EXCEPT !.prevent = TRUE,
               !.also = @ \o SetToSeq({Srem(k, s) : s \in popped})]

spopWithCountCommand(c, d, k, count, popped) ==
  LET e == expireIfNeeded(c, d, k)
  IN  IF ~dbExists(e, k) \/ checkType(e, k, "set") THEN e
      ELSE IF count = 0 THEN e
      ELSE IF count >= setTypeSize(lookupKey(e, k))
      THEN [Dirty(signalModifiedKey(dbDelete(e, k), k), count + 1)
              EXCEPT !.argv = <<[name |-> "DEL", key |-> k]>>]
      ELSE spopRemove(e, k, popped, count)

spopCommand(c, d, k, s) ==
  LET e == lookupKeyWrite(c, d, k)
  IN  IF ~dbExists(e, k) \/ checkType(e, k, "set") THEN e
      ELSE [Dirty(signalModifiedKey(setStore(e, k, setTypeRemove(lookupKey(e, k), s)), k), 1)
              EXCEPT !.argv = <<Srem(k, s)>>]

\* The sizes SRANDMEMBER with a count can answer with: distinct members for a
\* positive count, repetitions for a negative one.
srandmemberWithCountCommand(o, l) ==
  LET size == setTypeSize(o)
      count == IF l < 0 THEN 0 - l ELSE l
  IN  IF l < 0 THEN count ELSE IF count >= size THEN size ELSE count

\* The sources are looked up in order, until one has none of the types ("none":
\* there is no such key).  r.stop is the key that ended the loop, if one did.
LookupSources(c, d, keys, types) ==
  LET Step(r, k) ==
        LET e == lookupKeyWrite(c, r.d, k)
            type == IF dbExists(e, k) THEN lookupKey(e, k).type ELSE "none"
        IN  IF r.stop # <<>> THEN r ELSE [d |-> e, stop |-> IF type \in types THEN <<>> ELSE <<k>>]
  IN  FoldLeft(Step, [d |-> d, stop |-> <<>>], keys)

SetAt(d, k) == IF dbExists(d, k) THEN lookupKey(d, k) ELSE createIntsetObject

\* The intersection walks the smallest set and asks all the others.
sinterResult(sets) ==
  LET i == CHOOSE i \in DOMAIN sets : \A j \in DOMAIN sets : setTypeSize(sets[i]) <= setTypeSize(sets[j])
      common == {s \in setTypeNextObject(sets[i]) : \A j \in DOMAIN sets : setTypeIsMember(sets[j], s)}
  IN  AddAll(createIntsetObject, common)

storeResult(d, dst, o) ==
  LET e == dbDelete(d, dst)
  IN  Dirty(signalModifiedKey(IF setTypeSize(o) > 0 THEN dbAdd(e, dst, o) ELSE e, dst), 1)

\* The first source that is missing or of another type decides.
sinterstoreCommand(c, d, dst, keys) ==
  LET r == LookupSources(c, d, keys, {"set"})
      sets == [i \in DOMAIN keys |-> lookupKey(r.d, keys[i])]
  IN  IF r.stop = <<>> THEN storeResult(r.d, dst, sinterResult(sets))
      ELSE IF dbExists(r.d, r.stop[1]) \/ ~dbExists(r.d, dst) THEN r.d
      ELSE Dirty(signalModifiedKey(dbDelete(r.d, dst), dst), 1)

sunionResult(sets) == FoldLeft(LAMBDA o, x : AddAll(o, setTypeNextObject(x)), createIntsetObject, sets)

\* Algorithm 1 probes the other sets for each element of the first one,
\* algorithm 2 removes their elements from a copy of it.
sdiffAlgorithm(sets) ==
  LET present == {j \in DOMAIN sets : sets[j].v # {}}
      one == (Cardinality(present) * setTypeSize(sets[1])) \div 2
      two == FoldLeft(LAMBDA n, o : n + setTypeSize(o), 0, sets)
  IN  IF one <= two THEN 1 ELSE 2

sdiffResult(sets) ==
  LET others == 2..Len(sets)
      probed == {s \in setTypeNextObject(sets[1]) : \A j \in others : ~setTypeIsMember(sets[j], s)}
      copy == AddAll(createIntsetObject, setTypeNextObject(sets[1]))
  IN  IF sdiffAlgorithm(sets) = 1 THEN AddAll(createIntsetObject, probed)
      ELSE FoldLeft(LAMBDA o, x : RemoveAll(o, setTypeNextObject(x)), copy, Tail(sets))

\* op is "union" or "diff".
sunionDiffGenericCommand(c, d, dst, keys, op) ==
  LET r == LookupSources(c, d, keys, {"none", "set"})
      sets == [i \in DOMAIN keys |-> SetAt(r.d, keys[i])]
      result == IF op = "union" THEN sunionResult(sets) ELSE sdiffResult(sets)
  IN  IF r.stop # <<>> THEN r.d ELSE storeResult(r.d, dst, result)
=============================================================================
