------------------------------ MODULE Keyspace ------------------------------
(***************************************************************************)
(* The data set of a master under its commands, next to what the same      *)
(* commands leave behind on a replica and in the append only file.         *)
(*                                                                         *)
(* A step is one call(): the command runs to completion on the master,     *)
(* then the replica executes what propagate() sent it, Lag later by its    *)
(* own clock, and the append only file takes the translated commands.  The *)
(* variable aof is the data set that loading the file at LoadTime would    *)
(* build: loading is deterministic, so it can be computed as the file      *)
(* grows.                                                                  *)
(***************************************************************************)
EXTENDS RedisString, RedisList, RedisHash, RedisZset

CONSTANTS Names,          \* key names
          Repertoires,    \* named sets of command records; clients keep to one of them
          MaxTime,        \* bound on the clock
          Lag,            \* age of a command when the replica executes it
          LoadTime,       \* when the append only file is loaded
          MsPerSecond,    \* milliseconds in a second
          ItemsPerCmd,    \* AOF_REWRITE_ITEMS_PER_CMD
          MaxSize,        \* bound on elements and on the length of strings
          MaxScore        \* bound on finite scores

ASSUME KeyspaceConstants ==
  /\ MaxTime \in Nat /\ Lag \in Nat /\ {MsPerSecond, ItemsPerCmd} \subseteq Nat \ {0}
  /\ MaxSize \in Nat /\ MaxScore \in Nat
  /\ LoadTime > MaxTime

VARIABLES repertoire, now, master, replica, aof, late,
          revived    \* a PERSIST brought back a dead key that some copy had left out

vars == <<repertoire, now, master, replica, aof, late, revived>>

-----------------------------------------------------------------------------
(* The command table.                                                      *)

\* EXPIRE and its variants: seconds or milliseconds, relative or absolute.
expireArguments(c, cmd) ==
  CASE cmd.name = "EXPIRE" -> <<c.now, cmd.ttl * MsPerSecond>>
    [] cmd.name = "PEXPIRE" -> <<c.now, cmd.ttl>>
    [] cmd.name = "EXPIREAT" -> <<0, cmd.ttl * MsPerSecond>>
    [] OTHER -> <<0, cmd.ttl>>

Expires == {"EXPIRE", "PEXPIRE", "EXPIREAT", "PEXPIREAT"}

KeyCommand(c, d, cmd) ==
  CASE cmd.name = "DEL" -> delCommand(c, d, <<cmd.key>>)
    [] cmd.name = "EXISTS" -> existsCommand(c, d, <<cmd.key>>)
    [] cmd.name = "RENAME" -> renameGenericCommand(c, d, cmd.key, cmd.dst, FALSE)
    [] cmd.name = "RENAMENX" -> renameGenericCommand(c, d, cmd.key, cmd.dst, TRUE)
    [] cmd.name = "MOVE" -> moveCommand(c, d, cmd.key, cmd.db)
    [] cmd.name = "PERSIST" -> persistCommand(d, cmd.key)
    [] cmd.name = "FLUSHDB" -> flushdbCommand(d, cmd.key[1])
    [] cmd.name = "FLUSHALL" -> flushallCommand(d)
    [] OTHER -> expireGenericCommand(c, d, cmd.key, expireArguments(c, cmd)[1], expireArguments(c, cmd)[2])

StringCommand(c, d, cmd) ==
  CASE cmd.name = "SET" -> setGenericCommand(c, d, cmd.key, cmd.str, cmd.flag, cmd.ttl)
    [] cmd.name = "SETEX" -> setGenericCommand(c, d, cmd.key, cmd.str, "NONE", cmd.ttl * MsPerSecond)
    [] cmd.name = "GETSET" -> getsetCommand(c, d, cmd.key, cmd.str)
    [] cmd.name = "SETRANGE" -> setrangeCommand(c, d, cmd.key, cmd.n, cmd.str)
    [] cmd.name = "APPEND" -> appendCommand(c, d, cmd.key, cmd.str)
    [] cmd.name = "INCRBY" -> incrDecrCommand(c, d, cmd.key, cmd.n)
    [] cmd.name = "DECRBY" -> decrbyCommand(c, d, cmd.key, cmd.n)
    [] cmd.name = "INCRBYFLOAT" -> incrbyfloatCommand(c, d, cmd.key, cmd.n)
    [] cmd.name = "MSET" -> msetGenericCommand(c, d, cmd.pairs, FALSE)
    [] OTHER -> msetGenericCommand(c, d, cmd.pairs, TRUE)

ListCommand(c, d, cmd) ==
  CASE cmd.name = "PUSH" -> pushGenericCommand(c, d, cmd.key, cmd.values, cmd.where)
    [] cmd.name = "PUSHX" -> pushxGenericCommand(c, d, cmd.key, cmd.refval, cmd.str, cmd.where)
    [] cmd.name = "POP" -> popGenericCommand(c, d, cmd.key, cmd.where)
    [] cmd.name = "LSET" -> lsetCommand(c, d, cmd.key, cmd.n, cmd.str)
    [] cmd.name = "LTRIM" -> ltrimCommand(c, d, cmd.key, cmd.n, cmd.m)
    [] cmd.name = "LREM" -> lremCommand(c, d, cmd.key, cmd.n, cmd.str)
    [] OTHER -> rpoplpushCommand(c, d, cmd.key, cmd.dst)

HashCommand(c, d, cmd) ==
  CASE cmd.name = "HSET" -> hsetCommand(c, d, cmd.key, cmd.field, cmd.str)
    [] cmd.name = "HSETNX" -> hsetnxCommand(c, d, cmd.key, cmd.field, cmd.str)
    [] cmd.name = "HMSET" -> hmsetCommand(c, d, cmd.key, cmd.pairs)
    [] cmd.name = "HINCRBY" -> hincrbyCommand(c, d, cmd.key, cmd.field, cmd.n)
    [] cmd.name = "HINCRBYFLOAT" -> hincrbyfloatCommand(c, d, cmd.key, cmd.field, cmd.n)
    [] OTHER -> hdelCommand(c, d, cmd.key, cmd.values)

SetCommand(c, d, cmd) ==
  CASE cmd.name = "SADD" -> saddCommand(c, d, cmd.key, cmd.values)
    [] cmd.name = "SREM" -> sremCommand(c, d, cmd.key, cmd.values)
    [] cmd.name = "SMOVE" -> smoveCommand(c, d, cmd.key, cmd.dst, cmd.str)
    [] cmd.name = "SPOP" -> spopCommand(c, d, cmd.key, cmd.str)
    [] cmd.name = "SPOPCOUNT" -> spopWithCountCommand(c, d, cmd.key, cmd.n, cmd.popped)
    [] cmd.name = "SINTERSTORE" -> sinterstoreCommand(c, d, cmd.dst, cmd.keys)
    [] OTHER -> sunionDiffGenericCommand(c, d, cmd.dst, cmd.keys, cmd.op)

ZsetCommand(c, d, cmd) ==
  CASE cmd.name = "ZADD" -> zaddGenericCommand(c, d, cmd.key, cmd.pairs, cmd.flag, cmd.incr)
    [] cmd.name = "ZREM" -> zremCommand(c, d, cmd.key, cmd.values)
    [] cmd.name = "ZREMRANGE" -> zremrangeGenericCommand(c, d, cmd.key, cmd.by, cmd.range)
    [] OTHER -> zunionInterGenericCommand(c, d, cmd.dst, cmd.keys, cmd.op, cmd.aggregate)

Strings == {"SET", "SETEX", "GETSET", "SETRANGE", "APPEND", "INCRBY", "DECRBY", "INCRBYFLOAT", "MSET", "MSETNX"}
Lists == {"PUSH", "PUSHX", "POP", "LSET", "LTRIM", "LREM", "RPOPLPUSH"}
Hashes == {"HSET", "HSETNX", "HMSET", "HINCRBY", "HINCRBYFLOAT", "HDEL"}
Sets == {"SADD", "SREM", "SMOVE", "SPOP", "SPOPCOUNT", "SINTERSTORE", "SUNIONDIFFSTORE"}
Zsets == {"ZADD", "ZREM", "ZREMRANGE", "ZUNIONINTERSTORE"}

proc(c, d, cmd) ==
  CASE cmd.name \in Strings -> StringCommand(c, d, cmd)
    [] cmd.name \in Lists -> ListCommand(c, d, cmd)
    [] cmd.name \in Hashes -> HashCommand(c, d, cmd)
    [] cmd.name \in Sets -> SetCommand(c, d, cmd)
    [] cmd.name \in Zsets -> ZsetCommand(c, d, cmd)
    [] OTHER -> KeyCommand(c, d, cmd)

-----------------------------------------------------------------------------
(* Propagation.                                                            *)

Dataset(d) == [EmptyDataset EXCEPT !.val = d.val, !.ex = d.ex]

\* Mutant: what alsoPropagate() collected is dropped.
PropagatedWithoutAlso(cmd, d) ==
  LET rewritten == IF d.argv # <<>> THEN d.argv ELSE <<cmd>>
  IN  d.feed \o (IF d.dirty > 0 /\ ~d.prevent THEN rewritten ELSE <<>>)

\* call(): the commands sent on, in the order in which they are sent.
Propagated(cmd, d) ==
  LET rewritten == IF d.argv # <<>> THEN d.argv ELSE <<cmd>>
  IN  d.feed \o (IF d.dirty > 0 /\ ~d.prevent THEN rewritten ELSE <<>>) \o d.also

PExpireAt(cmd, t) ==
  [name |-> "PEXPIREAT", key |-> cmd.key,
   ttl |-> LET a == expireArguments([now |-> t], cmd) IN a[1] + a[2]]

\* Mutant: the expire is written as the client sent it.
feedVerbatim(cmd, t) == <<cmd>>

\* What the append only file records of a command executed at time t.
feedAppendOnlyFile(cmd, t) ==
  CASE cmd.name \in Expires \ {"PEXPIREAT"} -> <<PExpireAt(cmd, t)>>
    [] cmd.name = "SETEX" ->
         <<[name |-> "SET", key |-> cmd.key, str |-> cmd.str, flag |-> "NONE", ttl |-> 0],
           PExpireAt([cmd EXCEPT !.name = "EXPIRE"], t)>>
    [] OTHER -> <<cmd>>

\* A data set after a sequence of commands executed in one context.
Replay(c, d, cmds) == FoldLeft(LAMBDA e, cmd : Dataset(proc(c, e, cmd)), d, cmds)

SlaveAt(t) == [role |-> "slave", now |-> t]
Loading == [role |-> "loading", now |-> LoadTime]
MasterAt(t) == [role |-> "master", now |-> t]

\* late: some command was propagated without its exact expire.  INCRBYFLOAT
\* goes out as a plain SET, SET with an expire with its relative expire.
LosesExpire(cmd) == cmd.name = "INCRBYFLOAT" \/ (cmd.name = "SET" /\ cmd.ttl > 0)

propagate(cmds) ==
  /\ replica' = Replay(SlaveAt(now + Lag), replica, cmds)
  /\ aof' = Replay(Loading, aof, FlattenSeq([i \in DOMAIN cmds |-> feedAppendOnlyFile(cmds[i], now)]))

-----------------------------------------------------------------------------
(* Snapshots of the data set: the rewritten append only file and the dump  *)
(* file that a full resynchronization sends.                               *)

\* At most ItemsPerCmd items go into one command.
Chunks(s) ==
  [i \in 1..((Len(s) + ItemsPerCmd - 1) \div ItemsPerCmd) |->
     SubSeq(s, (i - 1) * ItemsPerCmd + 1, IF i * ItemsPerCmd < Len(s) THEN i * ItemsPerCmd ELSE Len(s))]

rewriteListObject(k, o) ==
  LET c == Chunks(o.v)
  IN  [i \in DOMAIN c |-> [name |-> "PUSH", key |-> k, values |-> c[i], where |-> "tail"]]

rewriteSetObject(k, o) ==
  LET c == Chunks(SetToSeq(setTypeNextObject(o)))
  IN  [i \in DOMAIN c |-> [name |-> "SADD", key |-> k, values |-> c[i]]]

\* A ziplist is written in order, a skiplist in the order of its dictionary.
rewriteSortedSetObject(k, o) ==
  LET pairs == IF o.enc = "ziplist" THEN o.v ELSE SetToSeq({<<s, o.v.dict[s]>> : s \in DOMAIN o.v.dict})
      c == Chunks(pairs)
  IN  [i \in DOMAIN c |-> [name |-> "ZADD", key |-> k, pairs |-> c[i], flag |-> "NONE", incr |-> FALSE]]

rewriteHashObject(k, o) ==
  LET c == Chunks(SetToSeq(hashTypeNext(o)))
  IN  [i \in DOMAIN c |-> [name |-> "HMSET", key |-> k, pairs |-> c[i]]]

rewriteObject(k, o) ==
  CASE o.type = "string" -> <<[name |-> "SET", key |-> k, str |-> o.v, flag |-> "NONE", ttl |-> 0]>>
    [] o.type = "list" -> rewriteListObject(k, o)
    [] o.type = "set" -> rewriteSetObject(k, o)
    [] o.type = "zset" -> rewriteSortedSetObject(k, o)
    [] OTHER -> rewriteHashObject(k, o)

\* Keys that are dead at time t are left out.
rewriteAppendOnlyFile(d, t) ==
  LET keys == SetToSeq({k \in DOMAIN d.val : ~LogicallyExpired([now |-> t], d, k)})
      Expire(k) == IF k \in DOMAIN d.ex THEN <<[name |-> "PEXPIREAT", key |-> k, ttl |-> d.ex[k]]>> ELSE <<>>
  IN  FlattenSeq([i \in DOMAIN keys |-> rewriteObject(keys[i], d.val[keys[i]]) \o Expire(keys[i])])

\* A string that is the spelling of a number is saved as the number; strtoll
\* stops at a NUL byte, so the spelling is compared as a whole.  (Compressed
\* strings are decompressed to themselves.)
rdbTryIntegerEncoding(s) == IsNumber(s) /\ ll2string(getLongLongFromObject(s)) = s
rdbSaveRawString(s) ==
  IF rdbTryIntegerEncoding(s) THEN [int |-> TRUE, n |-> getLongLongFromObject(s)] ELSE [int |-> FALSE, s |-> s]
rdbGenericLoadStringObject(x) == IF x.int THEN ll2string(x.n) ELSE x.s

rdbSaveObjectType(o) ==
  CASE o.enc = "intset" -> "SET_INTSET"
    [] o.type = "zset" /\ o.enc = "ziplist" -> "ZSET_ZIPLIST"
    [] o.type = "hash" /\ o.enc = "ziplist" -> "HASH_ZIPLIST"
    [] OTHER -> o.type

\* The nodes of a quicklist and the compact encodings are dumped as they are,
\* tables element by element, in the order of the table.
rdbSaveObject(o) ==
  LET Each(S, Op(_)) == SetToSeq({Op(x) : x \in S})
  IN  CASE o.type = "string" -> rdbSaveRawString(o.v)
        [] o.type = "set" /\ o.enc = "hashtable" -> Each(o.v, rdbSaveRawString)
        [] o.type = "hash" /\ o.enc = "hashtable" ->
             Each(DOMAIN o.v, LAMBDA f : <<rdbSaveRawString(f), rdbSaveRawString(o.v[f])>>)
        [] o.type = "zset" /\ o.enc = "skiplist" ->
             Each(DOMAIN o.v.dict, LAMBDA s : <<rdbSaveRawString(s), o.v.dict[s]>>)
        [] OTHER -> o.v

\* Too many members for an intset, or one that is not a number, make a table.
rdbLoadSet(data) ==
  LET Add(o, x) ==
        LET s == rdbGenericLoadStringObject(x)
        IN  CASE o.enc = "intset" /\ IsLong(s) -> [o EXCEPT !.v = @ \cup {string2ll(s)}]
              [] o.enc = "intset" /\ ~IsLong(s) -> [setTypeConvert(o) EXCEPT !.v = @ \cup {s}]
              [] OTHER -> [o EXCEPT !.v = @ \cup {s}]
  IN  FoldLeft(Add, IF Len(data) > SetMaxIntsetEntries THEN createSetObject ELSE createIntsetObject, data)

\* Loaded as a skiplist, since the order in the file is that of a table.
rdbLoadZset(data) ==
  LET Name(p) == rdbGenericLoadStringObject(p[1])
      Add(o, p) == [o EXCEPT !.v = [zsl |-> zslInsert(@.zsl, Name(p), p[2]), dict |-> dictReplace(@.dict, Name(p), p[2])]]
      o == FoldLeft(Add, createZsetObject, data)
      long == \E s \in DOMAIN o.v.dict : ~IsLong(s) /\ Len(s) > ZsetMaxZiplistValue
  IN  IF zsetLength(o) <= ZsetMaxZiplistEntries /\ ~long THEN zsetConvert(o, "ziplist") ELSE o

\* Pairs go to a ziplist up to the first one that is too long.
rdbLoadHash(data) ==
  LET first == IF Len(data) > HashMaxZiplistEntries THEN hashTypeConvert(createHashObject) ELSE createHashObject
      Add(o, p) ==
        LET f == rdbGenericLoadStringObject(p[1])
            s == rdbGenericLoadStringObject(p[2])
            pushed == [o EXCEPT !.v = Append(@, <<f, s>>)]
        IN  IF o.enc = "hashtable" THEN [o EXCEPT !.v = dictReplace(@, f, s)]
            ELSE IF Len(f) > HashMaxZiplistValue \/ Len(s) > HashMaxZiplistValue THEN hashTypeConvert(pushed)
            ELSE pushed
  IN  FoldLeft(Add, first, data)

\* A blob is taken over as it is, and converted if the limits have become
\* smaller since it was saved.
rdbLoadBlob(rdbtype, data) ==
  LET set == createObject("set", "intset", data)
      zset == createObject("zset", "ziplist", data)
      hash == createObject("hash", "ziplist", data)
  IN  CASE rdbtype = "SET_INTSET" ->
             IF setTypeSize(set) > SetMaxIntsetEntries THEN setTypeConvert(set) ELSE set
        [] rdbtype = "ZSET_ZIPLIST" ->
             IF zsetLength(zset) > ZsetMaxZiplistEntries THEN zsetConvert(zset, "skiplist") ELSE zset
        [] OTHER ->
             IF hashTypeLength(hash) > HashMaxZiplistEntries THEN hashTypeConvert(hash) ELSE hash

rdbLoadObject(rdbtype, data) ==
  CASE rdbtype = "string" -> tryObjectEncoding(rdbGenericLoadStringObject(data))
    [] rdbtype = "list" -> createObject("list", "quicklist", data)
    [] rdbtype = "set" -> rdbLoadSet(data)
    [] rdbtype = "zset" -> rdbLoadZset(data)
    [] rdbtype = "hash" -> rdbLoadHash(data)
    [] OTHER -> rdbLoadBlob(rdbtype, data)

\* A dump saved at time t has no dead keys.
rdbSaveKeyValuePairs(d, t) ==
  {[key |-> k, expiretime |-> getExpire(d, k), rdbtype |-> rdbSaveObjectType(d.val[k]), data |-> rdbSaveObject(d.val[k])] :
     k \in {x \in DOMAIN d.val : ~LogicallyExpired([now |-> t], d, x)}}

\* A slave keeps what has died on the way: only its master may expire it.
rdbLoad(c, dump) ==
  LET kept == {e \in dump : ~(c.role # "slave" /\ e.expiretime # -1 /\ e.expiretime < c.now)}
      Of(k) == CHOOSE e \in kept : e.key = k
  IN  [EmptyDataset EXCEPT
        !.val = [k \in {e.key : e \in kept} |-> rdbLoadObject(Of(k).rdbtype, Of(k).data)],
        !.ex = [k \in {e.key : e \in {f \in kept : f.expiretime # -1}} |-> Of(k).expiretime]]

-----------------------------------------------------------------------------
(* What a value is, apart from its encoding.                               *)

Abstract(o) ==
  CASE o.type \in {"string", "list"} -> o.v
    [] o.type = "hash" -> hashTypeNext(o)
    [] o.type = "set" -> setTypeNextObject(o)
    [] OTHER -> {Elements(o)[i] : i \in DOMAIN Elements(o)}

Contents(d) == [k \in DOMAIN d.val |-> <<d.val[k].type, Abstract(d.val[k])>>]

Size(o) == IF o.type \in {"string", "list"} THEN Len(o.v) ELSE Cardinality(Abstract(o))
Bounded(o) ==
  /\ Size(o) <= MaxSize
  /\ o.type = "zset" => \A p \in Abstract(o) : p[2] \in (0 - MaxScore)..MaxScore \cup {Inf, 0 - Inf}
WithinBounds(d) == \A k \in DOMAIN d.val : Bounded(d.val[k])

-----------------------------------------------------------------------------
Init ==
  /\ now = 0 /\ master = EmptyDataset /\ replica = EmptyDataset /\ aof = EmptyDataset
  /\ late = FALSE /\ revived = FALSE /\ repertoire \in DOMAIN Repertoires

\* SPOP may only be given members of the set to pop: the choice is random.
Possible(d, cmd) ==
  LET live == expireIfNeeded(MasterAt(now), d, cmd.key)
      isset == dbExists(live, cmd.key) /\ ~checkType(live, cmd.key, "set")
  IN  CASE cmd.name = "SPOP" -> isset => setTypeIsMember(lookupKey(live, cmd.key), cmd.str)
        [] cmd.name = "SPOPCOUNT" ->
             /\ Cardinality(cmd.popped) = cmd.n
             /\ isset => \/ cmd.n >= setTypeSize(lookupKey(live, cmd.key))
                         \/ \A s \in cmd.popped : setTypeIsMember(lookupKey(live, cmd.key), s)
        [] OTHER -> TRUE

\* A snapshot has left the key out of some copy.
LeftOut(k) == ~dbExists(replica, k) \/ ~dbExists(aof, k)

call(cmd) ==
  /\ Possible(master, cmd)
  /\ \E d \in {proc(MasterAt(now), master, cmd)} :
     /\ WithinBounds(d)
     /\ master' = Dataset(d)
     /\ propagate(Propagated(cmd, d))
     /\ late' = (late \/ (d.dirty > 0 /\ LosesExpire(cmd)))
     /\ revived' = (revived \/ (cmd.name = "PERSIST" /\ d.dirty > 0 /\ LeftOut(cmd.key)))
  /\ UNCHANGED <<repertoire, now>>

\* Keys that the server deletes on its own account: the copies get a DEL for
\* each of them.
DeleteKeys(keys) ==
  /\ master' = Dataset(FoldSet(LAMBDA k, d : dbDelete(d, k), master, keys))
  /\ propagate(FoldSet(LAMBDA k, d : propagateExpire(d, k), EmptyDataset, keys).feed)
  /\ UNCHANGED <<repertoire, now, late, revived>>

activeExpireCycleTryExpire(k) == now > master.ex[k]

\* A cycle samples keys with an expire at random; the dead ones among them go.
activeExpireCycle ==
  \E keys \in SUBSET {k \in DOMAIN master.ex : activeExpireCycleTryExpire(k)} :
    keys # {} /\ DeleteKeys(keys)

\* The keys a policy may evict: all of them, or those with an expire.
Evictable(volatile) == IF volatile THEN DOMAIN master.ex ELSE DOMAIN master.val

\* One round of evictions: the best key of every database that has one.  Which
\* key is best depends on samples and idle times; it can be any.
freeMemoryIfNeeded(volatile) ==
  /\ Evictable(volatile) # {}
  /\ \E keys \in SUBSET Evictable(volatile) :
       /\ \A k \in Evictable(volatile) : \E x \in keys : x[1] = k[1]
       /\ \A x, y \in keys : x[1] = y[1] => x = y
       /\ DeleteKeys(keys)

\* A rewrite takes over: the file is now what rebuilds the data set as it is.
RewriteAof ==
  /\ aof' = Replay(Loading, EmptyDataset, rewriteAppendOnlyFile(master, now))
  /\ UNCHANGED <<repertoire, now, master, replica, late, revived>>

\* The replica lost the link for too long and gets a dump file instead.
FullResync ==
  /\ replica' = rdbLoad(SlaveAt(now + Lag), rdbSaveKeyValuePairs(master, now))
  /\ UNCHANGED <<repertoire, now, master, aof, late, revived>>

\* Time matters only while some key has an expire.
Tick ==
  /\ now < MaxTime /\ DOMAIN master.ex # {}
  /\ now' = now + 1
  /\ UNCHANGED <<repertoire, master, replica, aof, late, revived>>

Next ==
  \/ \E cmd \in Repertoires[repertoire] : call(cmd)
  \/ activeExpireCycle
  \/ \E volatile \in BOOLEAN : freeMemoryIfNeeded(volatile)
  \/ RewriteAof
  \/ FullResync
  \/ Tick

Spec == Init /\ [][Next]_vars

-----------------------------------------------------------------------------
(* Properties.                                                             *)

Copies == <<master, replica, aof>>

TypeOK ==
  /\ now \in 0..MaxTime /\ repertoire \in DOMAIN Repertoires
  /\ \A i \in DOMAIN Copies : DOMAIN Copies[i].ex \subseteq DOMAIN Copies[i].val

\* Statement-wise replication gives the replica and the reloaded file the
\* master's values, whatever was random, rewritten, evicted or expired on the
\* way: SPOP goes out as SREM or DEL, an expired key as a DEL in front of the
\* command that met it, and the receivers never expire anything themselves.
\* A snapshot may come in between, and changes at most the encodings: it can
\* leave a key out, but only a dead one, which no later command can use before
\* it is deleted, except PERSIST, which does not look at the time.
CopiesHaveTheMastersValues ==
  ~revived => \A i \in DOMAIN Copies :
    /\ \A k \in DOMAIN Copies[i].val : dbExists(master, k) /\ Contents(Copies[i])[k] = Contents(master)[k]
    /\ \A k \in DOMAIN master.val : dbExists(Copies[i], k) \/ LogicallyExpired(MasterAt(now), master, k)

\* No copy lets a key die before the master does, and unless one of the two
\* commands that lose it was used, they keep every expire: exactly in the
\* append only file, which stores absolute times, and late by the Lag on the
\* replica.  So a slow link or a long restart never loses data early.
CopiesNeverExpireEarly ==
  ~revived =>
  /\ \A i \in DOMAIN Copies : \A k \in DOMAIN Copies[i].ex :
       k \in DOMAIN master.ex /\ Copies[i].ex[k] >= master.ex[k]
  /\ ~late => \A k \in DOMAIN master.ex :
       /\ dbExists(aof, k) => k \in DOMAIN aof.ex /\ aof.ex[k] = master.ex[k]
       /\ dbExists(replica, k) => k \in DOMAIN replica.ex /\ replica.ex[k] <= master.ex[k] + Lag

\* Every command that removes elements deletes the key with the last one, and
\* none leaves behind the empty object it created before it failed.
NoEmptyValues ==
  \A i \in DOMAIN Copies : \A k \in DOMAIN Copies[i].val :
    Copies[i].val[k].type # "string" => Size(Copies[i].val[k]) > 0

\* The small encodings hold only what they can: no field or element twice in
\* a ziplist, which would make lookups find the first and deletes leave the
\* second, no more entries and no longer strings than configured.
SmallEncodingsAreSound ==
  \A n \in DOMAIN Copies : \A k \in DOMAIN Copies[n].val :
    LET o == Copies[n].val[k] IN
    /\ o.type = "hash" /\ o.enc = "ziplist" =>
         /\ \A i, j \in DOMAIN o.v : o.v[i][1] = o.v[j][1] => i = j
         /\ Len(o.v) <= HashMaxZiplistEntries
    /\ o.type = "set" /\ o.enc = "intset" => Cardinality(o.v) <= SetMaxIntsetEntries
    /\ o.type = "zset" /\ o.enc = "ziplist" =>
         /\ \A i, j \in DOMAIN o.v : o.v[i][1] = o.v[j][1] => i = j
         /\ Len(o.v) <= ZsetMaxZiplistEntries

\* A sorted set is in order in both encodings, and the skiplist and the
\* dictionary of the large one hold the same elements with the same scores:
\* a node whose score the dictionary does not know could never be deleted.
ZsetsAreSortedAndWhole ==
  \A n \in DOMAIN Copies : \A k \in DOMAIN Copies[n].val :
    LET o == Copies[n].val[k] IN
    o.type = "zset" =>
      /\ \A i \in 1..(zsetLength(o) - 1) : Before(Elements(o)[i], Elements(o)[i + 1])
      /\ o.enc = "skiplist" =>
           /\ Len(o.v.zsl) = Cardinality(DOMAIN o.v.dict)
           /\ \A i \in DOMAIN o.v.zsl :
                o.v.zsl[i][1] \in DOMAIN o.v.dict /\ o.v.dict[o.v.zsl[i][1]] = o.v.zsl[i][2]

ScoreRanges == {[min |-> a, max |-> b, minex |-> x, maxex |-> y] :
                  a \in {0 - Inf, 1, 2}, b \in {1, 2, Inf}, x \in BOOLEAN, y \in BOOLEAN}
InScore(p, r) == zslValueGteMin(p[2], r) /\ zslValueLteMax(p[2], r)

\* ZCOUNT subtracts ranks in one encoding and counts in the other, ZRANGEBYSCORE
\* finds an end of the range and walks: both give the elements in the range,
\* for empty, inverted, exclusive and infinite ranges too, forward and reverse.
ScoreRangesAreExact ==
  \A k \in DOMAIN master.val : master.val[k].type = "zset" =>
    LET o == master.val[k] IN
    \A r \in ScoreRanges :
      LET in == SelectSeq(Elements(o), LAMBDA p : InScore(p, r)) IN
      /\ zcountCommand(o, r) = Len(in)
      /\ genericZrangebyscoreCommand(o, r, FALSE, 0, -1) = in
      /\ genericZrangebyscoreCommand(o, r, TRUE, 0, -1) = Reverse(in)
      /\ genericZrangebyscoreCommand(o, r, FALSE, 1, 1) = SubSeq(in, 2, IF Len(in) < 2 THEN 1 ELSE 2)

LexBounds == {MinString, MaxString_} \cup {LexBound(s) : s \in {<<1>>, <<Letter>>}}
LexRanges == {[min |-> a, max |-> b, minex |-> x, maxex |-> y] :
                a \in LexBounds, b \in LexBounds, x \in BOOLEAN, y \in BOOLEAN}
InLex(p, r) == zslLexValueGteMin(p[1], r) /\ zslLexValueLteMax(p[1], r)

\* The same for ZLEXCOUNT and ZRANGEBYLEX on elements of one score.
LexRangesAreExact ==
  \A k \in DOMAIN master.val : master.val[k].type = "zset" =>
    LET o == master.val[k] IN
    (\A i, j \in DOMAIN Elements(o) : Elements(o)[i][2] = Elements(o)[j][2]) =>
    \A r \in LexRanges :
      LET in == SelectSeq(Elements(o), LAMBDA p : InLex(p, r)) IN
      /\ zlexcountCommand(o, r) = Len(in)
      /\ genericZrangebylexCommand(o, r, FALSE, 0, -1) = in
      /\ genericZrangebylexCommand(o, r, TRUE, 0, 1) = SubSeq(Reverse(in), 1, IF in = <<>> THEN 0 ELSE 1)

\* ZRANK and ZRANGE agree with each other in both directions.
RanksAndRangesAgree ==
  \A k \in DOMAIN master.val : master.val[k].type = "zset" =>
    LET o == master.val[k] IN
    \A i \in DOMAIN Elements(o), reverse \in BOOLEAN :
      LET rank == zrankGenericCommand(o, Elements(o)[i][1], reverse)
      IN  zrangeGenericCommand(o, rank, rank, reverse) = <<Elements(o)[i]>>

Indexes == (0 - MaxSize - 1)..(MaxSize + 1)

\* Negative and out of range indexes: LTRIM keeps exactly what LRANGE shows,
\* LINDEX is a range of one, and the same pair of indexes selects the same
\* part of a list for LRANGE as of a string for GETRANGE, except that
\* GETRANGE moves an end in front of the string to its first byte.
IndexesAgree ==
  \A k \in DOMAIN master.val : \A i, j \in Indexes :
    LET o == master.val[k]
        trimmed == ltrimCommand(MasterAt(0), master, k, i, j)
    IN
    /\ o.type = "list" =>
         /\ lrangeCommand(o, i, j) = IF k \in DOMAIN trimmed.val THEN trimmed.val[k].v ELSE <<>>
         /\ lindexCommand(o, i) = lrangeCommand(o, i, i)
    /\ o.type = "string" /\ j >= 0 - Len(o.v) =>
         getrangeCommand(o.v, i, j) = lrangeCommand(createObject("list", "quicklist", o.v), i, j)

\* The keys whose value or expire the command that leads to d changes, or that
\* come or go, apart from those that were dead already and that it deletes as
\* expired.
Modified(d) ==
  LET expired == {d.feed[i].key : i \in DOMAIN d.feed} \ DOMAIN d.val
      Same(k) == /\ dbExists(d, k) /\ dbExists(master, k)
                 /\ Contents(d)[k] = Contents(master)[k] /\ getExpire(d, k) = getExpire(master, k)
  IN  {k \in (DOMAIN master.val \cup DOMAIN d.val) \ expired : ~Same(k)}

\* The keys that two commands change without a word: MOVE, in both databases
\* (db.c:781-834), and PERSIST (db.c:1035-1049).
Silent(cmd) ==
  CASE cmd.name = "MOVE" -> {cmd.key, <<cmd.db, cmd.key[2]>>}
    [] cmd.name = "PERSIST" -> {cmd.key}
    [] OTHER -> {}

\* What signalModifiedKey is for, WATCH: every key whose value or expire a
\* command changes is signalled, by every command but MOVE and PERSIST, which
\* signal nothing (db.c:305-311; see EveryChangeIsSignalled).
ChangesAreSignalled ==
  \A cmd \in Repertoires[repertoire] : Possible(master, cmd) =>
    \A d \in {proc(MasterAt(now), master, cmd)} : Modified(d) \ Silent(cmd) \subseteq d.touched

\* db.c:299, "Every time a key in the database is modified the function
\* signalModifiedKey() is called".
EveryChangeIsSignalled ==
  \A cmd \in Repertoires[repertoire] : Possible(master, cmd) =>
    \A d \in {proc(MasterAt(now), master, cmd)} : Modified(d) \subseteq d.touched

\* Values of every type, in every encoding they go through: none is empty, a
\* compact encoding is used only for what fits in it, and the commands that
\* look at a part of a value (ranks, scores, ranges, indexes) agree.
ValuesAreSound ==
  /\ TypeOK /\ NoEmptyValues /\ SmallEncodingsAreSound /\ ZsetsAreSortedAndWhole
  /\ ScoreRangesAreExact /\ LexRangesAreExact /\ RanksAndRangesAgree /\ IndexesAgree
=============================================================================
