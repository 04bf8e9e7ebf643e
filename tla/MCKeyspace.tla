----------------------------- MODULE MCKeyspace -----------------------------
(***************************************************************************)
(* Instance of Keyspace: two key names in one database and a second        *)
(* database to move keys to; one repertoire of commands for each type.     *)
(***************************************************************************)
EXTENDS Keyspace

KeyA == <<0, "a">>
KeyB == <<0, "b">>
Keys == {KeyA, KeyB}

Zero == <<0>>
One == <<1>>
Word == <<Letter>>
LongWord == <<Letter, Letter>>

Del(k) == [name |-> "DEL", key |-> k]
PExpire(k, t) == [name |-> "PEXPIRE", key |-> k, ttl |-> t]
SetStr(k, s) == [name |-> "SET", key |-> k, str |-> s, flag |-> "NONE", ttl |-> 0]

GenericRepertoire ==
  {[name |-> n, key |-> KeyA] : n \in {"DEL", "EXISTS", "PERSIST", "FLUSHDB", "FLUSHALL"}}
  \cup {[name |-> n, key |-> KeyA, dst |-> KeyB] : n \in {"RENAME", "RENAMENX"}}
  \cup {[name |-> "MOVE", key |-> KeyA, db |-> 1], [name |-> "MOVE", key |-> <<1, "a">>, db |-> 0]}
  \cup {[name |-> n, key |-> KeyA, ttl |-> 1] : n \in Expires} \cup {PExpire(KeyA, 0)}
  \cup {[name |-> "SETEX", key |-> KeyA, str |-> One, ttl |-> 1], SetStr(KeyA, Word)}
  \cup {[name |-> "SET", key |-> KeyA, str |-> Word, flag |-> f, ttl |-> 1] : f \in {"NX", "XX"}}

StringRepertoire ==
  {SetStr(KeyA, s) : s \in {<<>>, One, <<Minus, 2>>, <<0, 1>>, <<1, Nul>>, Word}}
  \cup {[name |-> "GETSET", key |-> KeyA, str |-> One], PExpire(KeyA, 1), Del(KeyA)}
  \cup {[name |-> "SETRANGE", key |-> KeyA, n |-> n, str |-> s] : n \in {-1, 0, 2}, s \in {<<>>, One}}
  \cup {[name |-> "APPEND", key |-> KeyA, str |-> One]}
  \cup {[name |-> c, key |-> KeyA, n |-> n] : c \in {"INCRBY", "DECRBY"}, n \in {1, 2, LLONG_MIN}}
  \cup {[name |-> "INCRBYFLOAT", key |-> KeyA, n |-> 1]}
  \cup {[name |-> c, key |-> KeyA, pairs |-> <<<<KeyA, One>>, <<KeyB, Word>>>>] : c \in {"MSET", "MSETNX"}}

ListRepertoire ==
  {[name |-> "PUSH", key |-> k, values |-> <<s>>, where |-> w] : k \in Keys, s \in {One, Word}, w \in {"head", "tail"}}
  \cup {[name |-> "PUSHX", key |-> KeyA, refval |-> r, str |-> One, where |-> w] :
          r \in {<<>>, <<Word>>}, w \in {"head", "tail"}}
  \cup {[name |-> "POP", key |-> k, where |-> w] : k \in Keys, w \in {"head", "tail"}}
  \cup {[name |-> "LSET", key |-> KeyA, n |-> n, str |-> Word] : n \in {-1, 1}}
  \cup {[name |-> "LTRIM", key |-> KeyA, n |-> 1, m |-> -1]}
  \cup {[name |-> "LREM", key |-> KeyA, n |-> n, str |-> One] : n \in {-1, 0, 1}}
  \cup {[name |-> "RPOPLPUSH", key |-> k, dst |-> l] : k \in Keys, l \in Keys}
  \cup {PExpire(KeyA, 1), SetStr(KeyB, Word)}

HashRepertoire ==
  {[name |-> c, key |-> KeyA, field |-> One, str |-> s] : c \in {"HSET", "HSETNX"}, s \in {One, LongWord}}
  \cup {[name |-> "HSET", key |-> KeyA, field |-> Word, str |-> LongWord]}
  \cup {[name |-> "HMSET", key |-> KeyA, pairs |-> <<<<One, Zero>>, <<Zero, One>>, <<One, One>>>>]}
  \cup {[name |-> c, key |-> KeyA, field |-> One, n |-> n] : c \in {"HINCRBY", "HINCRBYFLOAT"}, n \in {1, -1}}
  \cup {[name |-> "HDEL", key |-> KeyA, values |-> v] : v \in {<<One>>, <<Word, One>>, <<Zero>>}}
  \cup {PExpire(KeyA, 1), SetStr(KeyA, Word), Del(KeyA)}

SetRepertoire ==
  {[name |-> "SADD", key |-> k, values |-> v] : k \in Keys, v \in {<<One>>, <<Zero, One>>, <<Word>>}}
  \cup {[name |-> "SREM", key |-> KeyA, values |-> v] : v \in {<<One>>, <<One, Word, Zero>>}}
  \cup {[name |-> "SMOVE", key |-> k, dst |-> KeyB, str |-> One] : k \in Keys}
  \cup {[name |-> "SPOP", key |-> KeyA, str |-> s] : s \in {Zero, One, Word}}
  \cup {[name |-> "SPOPCOUNT", key |-> KeyA, n |-> Cardinality(p), popped |-> p] : p \in SUBSET {Zero, One, Word}}
  \cup {[name |-> "SINTERSTORE", key |-> KeyA, dst |-> l, keys |-> <<KeyA, KeyB>>] : l \in Keys}
  \cup {[name |-> "SUNIONDIFFSTORE", key |-> KeyA, dst |-> KeyB, keys |-> <<KeyA, KeyB>>, op |-> op] : op \in {"union", "diff"}}
  \cup {PExpire(KeyA, 1), SetStr(KeyA, Word)}

AnyScores == [min |-> 1, max |-> 2, minex |-> TRUE, maxex |-> FALSE]

ZsetRepertoire ==
  {[name |-> "ZADD", key |-> KeyA, pairs |-> <<p>>, flag |-> "NONE", incr |-> FALSE] :
     p \in {<<Zero, 1>>, <<One, 1>>, <<One, 2>>, <<Word, 1>>}}
  \cup {[name |-> "ZADD", key |-> KeyA, pairs |-> <<<<One, n>>>>, flag |-> f, incr |-> i] :
          n \in {Inf, 0 - Inf}, f \in {"NX", "XX"}, i \in BOOLEAN}
  \cup {[name |-> "ZADD", key |-> KeyA, pairs |-> <<<<One, 1>>, <<Word, 0>>, <<One, 2>>>>, flag |-> "NONE", incr |-> FALSE]}
  \cup {[name |-> "ZREM", key |-> KeyA, values |-> v] : v \in {<<One>>, <<Word, One, Zero>>}}
  \cup {[name |-> "ZREMRANGE", key |-> KeyA, by |-> "score", range |-> AnyScores @@ [start |-> 0, end |-> 0]],
         [name |-> "ZREMRANGE", key |-> KeyA, by |-> "rank", range |-> [start |-> -1, end |-> 5]],
         [name |-> "ZREMRANGE", key |-> KeyA, by |-> "lex",
          range |-> [min |-> MinString, max |-> LexBound(One), minex |-> FALSE, maxex |-> FALSE, start |-> 0, end |-> 0]]}
  \cup {[name |-> "ZUNIONINTERSTORE", key |-> KeyA, dst |-> KeyB, keys |-> <<KeyA, KeyB>>, op |-> op, aggregate |-> g] :
          op \in {"union", "inter"}, g \in {"sum", "max"}}
  \cup {[name |-> "SADD", key |-> KeyB, values |-> <<One, Word>>], SetStr(KeyB, Word), Del(KeyB)}

MCRepertoires ==
  [generic |-> GenericRepertoire, string |-> StringRepertoire, list |-> ListRepertoire,
   hash |-> HashRepertoire, set |-> SetRepertoire, zset |-> ZsetRepertoire]
=============================================================================
