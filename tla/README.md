# plenario-stream in TLA+

The repository moves sensor observations of the Array of Things from an AWS
Kinesis stream into Redshift and on to web clients, and keeps the last hour of
each node in Redis, whose server it carries in source
(`redis_pull/redis-stable`, version 3.2) and runs beside its own code. This
directory holds TLA+ models of the parts of both that carry their logic, TLC
configurations that check them on small instances, and TLAPS proofs about the
pipeline and about Redis Sentinel.

Paths below are relative to `src/`. `lib/kcl` is `consumer/consumer_app/lib/kcl`;
names of C files are those in `redis_pull/redis-stable/src`.

## 1. The system

```
 producers -> Kinesis -> MultiLangDaemon --stdin/stdout--> KCLManager
                         (Java, external)                  | calls
                                                           v
   Postgres metadata <---- mapper.js <---- record processor (sample_kcl_app.js)
   Redshift          <----    |
   apiary (reports)  <----    v internal_data
                          socket server (index.js) ---> web clients
                              |                             ^
                              v update_node                 | last hour, last day
                          redis_pull.js ----> Redis      summarizer
                                              |- data structures, commands
                                              |- clients, replication, AOF and RDB
                                              |- Sentinel, Cluster
```

| Component | State | Operations | Talks to | What makes it correct |
|---|---|---|---|---|
| Kinesis client, `lib/kcl` | machine state, pending checkpoint callback, completion callbacks | line handlers, `checkpoint`, completion, write errors, end of input | daemon over two pipes, record processor by callbacks | the child follows the wire protocol whatever the record processor does; a checkpoint answer reaches the call it is for; no record is skipped |
| MultiLangDaemon (external) | request in progress, lease table | requests, checkpoint answers, restart | child | as `lib/kcl` uses it |
| Record processor, `consumer/consumer_app/consumer/sample_kcl_app.js` | pools, sensor map, blacklist | `initialize`, `processRecords`, `shutdown` | manager, mapper | one completion per call, after its checkpoint; what is checkpointed is stored |
| Mapper, `consumer/consumer_app/mapper.js` | none of its own; changes map and blacklist | `update_map`, `parse_insert_emit`, `redshift_insert`, `format_obs`, `invalid_keys`, `send_error`, `send_correct` | Postgres, Redshift, apiary, socket server | no observation gets lost between two callbacks, metadata is not older than the observation, one report per problem, no client leaks |
| Socket server, `socketServer/elastic_beanstalk_app/index.js` | `rooms`, `socket_count`, socket.io membership | connect, validation answer, disconnect, `internal_data` | query API, clients, consumer | clients get what they asked for and nothing else; the counts match the membership |
| Last-hour cache, `redis_pull/redis_pull.js` | a list per node in Redis | `update_node` | Redis | no update lost, nothing older than an hour |
| Summarizer, `summarizer/materialize.js` | the last day of every node | `update_node_summary` | database | window exact at its boundary, average that of the window |
| Redis data structures, `dict.c`, `ziplist.c`, `intset.c`, `quicklist.c`, `t_zset.c`, `adlist.c`, `bitops.c` | tables, blocks of memory, chains | insert, remove, search, iterate, scan, rehash, split, merge, compress | the commands | each is the set, list or map it stands for, also while it is being reorganised |
| Redis keyspace, `db.c`, `object.c`, `t_*.c` | keys, types, encodings, expires | the commands that change keys | replication, AOF, WATCH | copies get the same values; no key dies early on a copy; every change is signalled |
| Redis clients, `networking.c`, `multi.c`, `blocked.c`, `pubsub.c`, `t_list.c` | queues, watched keys, lists of clients | read, queue, EXEC, block, serve, pause, kill, publish | the event loop | optimistic locking is sound; nobody waits for data that is there |
| Redis replication, `replication.c` | backlog, offsets, cached master | full and partial resynchronisation, WAIT, SLAVEOF | other servers | the stream completes the slave's data |
| Redis persistence, `aof.c`, `rdb.c`, `bio.c` | buffers, files, children | write, fsync, rewrite, save, load | disk, child processes | what is on disk is what clients were answered |
| Redis Sentinel, `sentinel.c` | configuration, epochs, votes, links, scripts | timer, hello, votes, failover | Redis instances, other sentinels | one leader, and one configuration, per epoch |
| Redis Cluster, `cluster.c` | slots, epochs, views of other nodes | gossip, election, takeover, migration | other nodes, clients, redis-trib | one owner of a slot once things are quiet; no key lost in a move |
| Bootstrap, click stream sample, DynamoDB interfacer, producers, logging, copies of the client library, Redis tools, Lua, geo, HyperLogLog | - | - | - | not modelled, see section 6 |

What is hard here: record processor callbacks are asynchronous and may come late
or twice; two processes die independently; a pipe can be full or broken; an
observation is spread over many turns of the event loop and is overtaken by
others; a web client can go away while its validation request is open. In Redis
a single thread runs the commands, but almost nothing ends in the call that
began it: a table is rehashed bucket by bucket under its users, a scan is
continued on a table of another size, a blocked client is served by another's
transaction, a file is rewritten by a child while the parent goes on writing, a
slave continues a stream it left, a vote is cast and forgotten in a crash, a
slot's keys are in two places. `PROJECT.json` lists these as hazards, at the
lines where they bite, each with the properties that would catch it.

## 2. Modules and how they correspond to the code

| Module | Models | Abstraction |
|---|---|---|
| `KCLStateMachine` | the machina FSM, `lib/kcl/kcl_manager.js:37-149` | inputs that only transition |
| `ShardProgress` | abstract specification: what the client promises for one shard (`checkpointer.js:21-23`) | two variables |
| `KCL`, `KCLProofs` | `kcl_manager.js`, `checkpointer.js`, `io_handler.js`, `action_handler.js`, an arbitrary record processor, the daemon; theorems about them | one shard, records are numbers |
| `SampleKclApp`, `SampleKclAppProofs` | `KCL` with the repository's own record processor in it (extends `KCL`) | order of calls only |
| `Consumer`, `ConsumerProofs`, `MCConsumer` | `processRecords` and `mapper.js` | an observation is its sensor and its set of keys |
| `SocketServer`, `SocketServerProofs` | `index.js` | a filter list is a set of names |
| `LastHourCache`, `LastHourCacheProofs` | `redis_pull.js` | an observation is its update and its time |
| `Summarizer` | `materialize.js` | an average is a pair of sum and count |
| `MCSocketServer` | the three above, one at a time | |
| `Dict` | `dict.c`: two tables, incremental rehashing, safe iterator, `dictScan` | a key is its hash |
| `Ziplist`, `Intset` | `ziplist.c`, `intset.c` | values by their length; widths scaled |
| `Quicklist`, `ListSpec` | `quicklist.c`; the list it implements | a node is a sequence of values |
| `Skiplist` | the skiplist of `t_zset.c` with its levels and spans | score and object are one number |
| `Adlist` | `adlist.c` with an iterator | cells |
| `Bitops` | `bitops.c`: SETBIT, GETBIT, BITFIELD, BITPOS, BITCOUNT, BITOP | bytes and integers with few bits |
| `MCStructures` | the structures, one at a time | |
| `RedisDb`, `RedisString`, `RedisList`, `RedisHash`, `RedisSet`, `RedisZset` | `db.c`, `object.c`, `t_*.c`: a command is an operator from a database to a database | a string is a sequence of digits, a sign, letters and NUL |
| `Keyspace`, `MCKeyspace` | `call()`, `propagate()`, the expire cycle and eviction of `server.c`, translation and rewrite in `aof.c`, objects in `rdb.c`, and the databases of a master, a slave and a loaded file | one command at a time |
| `Replication` | `replication.c` and what it uses of `rdb.c`, `networking.c` | a command is one unit of the stream |
| `Persistence` | `aof.c`, `rdb.c`, `bio.c`, the cron and SHUTDOWN of `server.c` | a file is a sequence of commands |
| `Clients` | `networking.c`, `multi.c`, `blocked.c`, `pubsub.c`, blocking commands of `t_list.c`, `processCommand` | scripts of commands on two keys |
| `MCServer` | the three above, one at a time | |
| `Election`, `ElectionProofs`, `Sentinel` | votes and theorems about them, and the whole of a failover (`sentinel.c`) | time is a free choice |
| `SentinelScripts`, `SentinelLinks` | the script queue and the shared links of `sentinel.c` | |
| `MCSentinel`, `SentinelProofs` | the four above, one at a time; theorems about the last three | |
| `Cluster`, `Resharding` | `cluster.c`: configuration; slots that move (with redis-trib's `move_slot`) | a packet is a record |
| `MCCluster` | the two above, one at a time | |

The MC modules that hold several components choose one of them in the initial
state; only that one takes steps. Where the same component is looked at in
several situations, the situation is a record (a *setup*) that is chosen in the
initial state and never changes; the modules explain its fields, and the MC
modules give the setups and say what each is for. Operators marked *Mutant* are
plausible bugs of the operator after them and are used by no specification.

### KCL

`child` is the `KCLManager` with its `Checkpointer`: machine state, the number the
pending callback was registered with, and whether a write has reported an error.
The manager's functions are transformers of that record (`HandleStateInput` is
`_handleStateInput`, `SendAction` is `_sendAction` with `writeLine`); the actions
are the line handlers (`OnRecordProcessorAction`, `OnCheckpointAction`,
`OnActionEnd`), the late write callback (`OnWriteError`), and the calls a record
processor can make (`Complete`, `Checkpoint`).

* `alive = FALSE` stands for a child that reacts to nothing more: `_cleanup()`
  has removed the listeners, an uncaught exception ended it, or it was killed.
* `write()` returning false is treated by the code as an error although the line
  is queued; both fates of the line are modelled. An error reported after
  `write()` returned is `OnWriteError`.
* The record processor is arbitrary: it may call any completion callback it was
  ever given, any number of times, and checkpoint at any number at any time
  after it first saw the checkpointer.
* A processor that reacts synchronously takes its step right after the line
  handler. Nothing else the manager does comes between in the code; the model
  allows more.
* The daemon is external. It sends one request and reads until its status
  arrives, refuses checkpoints outside `checkpointed .. delivered`, may answer
  any checkpoint with an error, and sends well-formed lines only. (The code logs
  a line without an action, throws on one that is not JSON, and for an unknown
  action calls `_reportError`, which does not exist.) One worker holds the shard at a
  time; `Restart` is the next one.
* Deadlock is checked: the only state in which nothing happens is `Stop`.

### SampleKclApp

`todo` is what the processor has to do about the call in progress. `Reaction`
gives it for each call: `processRecords` checkpoints at the last record, unless
the batch was empty; `shutdown` checkpoints on `TERMINATE` only; the checkpoint
callback ignores its error argument. Everything else is `KCL`, so that good
behaviour is something the application is shown to have, not something it is
given.

### Consumer

Each observation has an `update_map` call (`pull`: waiting for a client,
querying, answered) and a `redshift_insert` call (`insert`: waiting for a
client, INSERTs sent). The actions are the callbacks. The sensor's metadata row
maps keys to features; an INSERT is *sound* if the observation has all keys of
its feature, since otherwise the text contains `undefined`.

* `Returns` is what `parse_insert_emit` returns to `processRecords`. The
  `return true` statements belong to a promise callback, so it is `false` or
  `undefined`.
* `SendCorrect` keeps `splice(indexOf(s), 1)` as it is, -1 included.
* A failing connection or metadata query makes the callback dereference null or
  undefined: an uncaught exception, `Crash`. `Restart` resumes at the checkpoint.
* Each post to apiary has a request of its own: `posts` are those on their way,
  which arrive in any order or fail; the blacklist changes when they are sent.
  `said` is the last post about a sensor, `shown` what apiary shows, `marred` the
  sensors of which a post failed or was overtaken, and `dropped` those that the
  splice at -1 took from the list.
* `done()` is called once per INSERT. What the pool does with the later calls for
  one client is not the repository's code, so it is free: they count as nothing
  or as further clients (`repeated`). A row without keys makes no INSERT and no
  `done()` (`leaked`).
* The Redshift client goes back to the pool as soon as the INSERTs are sent,
  since `done()` is not in their callbacks.

### SocketServer

`members` is socket.io's room membership (external), `rooms` and
`socket_count` the server's own counts. Rooms are named by the parsed arguments.
Lists come plain, bracketed (`replace` returns a new string which the code drops,
so the brackets stay in the names; the lists have at most two names, so each name
carries a bracket), as something that cannot be split, or not at all. A query's
`sensor_network` decides the validation request and the room's name; the server
does not filter by it, and an observation carries none (`AsksFor`).
`disconnect()` runs the disconnect handler of a connected socket at once. `left`
holds the clients whose disconnect handler ran before they joined.

### LastHourCache and Summarizer

`update_node` has a connection of its own for each call, so GET and SET of two
calls interleave freely (`CacheGet`, `CacheGotValue`, `CacheSet`). An error of GET
is not looked at: the value is undefined and the list is overwritten with the new
observation alone. An error of SET is not looked at either, and the list in Redis
stays. The pruning loop throws when it has emptied the list, which ends the
process, and Redis keeps the list. The summarizer's update is one synchronous function; its loop
runs from the last index down.

### Redis: data structures and keyspace

An action is one call of the structure's interface. What the code does by
pointer the model does by position, and where the code could read memory it does
not own, a ghost says so (`damaged`, `unread`, `wrong`). Overflow is modelled:
integers have `INT_BITS` bits, an intset element that is stored too narrow keeps
its low bits, an undefined shift has the results of `FullShift`. `Quicklist`
implements `ListSpec` (`Contract == INSTANCE ListSpec WITH list <- Items(ql),
cmd <- qlCmd`).

The commands are operators that take and return a database with its dirty
count, its propagated commands and its touched keys, in the order of the code,
so that `Keyspace` can run the same operator on the master, on the slave (later,
with the slave's role) and on the loaded file. `RewriteAof` replaces the file by
the commands that rebuild the database, at most `ItemsPerCmd` items to a command;
`FullResync` gives the slave the objects of an RDB file, whose encodings
`rdbLoadBlob` chooses again; both leave out keys that are dead. A copy is
therefore compared by its values, not its encodings. `activeExpireCycle` and
`freeMemoryIfNeeded` delete any key that is dead, or that the policy allows, and
send the DEL; which one they sample is a free choice.

### Redis: server

`Replication` has one record per server and one per connection, with the bytes
that are in buffers and on the way; offsets count units. A slave whose PSYNC is
answered with an error sends SYNC on the same connection and keeps the run ID it
had, with an offset of -1; a BGSAVE for slaves may fail to start, and a transfer
to load. Histories are ghosts: each write belongs to a line of writes, and a slave
is *misled* (`Misled`) when a master continues it although it does not have that
line's writes. `Persistence` has the server, the disk with what is synced of each
file, and the two children.
`Clients` runs a read of a client's socket to its end, nested calls included
(serving blocked clients after the command or the whole transaction), then the
event loop's `beforeSleep` as an action of its own.

### Redis: Sentinel and Cluster

Each handler (timer, reply, message) is one action. Whether a time has passed is
a free choice, except where the code's own constants order two of them: packets
travel faster than the cluster's timeouts run out (`prompt`), and a sentinel's
delay before another election is longer than the election it waits for
(`Punctual`). Of the operators' commands `Cluster` has FAILOVER FORCE and TAKEOVER,
BUMPEPOCH, REPLICATE and SETSLOT; section 6 says why not the others. In
`Resharding` an answer of the target remembers which command of which MIGRATE it
is for, so that one the source takes for another's is seen (`misread`), and a TTL
whether it is the key's own or was *lent* by an earlier key. What is saved on disk is separate from what is in memory, and a
crash keeps only the former. Messages may be lost, delayed and reordered as far
as the connections allow it.

## 3. Runs

| Run | Checks | Shows |
|---|---|---|
| `kcl_any_processor` | `WireProtocol`, `AnswerIsForThisCall`, `NoSkippedRecord`, `ShardProgressSpec` | no record processor, however it misuses its callbacks, and no failure makes the child break the protocol or the shard lose its place |
| `sample_app` | `CheckpointKeepsUp`, `AppHonoursContract`, `NobodyWaitsForEver` (`EveryRequestAnswered`, `NoOrphan`) | the consumer's processor never drives the machine into `Error` and its checkpoints keep up; neither process waits for the other for ever |
| `consumer` | `MemoryIsSound` (`TypeOK`, `BlacklistHasNoDuplicates`, `ListIsWhatWasSaid`, `SuppressedIsShown`, `RedshiftPoolIsExact`), `MetadataIsFresh`, `EveryRecordAccountedFor`, `EveryRecordSettles` | overtaking callbacks and posts, changing metadata, every failure and a crash: the blacklist, together with what the splice dropped, is exactly the errors that were not taken back; apiary shows them unless a post went astray; an observation waits for ever only when rows without keys took every Redshift client |
| `web` | `CountsAreSound` (`TypeOK`, `TotalMissesTheEarly`, `RoomsCountMembers`), `OnlyWhatWasAskedFor`, `PlainMembersServed`, `WindowsAreExact` (`LossHasACause`, `SummaryIsTheDay`) | the total is the connected members less the clients that left before they joined, and each room errs by at most its own; an observation of the last hour is lost only to an overlapping update or to one whose GET failed; the day's window is exact |
| `structures` | `DictIsSound`, `ScanReturnsWhatStayed`, `ScanAdvances`, `CompactEncodingsAreSound` (ziplist walks both ways, its fields fit; an intset is its set), `LinkedStructuresAreSound` (quicklist counts and raw ends; skiplist ranks and levels; a linked list is one chain and a walk survives removals), `QuicklistIsAList`, `BitCommandsAreExact` | every structure under every sequence of operations |
| `keyspace` | `ValuesAreSound` (no empty values, encodings, sorted sets, ranges and ranks), `CopiesHaveTheMastersValues`, `CopiesNeverExpireEarly`, `ChangesAreSignalled` (by every command but MOVE and PERSIST) | every command that changes keys, on every type and encoding, with expiry, eviction, rewritten files and full resynchronizations |
| `server` | `StreamCompletesSlave`, `WaitTellsTheTruth`, `AofIsTheDataset`, `AnsweredIsKept` (`AnsweredIsDurable`, `ShutdownKeepsAnswered`, `DirtyMeansUnsaved`), `NobodyIsForgotten` (`NobodyWaitsForData`, `InputIsProcessed`, `ListsMirrorClients`), `TransactionsAreSound` (`ExecMeansUnchanged`, `PropagationRebuilds`) | replication, persistence and the clients of a server |
| `sentinel` | `ElectionIsSafe` (`OneVotePerEpoch`, `OneFreshLeaderPerEpoch`), `ConfigurationsAgree` (`SentinelTypeOK`, `SameEpochSameMaster`), `ConfigNeverGetsOlder`, `AnswersFindTheirOwner` | votes survive restarts; two configurations of one epoch are the same in runs without an administrator's RESET or FAILOVER, a takeover of a newer epoch in the middle of a failover (`crossed`) or an election in an outdated epoch; an older configuration comes back only for the same master, but for sentinels in `crossed`; replies and scripts find their record |
| `cluster` | `ElectionsAreSound` (`OneWinnerPerEpoch`, `WonByMajority`), `ConfigurationsSettle` (`EpochsAreCovered`, `QuietMeansAgreed`), `FailIsAgreed`, `MovingKeysAreSafe` (`NoKeyIsLost`, `MisreadAfterLateTimeout`, `ReadsAreCurrent`) | elections, collisions, partitions and crashes; one winner per epoch unless a voter forgot its vote in a crash; a slot that moves under its clients loses no key but those whose deletion another's answer caused, after a timeout between answers |
| `keyspace_signals` | `EveryChangeIsSignalled` violated | section 5, 19 |
| `consumer_checkpoint_crash` | `CheckpointedIsStored` violated | section 5, 3 |
| `structures_scan` | `ScanReturnsAll` violated | section 5, 9 |

A property with parts is their conjunction; the comment before each part says
what it is about. Each property of a passing run has one or more mutants in
`PROJECT.json` under which TLC finds it violated.

### Bounds

* `KCL`: three records and two replacements of the worker. Three records allow
  two batches of which one has two records, hence checkpoints inside, at the end
  of and beyond a batch, and `null`; two replacements allow a failure after a
  recovery. The theorems of section 4 hold for every value. In `SampleKclApp`,
  which is checked for liveness, two records and one replacement.
* `Consumer`: two records are what overtaking needs; one metadata change, one
  crash, two Postgres clients, and one of Redshift, the smallest pool that can be
  exhausted. Records may be observations with few, all or unknown keys, lack the
  data object, or not be JSON. Four worlds divide this: databases that fail and a
  crash (`failures`), every kind of record with changing metadata (`changes`),
  posts that arrive, fail or overtake each other (`posts`; elsewhere they are slow),
  rows without keys (`leaks`).
* `web`: three clients (two in one room and one elsewhere, or one that leaves
  early and two that stay), one query per shape the parser distinguishes;
  symmetry over the clients, which are interchangeable. Three updates of two
  nodes with an hour of two ticks and a clock up to three, so that entries stay,
  grow old at the boundary and are pruned; a day of one tick, four events.
* Structures: tables of 1 to 4 buckets and cursors of three bits, so that a scan
  can meet a table twice doubled or cut to a quarter; ziplist entries whose
  lengths lie on both sides of the limit for a larger field, up to five of them,
  so that the change runs along the list; quicklists of five items, two to a
  node, at compression depths 0 to 2; skiplists of four elements and three
  levels; bytes of two bits, longs of two bytes, integers of four bits. BITFIELD
  commands of one operation on every field and of two, the later one reaching
  farther or less far than the first.
* `Keyspace`: two names and two databases, values up to three elements, limits
  of the compact encodings at one or two, two items to a command of a rewritten
  file, a largest integer of 2, a clock up to
  two, a slave that lags by one. Each type has its repertoire of commands, which
  mix with a few of other types.
* Replication: two servers or three in a star or a chain, two or three writes,
  two or three connections, a backlog of two units, so that it wraps; among the
  setups a master that restarts while two slaves reconnect (they ask with another
  run ID), two slaves and two clients in WAIT, a pause with a restart and a WAIT,
  and SLAVEOF of a master with a slave. The setups `FallsBack` and `Foreign` of
  `MCServer` take longer and are not in the run (section 5, 20). Persistence: up
  to four writes, two rewrites, three saves, two crashes or SHUTDOWNs, under each
  policy. Clients: three, that send five or six scripts in all.
* Sentinel: three sentinels with a quorum of one and two epochs, one of which
  restarts after it has voted and one of which never starts an election by
  itself; for whole failovers three instances
  and four setups: `Beginning` (two sentinels, one failover and one fault or
  command), `Lossy` (the same with answers that are lost or too old, and a
  restart), and the second failover of three sentinels when the leader of the
  first has not ended it (`Second`) or one has not heard of it and may restart
  (`Behind`). Two failovers are what it takes for an address to be the master
  again and for a configuration to arrive that is newer and names no other
  address; five scripts in a queue of three; two masters that share two
  sentinels.
* Cluster: seven setups (`Commanded`, `Rivals`, `Crashing`, `Failing`,
  `Returning`, `Contested`, `Crowded`) of three to five nodes with one or two new
  epochs and at most two packets on their way besides those that arrive at once.
  In `Contested` two slaves ask two voters and the lifetime of a vote may pass
  while requests are late, in `Crowded` three voters of which one may crash; to
  keep them small, PONGs of the voters (of all nodes) are lost there. Two moving
  keys, which are interchangeable (symmetry), one write and one mishap: a timeout
  before or between answers or a reset connection, keys with and without TTL
  together, with and without redis-trib's fix option.
* `CHECK_DEADLOCK FALSE` in all runs but the first two: they come to rest when the
  records, clients, writes or faults of the instance are used up. In `KCL` and
  `SampleKclApp` the only state in which nothing happens is `Stop`.

### Fairness

Weak fairness of: callbacks that are due (the event loop runs them), lines being
read, queries being answered by databases, pools handing out free clients, and
the daemon's answers to checkpoints. No fairness for new records, shutdown,
failures, restarts or metadata changes. `EveryRequestAnswered` needs no timeout,
because a child that cannot answer ends, and the daemon sees its output close.
The Redis runs check safety only; `ScanAdvances`, which bounds a scan, stands for
its termination.

## 4. Proofs

Seven modules prove theorems about the module they are named after
(`SentinelProofs` about the specification of `MCSentinel`). Each theorem
holds for every value of the constants that satisfies the named assumptions of
that module; TLC evaluates those assumptions in the runs. In each of them none of
the checked properties is inductive; the theorems follow from an inductive
invariant, which is the first theorem of each module but the last.

| Module | Theorems | Properties of runs they state |
|---|---|---|
| `KCLProofs` | `ConversationInvariant`, `TypeCorrect`, `WireProtocolHolds`, `CallbackMatchesStateHolds`, `AnswerIsForThisCallHolds`, `NoRecordIsSkipped`, `ImplementsShardProgress` | `WireProtocol`, `AnswerIsForThisCall`, `NoSkippedRecord`, `ShardProgressSpec` |
| `SampleKclAppProofs` | `AppInvariant`, `AppIsARecordProcessor`, `AppKeepsContract`, `AppCheckpointsKeepUp` | `AppHonoursContract`, `CheckpointKeepsUp` |
| `ConsumerProofs` | `ConsumerInvariant`, `ConsumerMemory`, `ConsumerMetadata`, `ConsumerAccounts` | `MemoryIsSound`, `MetadataIsFresh`, `EveryRecordAccountedFor` |
| `SocketServerProofs` | `SocketInvariant`, `SocketsGetOnlyWhatTheyAsked`, `PlainMembersAreServed`, `CountsAreAlwaysSound` | `OnlyWhatWasAskedFor`, `PlainMembersServed`, `CountsAreSound` |
| `LastHourCacheProofs` | `CacheInvariant`, `OnlyOverlapOrErrorLoses` | a part of `WindowsAreExact` |
| `ElectionProofs` | `ElectionInvariant`, `ElectionSafety` | `ElectionIsSafe` |
| `SentinelProofs` | `AnswersAlwaysFindTheirOwner`, `ConfigsNeverGetOlder`, `ConfigurationsAlwaysAgree` | `AnswersFindTheirOwner`, `ConfigNeverGetsOlder`, `ConfigurationsAgree` |

**KCL**, for every `LastRecord`, `MaxRestarts` and `Faults`. That a checkpoint
skips nothing depends on when a checkpoint can be asked for; that depends on the
machine's state; and that the machine's state fits what the daemon is doing
depends on the one line under way. `Conversation == TypeOK /\ TakingTurns /\
HandedOver` says this. `TakingTurns` lists the six turns of a request (none,
sent, being worked on, status sent, checkpoint sent, answer sent), each with the
lines under way and the state a living child must be in. A child that is not
alive is not constrained: it writes nothing more. `HandedOver` says that
delivered records are handed over except those of a request not read yet, a turn
in which the machine accepts no checkpoint. The proof has one lemma per action;
the ones for the record processor's actions split on the turn, and the argument
is the same throughout: in a turn that is not its own, the machine rejects the
input, the child dies and writes nothing. `ImplementsShardProgress` maps every
step to a step of `ShardProgress` or a stutter.

**SampleKclApp**, under the assumptions of `KCL`. `AppIsARecordProcessor` is the
refinement `AppSpec => Spec`: each step of the application is one that the
arbitrary record processor of `KCL` may take, so everything proved of that one
holds of it. `AppInv == Conversation /\ AppContract` adds, for each thing the
application is about to do (complete, checkpoint, await an answer), the state of
the machine in which it does so. The machine therefore never meets an input it
rejects, which an arbitrary processor can make happen.

**Consumer**, for any number of records, sensors, changes, crashes and clients in
the pools and every set of failures; `ContentsAssumption` says that a record that
parses has a known sensor. The invariant has the
types; that every client of the Postgres pool is free or held by one pull
(`PoolIsWhole`), and that the Redshift pool lacks what was leaked and has too much
by repeated `done()` at most (`RedshiftPoolIsExact`); that the blacklist has no
sensor twice, and that the list and the sensors spliced off it by mistake are
together exactly those whose error was not taken back, while the last post about
a sensor, or what apiary shows when none is under way, is what was said of it
last unless a post failed or was overtaken (`ReportsOK`); that nothing is under way for a record that was not given to the
process or does not parse, nor in a process that is gone
(`NothingElseUnderWay`); that a record that waits for Postgres has no INSERT yet
(`OneThingAtATime`); and that what Postgres answered is at least as recent as
the record it is for, as is what is inserted (`AnswersAreFresh`,
`InsertsAreFresh`). The types say more than types should:
`map`, the record processor's own, stays the empty one it started with, because
`parse_insert_emit` returns before it could tell its caller to refresh it. Without the
last parts neither the freshness of what the mapper uses nor the account of each
record is preserved when callbacks overtake each other.

**SocketServer**, for every set of clients, queries and observations.
`QueriesAssumption` describes what a query string parses to. Besides the
properties themselves the invariant says that every client that is connected,
being validated or a member has a query that parses, that one without a query
has received nothing and is owed nothing (`KnownSockets`), that a client under
validation that is gone is among those that left before they joined, and nobody
who is there is (`LeftBehind`), and that the counts are positive (`CountsOK`).
`CountsWithin` puts the count of each room between its connected members less its
early leavers and its members; `TotalMissesTheEarly` makes `socket_count` the
connected members less all early leavers. Lemmas about the cardinality of a room
carry the joins and leaves, early ones included.

**LastHourCache**, for every set of nodes and updates and every length of the
hour. That the list in Redis has what is due is not inductive, as a list that was
read earlier may be written over it: `NobodyForgets` demands it of every list
that was read and is to be written, too, and `WritesItsOwn` that an update is in
the list it writes. Two things are not due: an update whose SET came between
another's GET and SET (`exposed`), and one that was there when an update whose GET
had failed wrote its list of one (`wiped`); `OnlyOverlapOrErrorLoses` says that
nothing else is lost. A SET whose own error is ignored writes nothing and is not
`done` either. The clock only makes less due, and the pruning loop stops at
the first observation that is not old, so it drops nothing that is due.

**Election**, for every finite set of sentinels and every quorum, every set of
sentinels that restart, and every set that never sees the master down. `ElectionInv` says that
the epoch in the file of a sentinel is that of its last vote and no vote of its
is newer (`LastVoteKept`), that what a sentinel says it voted and what it was
told by the others are votes that were cast (`ToldWasCast`), that no sentinel
votes twice in an epoch, and that a win counted in time has a majority of all
sentinels behind it (`Backed`). Two majorities share a sentinel (a lemma about
finite sets), so two such winners of an epoch are one.

**Sentinel**, in three parts.

*Scripts*, for every length of the queue and every smaller limit of running
scripts.
`ScriptsInv` adds to the property that the jobs in the queue have identifiers of
their own, none newer than the last one given out; so the removal of a job closes
the gap without changing which job a process belongs to.

*Links*, for every set of masters, sentinels, addresses and link identifiers with
one to spare. `LinksInv` says that the reference count of a link is the number of
entries that use it, and that a question is pending on a link only for an entry
that uses it. A link is then freed exactly when its last user leaves, sharing
and switching an address keep the count, and an answer that comes back on a link
is for a record that exists.

*The group*, for every group of sentinels, set of Redis instances, number of
epochs and setup that satisfies `SentinelAssumption`: the setups start where a
failover left the group, so fewer than half are still behind it, and there is an
epoch for it. `GroupInv == RecordInv /\ VoteInv /\ WonInv /\ ConfInv`:

* `RecordInv`: every record is well formed (its epochs are ordered and bounded, a
  failover in progress has a chosen slave from the state that needs one on), its
  file holds its vote, and the master too, unless the sentinel is in `crossed`;
  questions and hellos carry known epochs.
* `VoteInv`: everyone has met the whole group, unless a sentinel was reset; votes
  that were told were cast; one vote per voter and epoch, none newer than what the
  voter remembers.
* `WonInv`: an election won by counting fresh votes has a majority behind it.
* `ConfInv`: as long as nothing excluded by `SameEpochSameMaster` has happened, a
  failover that waits for its election has an epoch its sentinel has not won;
  from the election on it has won it; before its slave obeys, nobody holds, saves
  or announces a configuration of that epoch; every configuration but the first
  has an epoch that was won; and two of one epoch name one master.

A configuration comes from one place, the promotion (`PromotionKeeps`): its epoch
was won by this sentinel, by `OneWinner` (two majorities share a sentinel, which
voted once) by no other, and nobody has it yet. Everything else copies one:
announcing, adopting a hello, saving, restarting. There is one lemma per action;
each shows that the records stay good (`KeptRecord`), that no configuration but a
known one appears, and that the step satisfies `ConfigNeverGetsOlder`
(`ConfigStep`). Without `RecordInv`'s part about the file, a restart could bring
back a vote or a master; without the third part of `ConfInv`, a promotion could
meet a configuration of its own epoch.

Only model-checked, and why:

* `NobodyWaitsForEver`, `EveryRecordSettles`: liveness under fairness.
* What folds and recursive functions compute, which needs induction over data:
  `SummaryIsTheDay` (with it the second half of `WindowsAreExact`), `Dict`,
  `Ziplist`, `Intset`, `Quicklist`, `Skiplist`, the commands of `Keyspace`, and the
  loading of a file in `Persistence`. (A statement about a set of numbers can be
  proved by its least element, with `WFMin` and `NatLessThanWellFounded`; that a
  free link exists is proved so.)
* `Bitops` and `Clients`, which declare RECURSIVE operators, and the modules that
  extend them.
* `Replication`, `Cluster` and `Resharding`: nothing stands in the way of a proof
  but its length; some of their properties hold only in setups without certain
  faults and need that as a hypothesis.

## 5. What the checks found in the code

In the pipeline:

1. `mapper.js:301`: `send_correct` for a sensor that is not on the blacklist
   removes the last sensor on it (`splice(-1, 1)`), whose error is then reported
   a second time. (`NoRepeatedReport` with three records.)
2. `mapper.js:76`: the `return true` of `parse_insert_emit` is inside `then()`;
   the processor's map is never refreshed and every observation asks Postgres.
   (`MapCatchesUp`, which states the comment at line 59, is refuted by TLC.
   `MetadataIsFresh` speaks only of observations that waited for Postgres, and
   would hold if the map were refreshed.)
3. `sample_kcl_app.js:87`: the checkpoint does not wait for the inserts; a crash
   loses what is under way. (Run `consumer_checkpoint_crash`.)
4. `mapper.js:233`: an observation that lacks a key of its sensor's row passes
   the checks and is rejected by Redshift. (`CheckedObservationsFit`.)
5. `mapper.js:183`: a row without keys leaks a Redshift client per observation.
   (`EveryRecordSettles` excepts a pool all of whose clients are leaked, which
   happens in the run.) An observation of several features calls `done()`
   after each INSERT, for a client that is back already (`repeated`). And `mapper.js:271-276`, 295-300: the blacklist is
   changed whether or not the post to apiary succeeds; after a failed or overtaken
   one the sensor is suppressed and apiary need not show it (`marred`).
6. `index.js:140-146`: a client that leaves, or is rejected, before it joined
   decrements or deletes the entry of its room; members left in it get nothing.
   `socket_count` is the number of connected members less those clients, and can
   be negative (`TotalMissesTheEarly`).
7. `redis_pull.js:31`: when every entry of the list is older than an hour, the
   pruning loop reads the time of the first element of an empty list and throws;
   as the list stays in Redis, it does so again after every restart.
   (`running` becomes FALSE in `LastHourCache`.) An error of GET is ignored
   (28, 40-41): the update goes on as if there were no list and overwrites the
   whole hour with itself (`wiped`).
8. `materialize.js`: pruning happens with every update although the comment at
   line 32 excepts one without new data, and an empty window has the average
   0/0. `send_correct` posts `resolve` for sensors that were never reported
   (`mapper.js:289`).

In Redis:

9. `dict.c:905`: while a table is being cut to a quarter or less, `dictScan`
   counts the expansions of a cursor upwards from it and leaves some out; keys
   that were there all the time are missed. (Run `structures_scan`;
   `ScanReturnsWhatStayed` is what holds.)
10. `bitops.c:328-333`: a `BITFIELD SET` with saturation of a value far below the
    least of the field stores the greatest (`FarBelow`). `bitops.c:960` keeps the
    offset of the last write and not, as the comment at 987-988 says, the farthest:
    an earlier write of the same command that reaches farther uses memory behind
    the string (`LastReachesFarthest`). The shifts at 254 and 352 are undefined for
    fields of 64 bits; `FullShift` is what a build may make of them. All three are
    in the run, and `BitCommandsAreExact` says that nothing else goes wrong.
11. `ziplist.c:586-674`: inserting an entry shorter than the four bytes its
    successor's field gives up cuts the block before its tail is moved. (The
    ghost `damaged`, `ZiplistHoldsWhatWasPut`; the run's properties say nothing
    about a list after that.)
12. `t_list.c:103-106`: `listTypeReleaseIterator` frees an iterator without
    `quicklistReleaseIterator`, so that the node it stood on stays open and
    marked; compressed later, it can be an end of the list by then.
    (`LeavesOpen = TRUE`, `EndNodesAreRaw`.)
13. `sentinel.c`: with `Patient = {}` and a quorum of 2, a sentinel that counts
    stale votes can win an epoch another has won (`OneLeaderPerEpoch`); the best
    effort `SLAVEOF` at the end of a failover may be sent to the new master
    itself (around line 4066, `NoInstanceFollowsItself`); a hello with
    a new address dereferences NULL when another master does not know that
    sentinel (1048-1081, `AddressSwitchSurvives`); `running_scripts` is not decremented for a script
    that is retried (791-838). A leader whose promoted slave fails before the
    other slaves follow it stays in its failover (4037-4040); when the others
    fail back to the old master, its hello handler (2385-2389) takes over the new
    epoch and, as the address is the one it monitors, nothing else: it goes on to
    announce its own slave under the epoch of the others' configuration, although
    the comment at 2146-2149 wants a newer configuration to prevail. The ghost
    `crossed` marks this case; without it in `SameEpochSameMaster` the setup
    `Second` is a counterexample. If the promotion comes after such a takeover,
    2150 puts the older `failover_epoch` over the newer `config_epoch` and names
    the promoted slave, so that the sentinel's configuration does get older, with
    another master; SENTINEL RESET between the promotion and the end of the
    failover likewise leaves the promoted slave in the file and the old master in
    memory. `crossed` holds the sentinels both happened to, and
    `ConfigNeverGetsOlder` claims nothing of their configurations (it claims their
    votes). The newer epoch of the same master is not saved, and a restart forgets
    it: for every other sentinel that is the only way to an older configuration.
14. `cluster.c:2562`: the vote is sent without `lastVoteEpoch` being saved; a
    voter that crashes and restarts votes again in the same epoch, and two slaves
    win it, which the comment at 995-997 rules out. The setup `Crowded` has such a
    crash; `OneWinnerPerEpoch` excepts the epochs in which it happened
    (`spent.forgot`) and no others, and TLC refutes it without that exception.
15. `cluster.c:4670`, 4745-4750: the variable `ttl` of MIGRATE is set once and not
    for each key, so that a key without a TTL is sent the one of the key before
    it, also when the command is tried again (`"lent"`; the setup `Mixed`).
    `cluster.c:4849`, 4872-4891: a MIGRATE that times out after an answer keeps its
    connection, and the next one takes the late answers for its own and deletes
    keys the target may not have (`misread`; the setup `Late`). `NoKeyIsLost` says
    that nothing else changes or loses a key.
16. `networking.c:1264`, 1348: a slave under CLIENT PAUSE acknowledges what it has
    read and not applied, though its master takes the offset for what it has
    processed; WAIT counts it. A slave that has reconnected is counted twice until
    the master notices the end of its old connection. `WaitTellsTheTruth` excepts
    both and says what holds of the others.
17. `aof.c:709-711`: a transaction torn by a power failure is loaded up to where
    it is torn. `server.c:2558-2560`: SHUTDOWN syncs the AOF without first writing
    what a postponed write left in the buffer (`ShutdownKeepsAnswered` excepts
    exactly those writes). `rdb.c:1414`: when the server saves by itself, with
    DEBUG RELOAD, while a BGSAVE runs, the child's older file replaces the newer
    one and `dirty` is diminished for a save it does not speak of any more; it
    can be negative, and the next save points are late (`astray`, `crossed`, which
    `DirtyMeansUnsaved` excepts). `aof.c:289`: with
    `appendfsync everysec` and no more writes, what is written need not be synced
    (`WritesReachTheDisk`, against `redis.conf`).
18. `networking.c:1881-1905`: a client whose blocking operation times out in the
    turn in which a pause ends is put on the list of unblocked clients twice.
    `SORT ... STORE` over a key of another type does not signal the new list to
    blocked clients.
19. `db.c:781-834`, 1035-1049: MOVE and PERSIST change keys without
    `signalModifiedKey`, against the comment at 299-300; an EXEC that watched such
    a key goes through. (Run `keyspace_signals`; `ChangesAreSignalled` says that
    every other command signals.)
20. `replication.c:1272`, 1548-1555, 948-960: a slave whose PSYNC is refused with an
    error falls back to SYNC and has the offset -1 under the run ID of an earlier
    master; when that link breaks it is cached all the same and asks to continue,
    and what it is sent may repeat a write (`FallsBack` in `MCServer`).
    `replication.c:1685`: a master made a slave counts from 0 again under the same
    run ID; once it has a backlog again, it resumes the stream of a slave that
    knew its former history (`Foreign`). `StreamCompletesSlave` excepts the slaves
    to which one of these happened (`Misled`) and holds in all setups; the two
    that reach the wrong data take too long for the run. A slave that was synced
    by SYNC sends no acknowledgements of its own, and if the transfer was diskless
    its master never takes it for online.

Visible in the models and left as they are, because nothing says otherwise or
the effect is slight: expiry does not call
`signalModifiedKey`; `PERSIST` looks its key up without expiring it, so it can
revive a dead one, which a rewritten file or a full resynchronization in between
has left out (the ghost `revived` of `Keyspace`); `INCRBYFLOAT` is replicated as a `SET`, which drops the
time to live on the copies (the `late` flag of `Keyspace`); `INCR` accepts the
empty string and leading zeros in some encodings; `DECRBY` of the least integer
wraps; `ZREMRANGEBYLEX` over mixed scores depends on the encoding; `HSETNX` may
convert a hash without changing it; EXEC of writes queued before a demotion runs
on a slave.

## 6. Not modelled

* Pipeline: lines that are not JSON or have no known action; the text of SQL, HTTP
  and log messages; performance logging of the socket server;
  `amazon-kinesis-client-nodejs/lib/kcl` (the same code as `lib/kcl`) and its
  click stream sample, which the pipeline does not use; `kcl-bootstrap`, a
  sequence of downloads (one that ends early leaves a truncated file that the
  next start takes for complete); `dynamodb_interfacer.py`, producers, test
  receivers and senders, which are straight-line scripts; `pull_node`, which
  only reads.
* Redis: the Lua interpreter; geo, HyperLogLog and SORT's ordering; parsing of the
  protocol, output buffers and their limits; memory accounting, and how eviction samples;
  the text of INFO and of configuration files; byte formats of RDB and cluster
  packets, compression and checksums; the
  event loop's wrappers of system calls; `redis-cli`, `redis-benchmark`,
  `redis-check-*`; `deps/` and tests.
* Redis Cluster: MEET, FORGET, RESET and handshakes (every node knows every other,
  which is why SET-CONFIG-EPOCH is always refused, `cluster.c:4338`);
  ADDSLOTS and DELSLOTS, commands of the set-up, of which the second is local and
  never announced; CLUSTER FAILOVER without FORCE or TAKEOVER, with its handshake
  (MFSTART) and its paused clients; keys that expire while MIGRATE moves them.
* `node_modules`: third-party.

## 7. Plan

Done: all modules and their runs; proofs for the client library, the application,
the consumer, the socket server, the cache, the election, and Sentinel with its
scripts and links. Next, proofs, in this order:

1. `Resharding`: `NoKeyIsLost`, with what its setup must exclude as a hypothesis.
2. `Replication`: `WaitTellsTheTruth`, with its exceptions.
3. `Cluster`: `EpochsAreCovered`; its elections, by the argument of Sentinel's.
4. `Adlist`: `ListIsOneChain`.
