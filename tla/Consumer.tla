------------------------------ MODULE Consumer ------------------------------
(***************************************************************************)
(* What the consumer does with records: the body of processRecords in      *)
(* consumer/consumer_app/consumer/sample_kcl_app.js and the functions of   *)
(* consumer/consumer_app/mapper.js behind it.  Everything runs on one      *)
(* event loop, but an observation is spread over many of its turns: a      *)
(* client of the Postgres pool, the sensor metadata, a client of the       *)
(* Redshift pool, one INSERT per feature of interest.  Observations        *)
(* overtake each other in between, and the batch is checkpointed without   *)
(* waiting for any of it.                                                  *)
(*                                                                         *)
(* Postgres, Redshift, the apiary service and the connection pools are     *)
(* external.  An observation is its sensor and the set of its data keys; a *)
(* sensor's metadata row maps keys to features of interest.                *)
(***************************************************************************)
EXTENDS Naturals, Sequences, FiniteSets, SequencesExt

CONSTANTS
  Records,      \* how many records the shard holds
  Sensors,      \* sensor names
  Contents,     \* what a record may contain
  Rows,         \* the metadata rows a sensor may have: functions, key to feature
  MaxUpdates,   \* bound: how often metadata rows change
  MaxCrashes,   \* bound: how often the process is restarted after a crash
  PgPool,       \* clients in the Postgres pool
  RsPool,       \* clients in the Redshift pool
  Faults        \* the failures that may happen

FaultKinds == {"pgConnect", "pgQuery", "rsConnect", "rsQuery", "post"}

ASSUME RecordsAssumption == Records \in Nat
ASSUME BoundsAssumption  == MaxUpdates \in Nat /\ MaxCrashes \in Nat
ASSUME PoolsAssumption   == PgPool \in Nat \ {0} /\ RsPool \in Nat \ {0}
ASSUME FaultsAssumption  == Faults \subseteq FaultKinds

ASSUME RowsAssumption    == \A row \in Rows : IsFiniteSet(DOMAIN row)

\* A record is JSON with a sensor, with a data object or without, or it is not.
ASSUME ContentsAssumption ==
  \A c \in Contents : \/ c.kind = "garbage"
                      \/ c.kind \in {"obs", "no data"} /\ c.sensor \in Sensors

Positions == 1 .. Records

\* An UPDATE of the app's own map is under way next to those of the records.
Pulls == {"record", "map"} \X Positions

VARIABLES
  stream,        \* the contents of the shard's records
  metadata,      \* Postgres: the current rows, and how often they changed
  map,           \* the record processor's sensor map, with the same fields
  blacklist,     \* sensors reported to apiary, oldest first
  pull,          \* update_map calls: what each is waiting for
  insert,        \* redshift_insert calls: what each is waiting for
  pgFree,        \* clients left in the Postgres pool
  rsFree,        \* clients left in the Redshift pool
  stored,        \* Redshift: the rows written, as record and table
  rejected,      \* history: the rows Redshift could not accept as written
  emitted,       \* history: internal_data sent, as record and feature
  posts,         \* the posts to apiary that are on their way, oldest first
  shown,         \* apiary: the last post about each sensor that arrived
  said,          \* history: the last post this process sent about each sensor
  marred,        \* history: sensors of which a post failed or was overtaken
  dropped,       \* history: reported sensors that left the list for another's sake
  leaked,        \* history: Redshift clients that were never given back
  repeated,      \* history: calls of done() for a client already given back
  readAt,        \* history: the age of the metadata when a record was read
  alive,         \* is the process running?
  position,      \* the last record given to processRecords
  resumed,       \* where this process began: the records after it are its own
  busy,          \* is a batch's checkpoint not answered yet?
  checkpointed,  \* the durable checkpoint
  crashes        \* how often the process crashed

vars == <<stream, metadata, map, blacklist, pull, insert, pgFree, rsFree, stored,
          rejected, emitted, posts, shown, said, marred, dropped, leaked, repeated,
          readAt, alive, position, resumed, busy, checkpointed, crashes>>

memory   == <<map, blacklist, pull, insert, pgFree, rsFree, leaked, repeated>>
apiary   == <<posts, shown, said, marred, dropped>>
outside  == <<stored, rejected, emitted, apiary>>
progress == <<alive, position, resumed, busy, checkpointed, crashes>>

----------------------------------------------------------------------------
Island   == "unknownfeature"  \* the table of misfit values
NoRows   == << >>             \* the empty map {}
NoPull   == [stage |-> "none"]
NoInsert == [stage |-> "none"]

\* A snapshot of the metadata is a partial function from sensors to rows.
Snapshot(rows, age) == [rows |-> rows, age |-> age]

VolatileInit ==
  /\ map = Snapshot(NoRows, 0)
  /\ blacklist = << >>
  /\ pull = [p \in Pulls |-> NoPull]
  /\ insert = [i \in Positions |-> NoInsert]
  /\ pgFree = PgPool
  /\ rsFree = RsPool /\ leaked = 0 /\ repeated = 0

RowSets == UNION {[S -> Rows] : S \in SUBSET Sensors}

Init ==
  /\ stream \in [Positions -> Contents]
  /\ \E rows \in RowSets : metadata = Snapshot(rows, 0)
  /\ VolatileInit
  /\ stored = {}
  /\ rejected = {}
  /\ emitted = {}
  /\ posts = [s \in Sensors |-> << >>]
  /\ shown = [s \in Sensors |-> "nothing"]
  /\ said = [s \in Sensors |-> "nothing"]
  /\ marred = {} /\ dropped = {}
  /\ readAt = [i \in Positions |-> 0]
  /\ alive = TRUE
  /\ position = 0
  /\ resumed = 0
  /\ busy = FALSE
  /\ checkpointed = 0
  /\ crashes = 0

----------------------------------------------------------------------------
(* mapper.js                                                               *)

\* invalid_keys: the observation's keys that its sensor's row lacks.
InvalidKeys(obs, m) == obs.keys \ DOMAIN m[obs.sensor]

\* The test of parse_insert_emit, on the processor's map and on a new one.
Fits(obs, m) == obs.sensor \in DOMAIN m /\ InvalidKeys(obs, m) = {}

Features(row) == {row[k] : k \in DOMAIN row}

\* The INSERTs of redshift_insert: one per feature of the row, or one into the
\* island.  A key the row has and the observation lacks puts the word
\* undefined into the INSERT of its feature, which Redshift rejects.
Inserts(obs, m, misfit) ==
  IF misfit
  THEN {[table |-> Island, sound |-> TRUE]}
  ELSE LET row == m[obs.sensor]
       IN  {[table |-> f,
             sound |-> \A k \in DOMAIN row : row[k] = f => k \in obs.keys] :
              f \in Features(row)}

\* redshift_insert asks for a client; the rest happens when it is there.
RedshiftInsert(obs, snapshot, misfit) ==
  [stage |-> "waiting", rows |-> Inserts(obs, snapshot.rows, misfit),
   age |-> snapshot.age]

\* format_obs and the emits: one internal_data per feature of the row.
Emits(i, obs, m) == {<<i, f>> : f \in Features(m[obs.sensor])}

\* request.post: the message is on its way; nobody waits for it.
Post(sensor, what) ==
  /\ said' = [said EXCEPT ![sensor] = what]
  /\ posts' = [posts EXCEPT ![sensor] = Append(@, what)]

\* Mutant: the sensor is pushed without looking whether it is there.
SendErrorAlways(sensor) ==
  /\ Post(sensor, "error")
  /\ blacklist' = Append(blacklist, sensor)
  /\ dropped' = dropped \ {sensor}

\* send_error: the sensor is on the list from now on, whatever becomes of the post.
SendError(sensor) ==
  IF Contains(blacklist, sensor)
  THEN UNCHANGED <<posts, said, blacklist, dropped>>
  ELSE /\ Post(sensor, "error")
       /\ blacklist' = Append(blacklist, sensor)
       /\ dropped' = dropped \ {sensor}

\* Mutant: the sensor stays on the list.
SendCorrectKeeps(sensor) ==
  /\ Post(sensor, "resolve")
  /\ UNCHANGED <<blacklist, dropped>>

\* send_correct: splice(-1, 1), for a sensor that is not on the list, removes
\* the last element.
SendCorrect(sensor) ==
  LET stray == ~Contains(blacklist, sensor) /\ blacklist # << >>
  IN  /\ Post(sensor, "resolve")
      /\ blacklist' = IF stray THEN Front(blacklist) ELSE RemoveFirst(blacklist, sensor)
      /\ dropped' = (IF stray THEN dropped \cup {Last(blacklist)} ELSE dropped) \ {sensor}

\* What parse_insert_emit returns to its caller.  The returns inside then()
\* are the promise's, not the function's.
Returns(obs) == IF Fits(obs, map.rows) THEN "false" ELSE "undefined"

\* Mutant: the observation is reported but not kept.
BanishForgets(i, obs, new) == SendError(obs.sensor) /\ UNCHANGED insert

\* The observation goes to the island, and its sensor is reported.
Banish(i, obs, new) ==
  /\ SendError(obs.sensor)
  /\ insert' = [insert EXCEPT ![i] = RedshiftInsert(obs, new, TRUE)]

\* parse_insert_emit when the new map has arrived.  Without a data object
\* invalid_keys throws, and the promise swallows it.
OnNewMap(i, obs, new) ==
  IF obs.sensor \notin DOMAIN new.rows
  THEN Banish(i, obs, new) /\ UNCHANGED emitted
  ELSE IF obs.kind = "no data"
  THEN UNCHANGED <<posts, said, dropped, blacklist, insert, emitted>>
  ELSE IF InvalidKeys(obs, new.rows) # {}
  THEN Banish(i, obs, new) /\ UNCHANGED emitted
  ELSE /\ SendCorrect(obs.sensor)
       /\ insert' = [insert EXCEPT ![i] = RedshiftInsert(obs, new, FALSE)]
       /\ emitted' = emitted \cup Emits(i, obs, new.rows)

----------------------------------------------------------------------------
(* processRecords: every record of the batch is started, then the batch is *)
(* checkpointed.  A record that is not JSON, or lacks its data object when *)
(* the map knows the sensor, throws; that is logged and forgotten.         *)

Throws(content) ==
  \/ content.kind = "garbage"
  \/ content.kind = "no data" /\ content.sensor \in DOMAIN map.rows

ProcessRecords ==
  /\ alive
  /\ ~busy
  /\ \E last \in position + 1 .. Records :
       LET batch == position + 1 .. last
           obs   == {i \in batch : ~Throws(stream[i])}
           fits  == {i \in obs : Fits(stream[i], map.rows)}
           start == {<<"record", i>> : i \in obs \ fits}
                      \cup {<<"map", i>> : i \in {j \in obs : Returns(stream[j]) = "true"}}
       IN  /\ pull' = [p \in Pulls |-> IF p \in start
                                       THEN [stage |-> "waiting"] ELSE pull[p]]
           /\ insert' = [i \in Positions |->
                           IF i \in fits THEN RedshiftInsert(stream[i], map, FALSE)
                                         ELSE insert[i]]
           /\ emitted' = emitted \cup UNION {Emits(i, stream[i], map.rows) : i \in fits}
           /\ readAt' = [i \in Positions |->
                           IF i \in batch THEN metadata.age ELSE readAt[i]]
           /\ position' = last
  /\ busy' = TRUE
  /\ UNCHANGED <<stream, metadata, map, blacklist, pgFree, rsFree, stored,
                 rejected, apiary, leaked, repeated, alive, resumed, checkpointed, crashes>>

\* The checkpoint is answered, with or without success; the batch is complete.
CheckpointAnswered ==
  /\ alive
  /\ busy
  /\ busy' = FALSE
  /\ checkpointed' \in {checkpointed, position}
  /\ UNCHANGED <<stream, metadata, memory, outside, readAt, alive, position,
                 resumed, crashes>>

----------------------------------------------------------------------------
(* update_map                                                              *)

\* Everything in memory is gone, and with it the observations under way.  The
\* posts that were sent may still arrive.
Crash ==
  /\ alive' = FALSE
  /\ busy' = FALSE
  /\ crashes' = crashes + 1
  /\ map' = Snapshot(NoRows, 0)
  /\ blacklist' = << >>
  /\ pull' = [p \in Pulls |-> NoPull]
  /\ insert' = [i \in Positions |-> NoInsert]
  /\ pgFree' = PgPool
  /\ rsFree' = RsPool /\ leaked' = 0 /\ repeated' = 0
  /\ said' = [s \in Sensors |-> "nothing"]
  /\ marred' = {} /\ dropped' = {}
  /\ UNCHANGED <<stream, metadata, stored, rejected, emitted, posts, shown, readAt,
                 position, resumed, checkpointed>>

\* Mutant: an answer that is there already serves the new call too.
PgConnectShares(p) ==
  /\ pull[p].stage = "waiting" /\ pgFree > 0 /\ pgFree' = pgFree - 1
  /\ LET there == {q \in Pulls : pull[q].stage = "answered"}
     IN  pull' = [pull EXCEPT ![p] = IF there = {} THEN [stage |-> "query"]
                                     ELSE pull[CHOOSE q \in there : TRUE]]
  /\ UNCHANGED <<stream, metadata, map, blacklist, insert, rsFree, leaked, repeated, outside,
                 readAt, progress>>

PgConnect(p) ==
  /\ pull[p].stage = "waiting"
  /\ pgFree > 0
  /\ pgFree' = pgFree - 1
  /\ pull' = [pull EXCEPT ![p] = [stage |-> "query"]]
  /\ UNCHANGED <<stream, metadata, map, blacklist, insert, rsFree, leaked, repeated, outside,
                 readAt, progress>>

\* No client: the promise is rejected, and then null.query throws.
PgConnectFails(p) ==
  /\ "pgConnect" \in Faults
  /\ crashes < MaxCrashes
  /\ pull[p].stage = "waiting"
  /\ Crash

\* Postgres runs the query; its answer is on the way back.
PgRead(p) ==
  /\ pull[p].stage = "query"
  /\ pull' = [pull EXCEPT ![p] = [stage |-> "answered", new |-> metadata]]
  /\ UNCHANGED <<stream, metadata, map, blacklist, insert, pgFree, rsFree,
                 leaked, repeated, outside, readAt, progress>>

\* The query fails: the promise is rejected, and then result.rows throws.
PgQueryFails(p) ==
  /\ "pgQuery" \in Faults
  /\ crashes < MaxCrashes
  /\ pull[p].stage = "query"
  /\ Crash

\* Mutants: the client is given back never, or twice.
DoneNever(free) == free
DoneTwice(free) == free + 2

\* done(): the client goes back to the pool.
Done(free) == free + 1

\* The answer arrives: the client goes back to the pool, and the new map goes
\* to whoever called update_map.
PgAnswer(p) ==
  /\ pull[p].stage = "answered"
  /\ pgFree' = Done(pgFree)
  /\ pull' = [pull EXCEPT ![p] = [stage |-> "done"]]
  /\ IF p[1] = "map"
     THEN map' = pull[p].new /\ UNCHANGED <<posts, said, dropped, blacklist, insert, emitted>>
     ELSE OnNewMap(p[2], stream[p[2]], pull[p].new) /\ UNCHANGED map
  /\ UNCHANGED <<stream, metadata, rsFree, leaked, repeated, stored, rejected,
                 shown, marred, readAt, progress>>

----------------------------------------------------------------------------
(* redshift_insert                                                         *)

\* A client is there: the INSERTs are sent without waiting for them, and after
\* each done() is called.  The first call gives the client back; what the pool
\* (external) makes of the others is its own affair: it ignores them, or takes
\* the client for another one that is free.  With no INSERT there is no done().
RsConnect(i) ==
  LET rows == insert[i].rows
  IN  /\ insert[i].stage = "waiting"
      /\ rsFree > 0
      /\ \/ /\ rows = {}
            /\ rsFree' = rsFree - 1 /\ leaked' = leaked + 1 /\ UNCHANGED repeated
         \/ /\ rows # {}
            /\ rsFree' \in Done(rsFree - 1) .. Done(rsFree - 1) + (Cardinality(rows) - 1)
            /\ repeated' = repeated + (Cardinality(rows) - 1) /\ UNCHANGED leaked
      /\ insert' = [insert EXCEPT ![i].stage = "sent"]
      /\ UNCHANGED <<stream, metadata, map, blacklist, pull, pgFree, outside,
                     readAt, progress>>

\* No client: the error is logged, and then null.query throws, unless there
\* is nothing to insert.
RsConnectFails(i) ==
  /\ "rsConnect" \in Faults
  /\ crashes < MaxCrashes
  /\ insert[i].stage = "waiting"
  /\ IF insert[i].rows # {}
     THEN Crash
     ELSE /\ insert' = [insert EXCEPT ![i].stage = "sent"]
          /\ UNCHANGED <<stream, metadata, map, blacklist, pull, pgFree, rsFree,
                         leaked, repeated, outside, readAt, progress>>

\* Redshift answers one INSERT; a failure is logged.
RsAnswer(i, row) ==
  /\ insert[i].stage = "sent"
  /\ row \in insert[i].rows
  /\ insert' = [insert EXCEPT ![i].rows = @ \ {row}]
  /\ \/ /\ row.sound
        /\ stored' = stored \cup {<<i, row.table>>}
        /\ UNCHANGED rejected
     \/ /\ ~row.sound
        /\ rejected' = rejected \cup {<<i, row.table>>}
        /\ UNCHANGED stored
     \/ /\ "rsQuery" \in Faults
        /\ UNCHANGED <<stored, rejected>>
  /\ UNCHANGED <<stream, metadata, map, blacklist, pull, pgFree, rsFree,
                 leaked, repeated, emitted, apiary, readAt, progress>>

----------------------------------------------------------------------------
(* apiary.  Each post has a request of its own, whose callback logs.       *)

\* A post arrives, before or after those that were sent earlier.
PostArrives(s, k) ==
  /\ k \in 1 .. Len(posts[s])
  /\ shown' = [shown EXCEPT ![s] = posts[s][k]]
  /\ posts' = [posts EXCEPT ![s] = RemoveAt(@, k)]
  /\ marred' = IF k = 1 THEN marred ELSE marred \cup {s}
  /\ UNCHANGED <<stream, metadata, memory, stored, rejected, emitted, said, dropped,
                 readAt, progress>>

\* A post fails; the error is logged, and the list stays as it is.
PostFails(s, k) ==
  /\ "post" \in Faults
  /\ k \in 1 .. Len(posts[s])
  /\ posts' = [posts EXCEPT ![s] = RemoveAt(@, k)]
  /\ marred' = marred \cup {s}
  /\ UNCHANGED <<stream, metadata, memory, stored, rejected, emitted, shown, said, dropped,
                 readAt, progress>>

----------------------------------------------------------------------------
\* Someone corrects, adds or removes a sensor's metadata.
UpdateMetadata ==
  /\ metadata.age < MaxUpdates
  /\ \E rows \in RowSets :
       /\ rows # metadata.rows
       /\ metadata' = Snapshot(rows, metadata.age + 1)
  /\ UNCHANGED <<stream, memory, outside, readAt, progress>>

\* A new process resumes after the checkpoint.
Restart ==
  /\ ~alive
  /\ alive' = TRUE
  /\ position' = checkpointed
  /\ resumed' = checkpointed
  /\ UNCHANGED <<stream, metadata, memory, outside, readAt, busy, checkpointed,
                 crashes>>

\* Pending INSERTs of a record.
Pending(i) == IF insert[i].stage = "sent" THEN insert[i].rows ELSE {}

\* The handling of a record has ended: with its INSERTs answered, or in an
\* exception.
Over(i) ==
  \/ stream[i].kind = "garbage"
  \/ insert[i].stage = "sent" /\ insert[i].rows = {}
  \/ /\ stream[i].kind = "no data"
     /\ pull[<<"record", i>>].stage \in {"none", "done"}
     /\ insert[i].stage = "none"

\* Records given to this process.
Mine == resumed + 1 .. position

Next ==
  \/ ProcessRecords
  \/ CheckpointAnswered
  \/ \E p \in Pulls : PgConnect(p)
  \/ \E p \in Pulls : PgConnectFails(p)
  \/ \E p \in Pulls : PgRead(p)
  \/ \E p \in Pulls : PgQueryFails(p)
  \/ \E p \in Pulls : PgAnswer(p)
  \/ \E i \in Positions : RsConnect(i)
  \/ \E i \in Positions : RsConnectFails(i)
  \/ \E i \in Positions : \E row \in Pending(i) : RsAnswer(i, row)
  \/ \E s \in Sensors : \E k \in 1 .. Len(posts[s]) : PostArrives(s, k) \/ PostFails(s, k)
  \/ UpdateMetadata
  \/ Restart

\* Queries are answered, pools hand out free clients, callbacks are run, and
\* the daemon answers checkpoints.
Fairness ==
  /\ WF_vars(CheckpointAnswered)
  /\ \A p \in Pulls : WF_vars(PgConnect(p)) /\ WF_vars(PgRead(p)) /\ WF_vars(PgAnswer(p))
  /\ \A i \in Positions : WF_vars(RsConnect(i))
  /\ \A i \in Positions :
       WF_vars(\E row \in Pending(i) : RsAnswer(i, row))

Spec     == Init /\ [][Next]_vars
FairSpec == Spec /\ Fairness

----------------------------------------------------------------------------
\* Every variable has the values its description promises.
TypeOK ==
  /\ stream \in [Positions -> Contents]
  /\ \A snapshot \in {metadata, map} :
       snapshot.rows \in RowSets /\ snapshot.age \in 0 .. MaxUpdates
  /\ blacklist \in Seq(Sensors)
  /\ \A p \in Pulls :
       pull[p].stage \in {"none", "waiting", "query", "answered", "done"}
  /\ \A i \in Positions : insert[i].stage \in {"none", "waiting", "sent"}
  /\ pgFree \in 0 .. PgPool /\ rsFree \in Nat
  /\ posts \in [Sensors -> Seq({"error", "resolve"})]
  /\ shown \in [Sensors -> {"nothing", "error", "resolve"}]
  /\ said \in [Sensors -> {"nothing", "error", "resolve"}]
  /\ resumed <= position /\ position <= Records
  /\ checkpointed <= position
  /\ crashes \in 0 .. MaxCrashes

\* Callbacks of several observations of one sensor, in any order, put it on
\* the blacklist at most once; send_correct removes one element only
\* (mapper.js:264-277, 301).
BlacklistHasNoDuplicates ==
  \A i, j \in 1 .. Len(blacklist) : blacklist[i] = blacklist[j] => i = j

\* The sensors whose last post was an error are those on the list, whose errors
\* are suppressed, and those that a send_correct for a sensor that was not on
\* the list took from its end (splice(-1, 1), mapper.js:264-277, 301).
ListIsWhatWasSaid ==
  \A s \in Sensors : said[s] = "error" <=> Contains(blacklist, s) \/ s \in dropped

\* A sensor on the list is shown at apiary as faulty, or will be by the last post
\* on its way, unless a post about it failed or was overtaken: then its errors
\* are suppressed and apiary need not know of any (mapper.js:264-277, 289-300).
SuppressedIsShown ==
  \A s \in Sensors \ marred :
    Contains(blacklist, s) => "error" = IF posts[s] = << >> THEN shown[s] ELSE Last(posts[s])

\* The Redshift pool: what is missing was leaked by a row without keys, and what
\* is too much comes from a done() for a client already back (mapper.js:142-186).
RedshiftPoolIsExact == RsPool <= rsFree + leaked /\ rsFree + leaked <= RsPool + repeated

\* An observation that waited for Postgres is inserted under metadata at least
\* as recent as its arrival, however the answers overtake each other and the
\* rows change meanwhile (mapper.js:63-98).  It says nothing of one that fits
\* the processor's own map, which is as old as the last update of that map.
MetadataIsFresh ==
  \A i \in Positions :
    pull[<<"record", i>>].stage = "done" /\ insert[i].stage # "none" => insert[i].age >= readAt[i]

\* No observation gets lost between two callbacks: each one given to this
\* process is waiting for Postgres, waiting for Redshift, or over.
EveryRecordAccountedFor ==
  alive => \A i \in Mine :
    \/ pull[<<"record", i>>].stage \in {"waiting", "query", "answered"}
    \/ insert[i].stage = "waiting"
    \/ Pending(i) # {}
    \/ Over(i)

\* Every observation is dealt with unless the process crashes; a pool keeps an
\* observation waiting for ever only when rows without keys took all its clients
\* (mapper.js:23-37, 134-186).
EveryRecordSettles ==
  \A i \in Positions : (alive /\ i \in Mine) ~> (~alive \/ Over(i) \/ leaked >= RsPool)

\* mapper.js:72, "send message to apiary if message not already sent": no
\* second error message for a sensor before the first is taken back.
NoRepeatedReport ==
  [][\A s \in Sensors :
       Contains(blacklist', s) /\ ~Contains(blacklist, s) => said[s] # "error"]_vars

\* mapper.js:59, "true if map needs to be updated": when a new map solved an
\* observation's problem, the record processor's map is brought up to date.
MapCatchesUp ==
  \A i \in Positions :
    (\E f \in UNION {Features(row) : row \in Rows} : <<i, f>> \in emitted)
      ~> stream[i].sensor \in DOMAIN map.rows

\* checkpointer.js:21-23, "all records are processed successfully": what is
\* checkpointed and not given to a process again has been stored.
CheckpointedIsStored ==
  ~alive => \A i \in 1 .. checkpointed :
    stream[i].kind = "obs" => \E row \in stored : row[1] = i

\* mapper.js:88-92, "updating the map fixed the discrepancy": an observation
\* that passed the checks can be inserted.
CheckedObservationsFit == rejected = {}

\* What the mapper keeps in memory (mapper.js:11-37, 134-186, 245-302): each pool
\* has the clients that were not leaked, no sensor is on the blacklist twice, the
\* list and the splices at its end account for every error that was not taken
\* back, and what the list suppresses is shown unless its posts went astray.
MemoryIsSound ==
  /\ TypeOK /\ RedshiftPoolIsExact
  /\ BlacklistHasNoDuplicates /\ ListIsWhatWasSaid /\ SuppressedIsShown
=============================================================================
