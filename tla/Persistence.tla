---------------------------- MODULE Persistence ----------------------------
(***************************************************************************)
(* What is on disk: the append only file (aof.c), its rewrite by a child   *)
(* that is sent the differences, the RDB file (rdb.c), the background      *)
(* thread that fsyncs (bio.c), and the parts of server.c that drive them:  *)
(* beforeSleep, serverCron, SHUTDOWN and loading at start.                 *)
(*                                                                         *)
(* A dataset is a sequence of <<db, id>>, one for each write.  The AOF is  *)
(* a sequence of units: SELECT, a write, FLUSHALL, MULTI, EXEC, and the    *)
(* dataset that a rewrite starts with.  A rename is atomic and lasting; a  *)
(* power failure takes any part of a file that was not fsynced.            *)
(***************************************************************************)
EXTENDS Integers, Sequences, FiniteSets, SequencesExt

CONSTANT PersSetups   \* what is configured and may happen, see below

(***************************************************************************)
(* A setup is a record: policy (appendfsync), aof (appendonly at start),   *)
(* writes, rewrites, saves and crashes (bounds), and can, a set of         *)
(*   "dbs"      writes go to two databases                                 *)
(*   "multi"    writes come in transactions of two                         *)
(*   "flushall", "switch" (CONFIG SET appendonly), "reload" (DEBUG RELOAD) *)
(*   "werr"     write(2) may fail       "fail"    a child may fail         *)
(*   "kill"     the process dies        "power"   the machine does         *)
(*   "shutdown" SHUTDOWN                "saves"   save points are set      *)
(*   "nofsync"  no-appendfsync-on-rewrite                                  *)
(*   "keepconf" CONFIG REWRITE follows CONFIG SET                          *)
(***************************************************************************)
PersAbilities == {"dbs", "multi", "flushall", "switch", "reload", "werr", "fail", "kill",
                  "power", "shutdown", "saves", "nofsync", "keepconf"}

ASSUME PersAssumption ==
  \A c \in PersSetups :
    /\ c.policy \in {"always", "everysec", "no"} /\ c.aof \in {"on", "off"}
    /\ {c.writes, c.rewrites, c.saves, c.crashes} \subseteq Nat
    /\ c.can \subseteq PersAbilities

VARIABLES pers,     \* the setup; it never changes
          srv,      \* the server
          disk,     \* the files, which of them is the AOF, and the RDB file
          jobs,     \* bio: files to fsync
          kid,      \* the child that rewrites the AOF
          rkid,     \* the child that saves the RDB file
          count,    \* counters, for the bounds
          answered, \* history: the dataset the clients' last answers are about
          lost      \* history: a SHUTDOWN lost an answered write

persVars == <<pers, srv, disk, jobs, kid, rkid, count, answered, lost>>

May(x) == x \in pers.can

(***************************************************************************)
(* loadAppendOnlyFile.  Inside MULTI commands are queued, a MULTI is an    *)
(* error without effect, and what is still queued at the end is dropped.   *)
(***************************************************************************)
RunUnit(l, u) ==
  CASE u[1] = "sel" -> [l EXCEPT !.db = u[2]]
    [] u[1] = "w" -> [l EXCEPT !.data = Append(@, <<l.db, u[2]>>), !.dirty = @ + 1]
    [] u[1] = "flush" -> [l EXCEPT !.data = <<>>, !.dirty = @ + Len(l.data) + 1]
    [] u[1] = "base" -> [l EXCEPT !.data = u[2], !.db = -2, !.dirty = @ + Len(u[2])]

LoadUnit(l, u) ==
  IF l.multi
  THEN CASE u[1] = "exec" -> FoldLeft(RunUnit, [l EXCEPT !.multi = FALSE, !.queue = <<>>], l.queue)
         [] u[1] = "multi" -> l
         [] OTHER -> [l EXCEPT !.queue = Append(@, u)]
  ELSE CASE u[1] = "multi" -> [l EXCEPT !.multi = TRUE]
         [] u[1] = "exec" -> l
         [] OTHER -> RunUnit(l, u)

LoadAppendOnlyFile(us) ==
  FoldLeft(LoadUnit, [data |-> <<>>, db |-> 0, multi |-> FALSE, queue |-> <<>>, dirty |-> 0], us)

Ids(d) == {d[i][2] : i \in 1..Len(d)}

(***************************************************************************)
(* The server.  fd: the file that aof_fd is open for, 0 if none; sel:      *)
(* aof_selected_db; rw: the rewrite buffer; stop: aof_stop_sending_diff;   *)
(* postponed: 1 a flush is postponed, 2 for two seconds; due: a second has *)
(* passed since aof_last_fsync; before: dirty_before_bgsave; astray, a     *)
(* history: dirty was corrected for a save that was not the last one.      *)
(***************************************************************************)
Started(mode, data, dirty, fd) ==
  [up |-> TRUE, mem |-> data, dirty |-> dirty, before |-> 0, bgok |-> TRUE, aof |-> mode, fd |-> fd,
   buf |-> <<>>, sel |-> -1, rw |-> <<>>, stop |-> FALSE, werr |-> FALSE, postponed |-> 0,
   due |-> FALSE, sched |-> FALSE, astray |-> FALSE]
NoKid == [phase |-> "none", base |-> <<>>, got |-> <<>>, pipe |-> <<>>]
NoSave == [phase |-> "none", data |-> <<>>, crossed |-> FALSE]   \* crossed, a history: the server saved too

\* A state of server, disk and thread as one value.
Now == [srv |-> srv, disk |-> disk, jobs |-> jobs]
BecomesNow(s) == srv' = s.srv /\ disk' = s.disk /\ jobs' = s.jobs
Sync(s, f) == [s EXCEPT !.disk.files[f].synced = Len(s.disk.files[f].data)]
Exits(s) == [s EXCEPT !.srv.up = FALSE, !.jobs = <<>>]

\* flushAppendOnlyFile.  n units are written (and stay: ftruncate may fail).
FlushAppendOnlyFile(s, force, n) ==
  LET v == s.srv
      syncing == pers.policy = "everysec" /\ s.jobs # <<>>
      wrote == IF v.fd = 0 THEN s
               ELSE [s EXCEPT !.disk.files[v.fd].data = @ \o SubSeq(v.buf, 1, n),
                              !.srv.postponed = 0, !.srv.buf = SubSeq(@, n + 1, Len(@))]
      ok == [wrote EXCEPT !.srv.werr = FALSE]
      children == kid # NoKid \/ rkid # NoSave
  IN  IF v.buf = <<>> THEN s
      ELSE IF syncing /\ ~force /\ v.postponed < 2
      THEN [s EXCEPT !.srv.postponed = 1]
      ELSE IF n < Len(v.buf) \/ v.fd = 0
      THEN IF pers.policy = "always" THEN Exits(wrote) ELSE [wrote EXCEPT !.srv.werr = TRUE]
      ELSE IF May("nofsync") /\ children THEN ok
      ELSE IF pers.policy = "always" THEN Sync([ok EXCEPT !.srv.due = FALSE], v.fd)
      ELSE IF pers.policy = "everysec" /\ v.due
      THEN [ok EXCEPT !.srv.due = FALSE, !.jobs = IF syncing THEN @ ELSE Append(@, v.fd)]
      ELSE ok

\* How many units a write(2) may write.
Writable(s) == {n \in 0..Len(s.srv.buf) : n = Len(s.srv.buf) \/ May("werr")}

\* feedAppendOnlyFile, for the units of one command or transaction.
FeedAppendOnlyFile(v, db, us) ==
  LET xs == IF v.sel # db THEN << <<"sel", db>> >> \o us ELSE us
  IN  IF v.aof = "off" THEN v
      ELSE [v EXCEPT !.sel = db, !.buf = IF v.aof = "on" THEN @ \o xs ELSE @,
                     !.rw = IF kid # NoKid THEN @ \o xs ELSE @]

(***************************************************************************)
(* Commands.                                                               *)
(***************************************************************************)
\* processCommand refuses writes after an error of the AOF or of BGSAVE.
MayWrite == srv.up /\ ~srv.werr /\ (May("saves") => srv.bgok)

WriteCmd(db) ==
  LET id == count.writes + 1
      v == [srv EXCEPT !.mem = Append(@, <<db, id>>), !.dirty = @ + 1]
  IN  /\ MayWrite /\ count.writes < pers.writes /\ (db = 1 => May("dbs"))
      /\ srv' = FeedAppendOnlyFile(v, db, << <<"w", id>> >>)
      /\ count' = [count EXCEPT !.writes = id]
      /\ UNCHANGED <<pers, disk, jobs, kid, rkid, answered, lost>>

\* EXEC propagates MULTI with its first write, and itself.
ExecCmd(db) ==
  LET id == count.writes + 1
      v == [srv EXCEPT !.mem = @ \o << <<db, id>>, <<db, id + 1>> >>, !.dirty = @ + 2]
  IN  /\ May("multi") /\ MayWrite /\ id < pers.writes /\ (db = 1 => May("dbs"))
      /\ srv' = FeedAppendOnlyFile(v, db, << <<"multi">>, <<"w", id>>, <<"w", id + 1>>, <<"exec">> >>)
      /\ count' = [count EXCEPT !.writes = id + 1]
      /\ UNCHANGED <<pers, disk, jobs, kid, rkid, answered, lost>>

\* rdbSave by the server itself.
RdbSave(s) == [s EXCEPT !.disk.rdb = s.srv.mem, !.srv.dirty = 0, !.srv.bgok = TRUE, !.srv.astray = FALSE]
KillSave == IF rkid.phase = "work" THEN [rkid EXCEPT !.phase = "killed"] ELSE rkid

\* flushallCommand: a BGSAVE is killed; with save points the empty dataset is
\* saved, and dirty stays as it was.
FlushallCommand ==
  LET v == [srv EXCEPT !.mem = <<>>, !.dirty = @ + Len(srv.mem)]
      s == [Now EXCEPT !.srv = v]
      s1 == IF May("saves") THEN [RdbSave(s) EXCEPT !.srv.dirty = v.dirty] ELSE s
  IN  /\ May("flushall") /\ MayWrite /\ count.flushes = 0
      /\ count' = [count EXCEPT !.flushes = 1]
      /\ rkid' = KillSave
      /\ BecomesNow([s1 EXCEPT !.srv = FeedAppendOnlyFile([@ EXCEPT !.dirty = @ + 1], 0,
                                                          << <<"flush">> >>)])
      /\ UNCHANGED <<pers, kid, answered, lost>>

\* saveCommand
SaveCmd ==
  /\ srv.up /\ rkid = NoSave /\ count.saves < pers.saves
  /\ count' = [count EXCEPT !.saves = @ + 1]
  /\ BecomesNow(RdbSave(Now))
  /\ UNCHANGED <<pers, kid, rkid, answered, lost>>

\* DEBUG RELOAD saves and loads, whether or not a child saves as well.
DebugReload ==
  /\ srv.up /\ May("reload") /\ count.saves < pers.saves
  /\ count' = [count EXCEPT !.saves = @ + 1]
  /\ BecomesNow(RdbSave(Now))
  /\ rkid' = IF rkid = NoSave THEN NoSave ELSE [rkid EXCEPT !.crossed = TRUE]
  /\ UNCHANGED <<pers, kid, answered, lost>>

\* rdbSaveBackground, from bgsaveCommand or from serverCron at a save point.
RdbSaveBackground ==
  /\ srv.up /\ rkid = NoSave /\ kid = NoKid /\ count.saves < pers.saves
  /\ count' = [count EXCEPT !.saves = @ + 1]
  /\ srv' = [srv EXCEPT !.before = srv.dirty]
  /\ rkid' = [phase |-> "work", data |-> srv.mem, crossed |-> FALSE]
  /\ UNCHANGED <<pers, disk, jobs, kid, answered, lost>>

\* The child: rdbSave writes, fsyncs and renames.
SaveChildEnds(good) ==
  /\ rkid.phase = "work" /\ (~good => May("fail"))
  /\ rkid' = [rkid EXCEPT !.phase = IF good THEN "ok" ELSE "failed"]
  /\ disk' = IF good THEN [disk EXCEPT !.rdb = rkid.data] ELSE disk
  /\ UNCHANGED <<pers, srv, jobs, kid, count, answered, lost>>

\* Mutant: everything counts as saved, the writes since the fork too.
SaveDoneResetsDirty(v, phase) ==
  CASE phase = "ok" -> [v EXCEPT !.dirty = 0, !.bgok = TRUE]
    [] phase = "failed" -> [v EXCEPT !.bgok = FALSE]
    [] OTHER -> v

\* backgroundSaveDoneHandlerDisk; a child killed with SIGUSR1 is no error.
BackgroundSaveDone(v, phase) ==
  CASE phase = "ok" -> [v EXCEPT !.dirty = @ - v.before, !.bgok = TRUE]
    [] phase = "failed" -> [v EXCEPT !.bgok = FALSE]
    [] OTHER -> v

CheckSaveChild ==
  /\ srv.up /\ rkid.phase \in {"ok", "failed", "killed"}
  /\ srv' = [BackgroundSaveDone(srv, rkid.phase) EXCEPT
               !.astray = IF rkid.phase = "ok" THEN rkid.crossed ELSE @]
  /\ rkid' = NoSave
  /\ UNCHANGED <<pers, disk, jobs, kid, count, answered, lost>>

(***************************************************************************)
(* The event loop.                                                         *)
(***************************************************************************)
\* beforeSleep: the AOF is written, then the answers are.
BeforeSleep(n) ==
  LET s == FlushAppendOnlyFile(Now, FALSE, n)
  IN  /\ srv.up /\ (srv.buf # <<>> \/ answered # srv.mem)
      /\ n \in Writable(Now)
      /\ BecomesNow(s)
      /\ answered' = IF s.srv.up THEN srv.mem ELSE answered
      /\ kid' = (IF s.srv.up THEN kid ELSE NoKid) /\ rkid' = (IF s.srv.up THEN rkid ELSE NoSave)
      /\ UNCHANGED <<pers, count, lost>>

\* serverCron tries a flush that was postponed or has failed.
CronFlush(n) ==
  /\ srv.up /\ (srv.postponed > 0 \/ srv.werr) /\ n \in Writable(Now)
  /\ BecomesNow(FlushAppendOnlyFile(Now, FALSE, n))
  /\ UNCHANGED <<pers, kid, rkid, count, answered, lost>>

\* The clock, as flushAppendOnlyFile reads it.
SecondPasses ==
  /\ srv.up /\ pers.policy = "everysec"
  /\ srv.postponed = 1 \/ (~srv.due /\ srv.postponed = 0)
  /\ srv' = IF srv.postponed = 1 THEN [srv EXCEPT !.postponed = 2] ELSE [srv EXCEPT !.due = TRUE]
  /\ UNCHANGED <<pers, disk, jobs, kid, rkid, count, answered, lost>>

\* bioProcessBackgroundJobs
BioFsync ==
  /\ jobs # <<>>
  /\ BecomesNow([Sync(Now, Head(jobs)) EXCEPT !.jobs = Tail(@)])
  /\ UNCHANGED <<pers, kid, rkid, count, answered, lost>>

(***************************************************************************)
(* Rewriting the AOF.                                                      *)
(***************************************************************************)
\* rewriteAppendOnlyFileBackground: fork.
RewriteFork(v) == [v EXCEPT !.sched = FALSE, !.sel = -1, !.stop = FALSE]

\* bgrewriteaofCommand, or serverCron when the file has grown: scheduled if a
\* BGSAVE runs.
BgrewriteaofCommand ==
  /\ srv.up /\ kid = NoKid /\ count.rewrites < pers.rewrites
  /\ count' = [count EXCEPT !.rewrites = @ + 1]
  /\ IF rkid # NoSave THEN srv' = [srv EXCEPT !.sched = TRUE] /\ UNCHANGED kid
     ELSE srv' = RewriteFork(srv) /\ kid' = [NoKid EXCEPT !.phase = "work", !.base = srv.mem]
  /\ UNCHANGED <<pers, disk, jobs, rkid, answered, lost>>

\* serverCron starts a rewrite that was scheduled.
ScheduledRewrite ==
  /\ srv.up /\ srv.sched /\ kid = NoKid /\ rkid = NoSave
  /\ srv' = RewriteFork(srv) /\ kid' = [NoKid EXCEPT !.phase = "work", !.base = srv.mem]
  /\ UNCHANGED <<pers, disk, jobs, rkid, count, answered, lost>>

\* aofChildWriteDiffData: some of the buffer goes into the pipe.
AofChildWriteDiffData(n) ==
  /\ srv.up /\ kid # NoKid /\ ~srv.stop /\ n \in 1..Len(srv.rw)
  /\ srv' = [srv EXCEPT !.rw = SubSeq(@, n + 1, Len(@))]
  /\ kid' = [kid EXCEPT !.pipe = @ \o SubSeq(srv.rw, 1, n)]
  /\ UNCHANGED <<pers, disk, jobs, rkid, count, answered, lost>>

\* rewriteAppendOnlyFile in the child: it has written the dataset, has read
\* some differences, and asks to stop sending.
ChildAsksToStop ==
  /\ kid.phase = "work"
  /\ kid' = [kid EXCEPT !.phase = "asked", !.got = @ \o kid.pipe, !.pipe = <<>>]
  /\ UNCHANGED <<pers, srv, disk, jobs, rkid, count, answered, lost>>

\* aofChildPipeReadable
AofChildPipeReadable ==
  /\ srv.up /\ kid.phase = "asked"
  /\ srv' = [srv EXCEPT !.stop = TRUE] /\ kid' = [kid EXCEPT !.phase = "acked"]
  /\ UNCHANGED <<pers, disk, jobs, rkid, count, answered, lost>>

\* Mutant: the child does not read again after the parent has agreed.
NoFinalDiff(k) == [k EXCEPT !.phase = "ok"]

\* The child reads what is still in the pipe, and fsyncs its file.
FinalDiff(k) == [k EXCEPT !.phase = "ok", !.got = @ \o k.pipe, !.pipe = <<>>]

RewriteChildEnds(good) ==
  /\ \/ good /\ kid.phase = "acked" /\ kid' = FinalDiff(kid)
     \/ ~good /\ May("fail") /\ kid.phase \in {"work", "asked", "acked"}
        /\ kid' = [kid EXCEPT !.phase = "failed"]
  /\ UNCHANGED <<pers, srv, disk, jobs, rkid, count, answered, lost>>

\* Mutant: the new file is not fsynced.
SwitchWithoutSync(s, f) ==
  [s EXCEPT !.srv.fd = f, !.srv.sel = -1, !.srv.buf = <<>>]

\* AOF enabled: aof_fd is now the new file, which has what is in the buffer.
SwitchTo(s, f) ==
  LET s1 == [s EXCEPT !.srv.fd = f, !.srv.sel = -1, !.srv.buf = <<>>]
  IN  CASE pers.policy = "always" -> Sync(s1, f)
        [] pers.policy = "everysec" -> [s1 EXCEPT !.jobs = Append(@, f)]
        [] OTHER -> s1

\* backgroundRewriteDoneHandler.  good: the parent could write and rename.
CheckRewriteChild(good) ==
  LET f == Len(disk.files) + 1
      file == [data |-> << <<"base", kid.base>> >> \o kid.got \o srv.rw, synced |-> 1 + Len(kid.got)]
      s1 == [Now EXCEPT !.disk = [@ EXCEPT !.files = Append(@, file), !.aof = f]]
      s2 == IF srv.fd = 0 THEN s1 ELSE SwitchTo(s1, f)
      s3 == IF srv.aof = "wait" THEN [s2 EXCEPT !.srv.aof = "on"] ELSE s2
      s == IF good THEN s3 ELSE Now
  IN  /\ srv.up /\ kid.phase \in {"ok", "failed"} /\ (kid.phase = "failed" => ~good)
      /\ (kid.phase = "ok" /\ ~good => May("werr"))
      /\ BecomesNow([s EXCEPT !.srv = [@ EXCEPT !.rw = <<>>, !.sched = @ \/ s.srv.aof = "wait"]])
      /\ kid' = NoKid
      /\ UNCHANGED <<pers, rkid, count, answered, lost>>

(***************************************************************************)
(* CONFIG SET appendonly.                                                  *)
(***************************************************************************)
\* startAppendOnly: the file is opened (or created), and rewritten first.
StartAppendOnly ==
  LET new == [disk EXCEPT !.files = Append(@, [data |-> <<>>, synced |-> 0]), !.aof = Len(disk.files) + 1]
      d == IF disk.aof = 0 THEN new ELSE disk
  IN  /\ srv.up /\ May("switch") /\ srv.aof = "off" /\ kid = NoKid /\ count.switches < 2
      /\ count' = [count EXCEPT !.switches = @ + 1]
      /\ disk' = d
      /\ srv' = [RewriteFork(srv) EXCEPT !.aof = "wait", !.fd = d.aof]
      /\ kid' = [NoKid EXCEPT !.phase = "work", !.base = srv.mem]
      /\ UNCHANGED <<pers, jobs, rkid, answered, lost>>

\* stopAppendOnly: flush, fsync, and a rewrite is killed.
StopAppendOnly(n) ==
  LET s == FlushAppendOnlyFile(Now, TRUE, n)
      s1 == IF srv.fd = 0 THEN s ELSE Sync(s, srv.fd)
  IN  /\ srv.up /\ May("switch") /\ srv.aof # "off" /\ count.switches < 2 /\ n \in Writable(Now)
      /\ count' = [count EXCEPT !.switches = @ + 1]
      /\ BecomesNow([s1 EXCEPT !.srv = [@ EXCEPT !.aof = "off", !.fd = 0, !.sel = -1,
                                                 !.rw = IF kid # NoKid THEN <<>> ELSE @]])
      /\ kid' = NoKid
      /\ UNCHANGED <<pers, rkid, answered, lost>>

(***************************************************************************)
(* The end, and a new start.                                               *)
(***************************************************************************)
\* What the next start loads.
ConfiguredOn == IF May("keepconf") THEN srv.aof # "off" ELSE pers.aof = "on"
AofOnDisk(d) == IF d.aof = 0 THEN <<>> ELSE d.files[d.aof].data
Recoverable(d) == IF ConfiguredOn THEN LoadAppendOnlyFile(AofOnDisk(d)).data ELSE d.rdb

\* Mutant: SHUTDOWN does not wait for the first AOF to be complete.
ExitsAtAnyTime == TRUE

\* prepareForShutdown refuses to exit while the first AOF is written.
ExitAllowed == ~(srv.aof = "wait" /\ kid # NoKid)

\* prepareForShutdown.  The children are killed, the AOF is fsynced (but what is in
\* the buffer is not written), the RDB file saved if there are save points.  The
\* server goes on if it may not exit, or cannot save.
PrepareForShutdown(good) ==
  LET s1 == IF srv.aof # "off" THEN Sync(Now, srv.fd) ELSE Now
      s2 == IF May("saves") THEN RdbSave(s1) ELSE s1
      buffered == {srv.buf[i][2] : i \in {j \in 1..Len(srv.buf) : srv.buf[j][1] = "w"}}
      kept == (Ids(answered) \cap Ids(srv.mem)) \ (IF ConfiguredOn THEN buffered ELSE {})
  IN  /\ srv.up /\ May("shutdown") /\ count.crashes < pers.crashes
      /\ (~good => May("saves") /\ May("fail"))
      /\ count' = [count EXCEPT !.crashes = @ + 1]
      /\ \/ /\ ExitAllowed /\ good
            /\ BecomesNow(Exits(s2)) /\ kid' = NoKid /\ rkid' = NoSave
            /\ lost' = (lost \/ ((May("saves") \/ ConfiguredOn)
                                  /\ ~(kept \subseteq Ids(Recoverable(s2.disk)))))
         \/ /\ ExitAllowed /\ ~good
            /\ BecomesNow(s1) /\ rkid' = KillSave
            /\ kid' = IF srv.aof # "off" /\ kid.phase \in {"work", "asked", "acked"}
                      THEN [kid EXCEPT !.phase = "failed"] ELSE kid
            /\ UNCHANGED lost
         \/ /\ ~ExitAllowed
            /\ rkid' = KillSave /\ UNCHANGED <<srv, disk, jobs, kid, lost>>
      /\ UNCHANGED <<pers, answered>>

\* The process dies, with its children.
Killed ==
  /\ srv.up /\ May("kill") /\ count.crashes < pers.crashes
  /\ count' = [count EXCEPT !.crashes = @ + 1]
  /\ BecomesNow(Exits(Now)) /\ kid' = NoKid /\ rkid' = NoSave
  /\ UNCHANGED <<pers, answered, lost>>

\* The machine dies: n units of the AOF are left.
PowerFails(n) ==
  /\ srv.up /\ May("power") /\ count.crashes < pers.crashes /\ disk.aof # 0
  /\ n \in disk.files[disk.aof].synced..Len(AofOnDisk(disk))
  /\ count' = [count EXCEPT !.crashes = @ + 1]
  /\ BecomesNow([Exits(Now) EXCEPT !.disk.files[disk.aof] =
                   [data |-> SubSeq(AofOnDisk(disk), 1, n), synced |-> n]])
  /\ kid' = NoKid /\ rkid' = NoSave
  /\ UNCHANGED <<pers, answered, lost>>

\* initServer opens the AOF, loadDataFromDisk loads it or the RDB file.  A file
\* that ends inside a transaction is loaded as it is.
LoadDataFromDisk ==
  LET new == [disk EXCEPT !.files = Append(@, [data |-> <<>>, synced |-> 0]), !.aof = Len(disk.files) + 1]
      d == IF disk.aof = 0 /\ ConfiguredOn THEN new ELSE disk
      l == LoadAppendOnlyFile(AofOnDisk(d))
  IN  /\ ~srv.up
      /\ disk' = d
      /\ srv' = IF ConfiguredOn THEN Started("on", l.data, l.dirty, d.aof) ELSE Started("off", d.rdb, 0, 0)
      /\ answered' = srv'.mem
      /\ UNCHANGED <<pers, jobs, kid, rkid, count, lost>>

(***************************************************************************)
(* The specification.                                                      *)
(***************************************************************************)
PersInit ==
  /\ pers \in PersSetups
  /\ disk = IF pers.aof = "on" THEN [files |-> << [data |-> <<>>, synced |-> 0] >>, aof |-> 1, rdb |-> <<>>]
            ELSE [files |-> <<>>, aof |-> 0, rdb |-> <<>>]
  /\ srv = Started(pers.aof, <<>>, 0, disk.aof)
  /\ jobs = <<>> /\ kid = NoKid /\ rkid = NoSave
  /\ count = [writes |-> 0, rewrites |-> 0, saves |-> 0, crashes |-> 0, switches |-> 0, flushes |-> 0]
  /\ answered = <<>> /\ lost = FALSE

PersNext ==
  \/ \E db \in {0, 1} : WriteCmd(db) \/ ExecCmd(db)
  \/ FlushallCommand \/ SaveCmd \/ DebugReload \/ RdbSaveBackground
  \/ \E good \in BOOLEAN : SaveChildEnds(good) \/ RewriteChildEnds(good) \/ CheckRewriteChild(good)
                            \/ PrepareForShutdown(good)
  \/ CheckSaveChild
  \/ \E n \in 0..Len(srv.buf) : BeforeSleep(n) \/ CronFlush(n) \/ StopAppendOnly(n)
  \/ SecondPasses \/ BioFsync
  \/ BgrewriteaofCommand \/ ScheduledRewrite \/ ChildAsksToStop \/ AofChildPipeReadable
  \/ \E n \in 1..Len(srv.rw) : AofChildWriteDiffData(n)
  \/ StartAppendOnly \/ Killed \/ LoadDataFromDisk
  \/ \E n \in 0..Len(AofOnDisk(disk)) : PowerFails(n)

\* Under everysec: the event loop runs, time passes, the thread works.
PersFair ==
  /\ WF_persVars(SecondPasses) /\ WF_persVars(BioFsync)
  /\ WF_persVars(\E n \in 0..Len(srv.buf) : BeforeSleep(n))
  /\ WF_persVars(\E n \in 0..Len(srv.buf) : CronFlush(n))

(***************************************************************************)
(* Properties.                                                             *)
(***************************************************************************)
\* While the AOF is on, the file that bears its name followed by the buffer is
\* the dataset: through rewrites that get part of the differences through the
\* pipe and part from the parent, writes that fail or end early, switches of
\* the AOF, and restarts.
AofIsTheDataset ==
  (srv.up /\ srv.aof = "on") =>
    LoadAppendOnlyFile(AofOnDisk(disk) \o srv.buf).data = srv.mem

\* With "appendfsync always", what was answered survives a power failure (unless
\* no-appendfsync-on-rewrite says otherwise).
AnsweredIsDurable ==
  (pers.policy = "always" /\ srv.aof = "on" /\ ~May("nofsync")) =>
    Ids(answered) \cap Ids(srv.mem) \subseteq
      Ids(LoadAppendOnlyFile(SubSeq(AofOnDisk(disk), 1, disk.files[disk.aof].synced)).data)

\* Where the RDB file is what is loaded: if it is not the dataset, dirty says so,
\* and save points will be reached.  Not so where DEBUG RELOAD has saved while a
\* child did: the child's file is older than the one it replaces, and rdb.c:1414
\* subtracts from dirty what DEBUG RELOAD had set to 0; until the next save that
\* nothing overlaps, dirty is too low and may be negative.
DirtyMeansUnsaved ==
  (srv.up /\ pers.aof = "off" /\ ~May("keepconf") /\ disk.rdb # srv.mem
   /\ ~srv.astray /\ ~(rkid.phase = "ok" /\ rkid.crossed)) => srv.dirty > 0

\* SHUTDOWN loses no write that was answered, but those that are still in the buffer
\* of the AOF: a flush that was postponed (aof.c:301-316) or has failed leaves them
\* there although they are answered, and prepareForShutdown does not write them.
ShutdownKeepsAnswered == ~lost

\* What is written is fsynced at last, for appendfsync everysec.
WritesReachTheDisk ==
  []<>(srv.aof = "on" /\ srv.up => disk.files[disk.aof].synced = Len(AofOnDisk(disk)))

\* What is on disk covers what clients were answered (aof.c:284-444, 1355-1502, rdb.c:835-940,
\* 1410-1441, server.c:2526-2593): after a crash under appendfsync always, after SHUTDOWN,
\* and as long as the count of changes since the last save is what triggers the
\* next one, with the exceptions named at its parts.
AnsweredIsKept == AnsweredIsDurable /\ ShutdownKeepsAnswered /\ DirtyMeansUnsaved
=============================================================================
