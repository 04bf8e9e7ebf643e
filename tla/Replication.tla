---------------------------- MODULE Replication ----------------------------
(***************************************************************************)
(* Replication (replication.c, with the parts of networking.c and rdb.c it *)
(* uses): the replication stream and its SELECTs, the backlog, full and    *)
(* partial resynchronisation, BGSAVE for slaves on disk or to sockets, the *)
(* cache of the slave's master client, the script cache, WAIT, and what    *)
(* SLAVEOF changes.                                                        *)
(*                                                                         *)
(* A command, SELECT and PING are one unit of the stream each, so offsets  *)
(* count them.  A dataset is the sequence of writes that made it, each     *)
(* with its database.  The handshake (PING, AUTH, REPLCONF) is not split   *)
(* into its steps: it carries no state but the slave's capability.         *)
(***************************************************************************)
EXTENDS Integers, Sequences, FiniteSets, SequencesExt

CONSTANTS ReplSetups,   \* what is set up and may happen, see below
          BacklogSize   \* repl_backlog_size

(***************************************************************************)
(* A setup is a record: masterOf (node |-> master or NoMaster), writes,    *)
(* conns, breaks, pings and waits (bounds), slaveof, the pairs <<server,   *)
(* master>> SLAVEOF may name, and can, a set of                            *)
(*   "select"   writes go to two databases                                 *)
(*   "script"   writes are EVALSHA                                         *)
(*   "diskless" repl-diskless-sync is on                                   *)
(*   "save"     a BGSAVE for its own sake runs once                        *)
(*   "fail"     a BGSAVE may fail, or not start; an RDB may not load       *)
(*   "forget"   the backlog is freed after a time without slaves, and may  *)
(*              be resized                                                 *)
(*   "aof"      the AOF is on                                              *)
(*   "pause"    CLIENT PAUSE at slaves                                     *)
(*   "restart", "noone"                                                    *)
(***************************************************************************)
NoMaster == "none"
Abilities == {"select", "script", "diskless", "save", "fail", "forget", "aof", "pause",
              "restart", "noone"}

ASSUME ReplAssumption ==
  /\ BacklogSize \in Nat \ {0}
  /\ \A c \in ReplSetups :
       /\ c.masterOf \in [DOMAIN c.masterOf -> DOMAIN c.masterOf \cup {NoMaster}]
       /\ {c.writes, c.conns, c.breaks, c.pings, c.waits} \subseteq Nat
       /\ c.can \subseteq Abilities
       /\ \A x \in c.slaveof : x[1] # x[2] /\ {x[1], x[2]} \subseteq DOMAIN c.masterOf

VARIABLES repl,    \* the setup; it never changes
          peer,    \* each server
          conn,    \* connections from slaves to masters
          done,    \* counters: writes, breaks, pings, saves, reconfigurations
          waits,   \* the clients of the first master: woff, the offset each of
                   \* them wrote at, and queue, those blocked in WAIT
          toldOf   \* history: a WAIT answered with too large a number

replVars == <<repl, peer, conn, done, waits, toldOf>>

Peers == DOMAIN repl.masterOf
Conns == 1..repl.conns
Can(x) == x \in repl.can

(***************************************************************************)
(* A server.  blog: the backlog, a circular buffer.  sel: slaveseldb.      *)
(* rdb: the dataset the RDB child writes, if there is one.  st, link: the  *)
(* state of its link with its master; moff, mrun, mdb, buf: the offset,    *)
(* run ID, selected database and unprocessed input of the master client,   *)
(* which is cached while the link is down (cached); pre: that client is    *)
(* CLIENT_PRE_PSYNC.  age and mage are history: how often the offset of    *)
(* this server was set anew, and what that was at its master when it was   *)
(* last told an offset.                                                    *)
(***************************************************************************)
NoBacklog == [on |-> FALSE, off |-> 0, idx |-> 0, hist |-> 0,
              buf |-> [i \in 0..BacklogSize - 1 |-> <<"empty">>]]
NoChild == [type |-> "none", data |-> <<>>]
NewPeer(of, run, data) ==
  [of |-> of, run |-> run, data |-> data, knows |-> FALSE, cache |-> FALSE,
   off |-> 0, blog |-> NoBacklog, sel |-> -1, rdb |-> NoChild, paused |-> FALSE,
   st |-> IF of = NoMaster THEN "none" ELSE "connect", link |-> 0, cached |-> FALSE,
   moff |-> 0, mrun |-> 0, mdb |-> 0, pre |-> FALSE, buf |-> <<>>, age |-> 0, mage |-> 0]

\* A connection.  m: replstate at the master ("gone": no client there, "refused":
\* the client is no slave, "asked": and SYNC is on its way from it); out: the
\* output the master holds back; chan: what is on its way to the slave; pre:
\* CLIENT_PRE_PSYNC of the slave client; cutoff: the connection is broken.
NoConn == [slave |-> NoMaster, master |-> NoMaster, m |-> "unused", init |-> 0, out |-> <<>>,
           chan |-> <<>>, snap |-> <<>>, onack |-> FALSE, ack |-> 0, pre |-> FALSE, cutoff |-> FALSE]

(***************************************************************************)
(* Operators on a world w = [peer, conn].                                  *)
(***************************************************************************)
ClientsAt(w, n) == {c \in Conns : w.conn[c].master = n /\ w.conn[c].m \notin {"gone", "unused"}}
SlavesAt(w, n) == {c \in ClientsAt(w, n) : w.conn[c].m \notin {"refused", "asked"}}
SetPeer(w, n, p) == [w EXCEPT !.peer[n] = p]

\* Mutant: the offset is not incremented for a new backlog.
CreateBacklogSameOffset(p) ==
  [p EXCEPT !.blog = [NoBacklog EXCEPT !.on = TRUE, !.off = p.off + 1]]

\* createReplicationBacklog
CreateReplicationBacklog(p) ==
  [p EXCEPT !.blog = [NoBacklog EXCEPT !.on = TRUE, !.off = p.off + 2], !.off = @ + 1]

\* feedReplicationBacklog, one unit.
FeedBacklog(p, x) ==
  LET b == p.blog
      hist == IF b.hist = BacklogSize THEN BacklogSize ELSE b.hist + 1
  IN  [p EXCEPT !.off = @ + 1,
        !.blog = [b EXCEPT !.buf[b.idx] = x, !.idx = (b.idx + 1) % BacklogSize,
                           !.hist = hist, !.off = p.off + 1 - hist + 1]]

\* addReplyReplicationBacklog: what follows offset o.
BacklogFrom(p, o) ==
  LET b == p.blog
      skip == o - b.off
      first == (b.idx + (BacklogSize - b.hist)) % BacklogSize
  IN  [i \in 1..(b.hist - skip) |-> b.buf[(first + skip + i - 1) % BacklogSize]]

\* addReply to the slaves of n that do not wait for a BGSAVE to start.
Deliver(w, n, xs) ==
  [w EXCEPT !.conn = [c \in Conns |->
     LET k == w.conn[c]
     IN  IF c \notin SlavesAt(w, n) \/ k.m = "start" THEN k
         ELSE IF k.m = "online" /\ ~k.onack
              THEN [k EXCEPT !.chan = IF k.cutoff THEN @ ELSE @ \o xs]
              ELSE [k EXCEPT !.out = @ \o xs]]]

\* replicationFeedSlaves
FeedSlaves(w, n, db, x) ==
  LET p == w.peer[n]
      xs == IF p.sel # db THEN << <<"select", db>>, x >> ELSE <<x>>
      p1 == IF p.blog.on THEN FoldLeft(FeedBacklog, p, xs) ELSE p
  IN  IF ~p.blog.on /\ SlavesAt(w, n) = {} THEN w
      ELSE Deliver(SetPeer(w, n, [p1 EXCEPT !.sel = db]), n, xs)

\* freeClient for slave clients, and disconnectSlaves.  The slave can still
\* read what was sent.
FreeSlaves(w, C) ==
  [w EXCEPT !.conn = [c \in Conns |-> IF c \in C THEN [w.conn[c] EXCEPT !.m = "gone", !.out = <<>>]
                                      ELSE w.conn[c]]]

\* getPsyncInitialOffset, for a BGSAVE that starts now.
PsyncInitialOffset(p) == IF p.blog.on THEN p.off ELSE p.off + 1

\* What a master writes to the socket of a slave.
Sent(k, xs) == [k EXCEPT !.chan = IF k.cutoff THEN @ ELSE @ \o xs]

\* replicationSetupSlaveForFullResync: FULLRESYNC goes out at once, but not to a
\* slave that sent SYNC.
SetupSlaveForFullResync(w, c, offset) ==
  LET n == w.conn[c].master
      k == [w.conn[c] EXCEPT !.init = offset, !.m = "end"]
  IN  [w EXCEPT !.peer[n].sel = -1,
        !.conn[c] = IF k.pre THEN k ELSE Sent(k, << <<"fullresync", w.peer[n].run, offset, w.peer[n].age>> >>)]

\* All slaves that wait are prepared, whether the target is a file or their sockets.
SetupWaiting(w, n) ==
  LET ready == {c \in SlavesAt(w, n) : w.conn[c].m = "start"}
      offset == PsyncInitialOffset(w.peer[n])
  IN  FoldLeft(LAMBDA v, c : SetupSlaveForFullResync(v, c, offset), w, SetToSeq(ready))

\* startBgsaveForReplication, which also flushes the script cache.  With a
\* socket target the RDB follows at once.  If the child cannot be started (good),
\* the slaves that wait get an error and are closed; with a socket target they
\* have been told FULLRESYNC before the fork.
StartBgsave(w, n, good) ==
  LET p == w.peer[n]
      ready == {c \in SlavesAt(w, n) : w.conn[c].m = "start"}
      w1 == IF good \/ Can("diskless") THEN SetupWaiting(w, n) ELSE w
  IN  IF good
      THEN [w1 EXCEPT !.peer[n] = [@ EXCEPT !.cache = FALSE,
              !.rdb = [type |-> IF Can("diskless") THEN "socket" ELSE "disk", data |-> p.data]]]
      ELSE [w1 EXCEPT !.conn = [c \in Conns |->
              IF c \notin ready THEN w1.conn[c]
              ELSE [Sent(w1.conn[c], << <<"error">> >>) EXCEPT !.m = "gone", !.out = <<>>]]]

\* Mutant: the run ID is not compared.
AnyRunAccepted(p, run, o) ==
  run # -1 /\ p.blog.on /\ o >= p.blog.off /\ o <= p.blog.off + p.blog.hist

\* masterTryPartialResynchronization accepts run and offset o.
PartialAccepted(p, run, o) ==
  /\ run = p.run /\ p.blog.on
  /\ o >= p.blog.off /\ o <= p.blog.off + p.blog.hist

\* syncCommand with PSYNC run o, or with SYNC (old), on connection c, whose client
\* is not a slave yet.  good: a BGSAVE it starts can be started.
SyncCommand(w, c, old, run, o, good) ==
  LET n == w.conn[c].master
      p == w.peer[n]
      ending == {d \in SlavesAt(w, n) : w.conn[d].m = "end"}
      d == CHOOSE d \in ending : TRUE
      starts == p.rdb.type = "none" /\ ~Can("diskless")
      w1 == [w EXCEPT !.conn[c].m = "start", !.conn[c].pre = old]
      w2 == CASE p.rdb.type = "disk" /\ ending # {} ->
                   LET v == [w1 EXCEPT !.conn[c].out = w.conn[d].out]
                   IN  SetupSlaveForFullResync(v, c, w.conn[d].init)
              [] starts -> StartBgsave(w1, n, good)
              [] OTHER -> w1
  IN  IF p.of # NoMaster /\ p.st # "connected"
      THEN [w EXCEPT !.conn[c] = [Sent(@, << <<"error">> >>) EXCEPT !.m = "refused"]]
      ELSE IF ~old /\ PartialAccepted(p, run, o)
      THEN [w EXCEPT !.conn[c] = [Sent(@, << <<"continue">> >> \o BacklogFrom(p, o)) EXCEPT !.m = "online"]]
      ELSE IF Cardinality(SlavesAt(w2, n)) = 1 /\ ~p.blog.on /\ ~(starts /\ ~good)
           THEN SetPeer(w2, n, CreateReplicationBacklog(w2.peer[n]))
           ELSE w2

\* replicationDiscardCachedMaster
DiscardCachedMaster(p) == [p EXCEPT !.cached = FALSE, !.buf = <<>>]
FreeBacklog(p) == [p EXCEPT !.blog = NoBacklog]

\* A slave closes its side; the master's client notices later.
CloseLink(w, c) == [w EXCEPT !.conn[c] = [@ EXCEPT !.cutoff = TRUE, !.chan = <<>>]]

\* freeClient for the master client: it is cached.
ReplicationCacheMaster(p) == [p EXCEPT !.cached = TRUE]
HandleMasterDisconnection(p) == [p EXCEPT !.st = "connect", !.link = 0]
LoseMaster(w, n) ==
  LET p == w.peer[n]
  IN  SetPeer(CloseLink(w, p.link), n, HandleMasterDisconnection(ReplicationCacheMaster(p)))

\* replicationResurrectCachedMaster
ResurrectCachedMaster(p) == [p EXCEPT !.st = "connected", !.cached = FALSE]

\* A full resynchronisation is coming: disconnectSlaves, freeReplicationBacklog.
FullResyncAhead(w, n) ==
  SetPeer(FreeSlaves(w, SlavesAt(w, n)), n, FreeBacklog(DiscardCachedMaster(w.peer[n])))

\* The effect of one unit of the stream on a slave n: commands that change the
\* dataset are fed to the slaves of n as well.
ApplyUnit(w, n, x) ==
  LET p == w.peer[n]
  IN  CASE x[1] = "select" -> SetPeer(w, n, [p EXCEPT !.mdb = x[2]])
        [] x[1] = "write" ->
             FeedSlaves(SetPeer(w, n, [p EXCEPT !.data = Append(@, <<p.mdb, x[2]>>)]), n, p.mdb, x)
        [] x[1] = "eval" ->
             FeedSlaves(SetPeer(w, n, [p EXCEPT !.data = Append(@, <<p.mdb, x[2]>>), !.knows = TRUE]),
                        n, p.mdb, x)
        [] x[1] = "evalsha" ->
             IF p.knows
             THEN FeedSlaves(SetPeer(w, n, [p EXCEPT !.data = Append(@, <<p.mdb, x[2]>>)]),
                             n, p.mdb, x)
             ELSE w
        [] OTHER -> w

ApplyAll(w, n, xs) == FoldLeft(LAMBDA v, x : ApplyUnit(v, n, x), w, xs)

World == [peer |-> peer, conn |-> conn]
Becomes(w) == peer' = w.peer /\ conn' = w.conn

(***************************************************************************)
(* Masters.                                                                *)
(***************************************************************************)
\* evalShaCommand: EVALSHA is replicated as such if every slave is known to
\* have the script, else as EVAL, which puts it into the cache.
ScriptUnit(p, id) == IF p.cache THEN <<"evalsha", id>> ELSE <<"eval", id>>

WriteCommand(n, db) ==
  LET id == done.writes + 1
      p == peer[n]
      unit == IF Can("script") THEN ScriptUnit(p, id) ELSE <<"write", id>>
      p1 == [p EXCEPT !.data = Append(@, <<db, id>>), !.cache = Can("script"),
                      !.knows = @ \/ Can("script")]
  IN  /\ p.of = NoMaster /\ ~p.paused
      /\ done.writes < repl.writes /\ (db # 0 => Can("select"))
      /\ Becomes(FeedSlaves(SetPeer(World, n, p1), n, db, unit))
      /\ done' = [done EXCEPT !.writes = id]
      /\ waits' = IF repl.waits = 0 THEN waits
                  ELSE [waits EXCEPT !.woff = @ \cup {[id |-> id, off |-> peer'[n].off]}]
      /\ UNCHANGED <<repl, toldOf>>

\* replicationCron pings the slaves, in the database that is selected.
PingSlaves(n) ==
  /\ done.pings < repl.pings /\ done' = [done EXCEPT !.pings = @ + 1]
  /\ peer[n].blog.on
  /\ Becomes(FeedSlaves(World, n, peer[n].sel, <<"ping">>))
  /\ UNCHANGED <<repl, waits, toldOf>>

\* A BGSAVE that is not for replication.
BgsaveCommand(n) ==
  /\ Can("save") /\ done.saves = 0 /\ done' = [done EXCEPT !.saves = 1]
  /\ peer[n].rdb = NoChild
  /\ peer' = [peer EXCEPT ![n].rdb = [type |-> "disk", data |-> peer[n].data]]
  /\ UNCHANGED <<repl, conn, waits, toldOf>>

\* updateSlavesWaitingBgsave: slaves whose RDB is ready; a new BGSAVE for those
\* that have come too late for it.
UpdateSlavesWaitingBgsave(w, n, rdb, good, starts) ==
  LET ending == {c \in SlavesAt(w, n) : w.conn[c].m = "end"}
      w1 == IF rdb.type = "socket" \/ good THEN w ELSE FreeSlaves(w, ending)
      w2 == [w1 EXCEPT !.conn = [c \in Conns |->
               LET k == w1.conn[c]
               IN  IF c \notin ending \/ k.m = "gone" THEN k
                   ELSE IF rdb.type = "socket" THEN [k EXCEPT !.m = "online", !.onack = TRUE]
                   ELSE [k EXCEPT !.m = "bulk", !.snap = rdb.data]]]
  IN  IF \E c \in SlavesAt(w, n) : w.conn[c].m = "start" THEN StartBgsave(w2, n, starts) ELSE w2

\* backgroundSaveDoneHandlerDisk
SaveDoneDisk(n, good, starts) ==
  LET p == peer[n]
  IN  /\ p.rdb.type = "disk" /\ (~good \/ ~starts => Can("fail"))
      /\ Becomes(UpdateSlavesWaitingBgsave(SetPeer(World, n, [p EXCEPT !.rdb = NoChild]),
                                           n, p.rdb, good, starts))
      /\ UNCHANGED <<repl, done, waits, toldOf>>

\* rdbSaveToSlavesSockets has sent the RDB to the slaves in ok, and
\* backgroundSaveDoneHandlerSocket closes the connections of the others.
SaveDoneSocket(n, ok, starts) ==
  LET p == peer[n]
      ending == {c \in SlavesAt(World, n) : conn[c].m = "end"}
      w1 == SetPeer(World, n, [p EXCEPT !.rdb = NoChild])
      w2 == [w1 EXCEPT !.conn = [c \in Conns |->
               IF c \in ok /\ ~conn[c].cutoff
               THEN [conn[c] EXCEPT !.chan = Append(@, <<"rdb", p.rdb.data>>)] ELSE conn[c]]]
  IN  /\ p.rdb.type = "socket" /\ ok \subseteq ending
      /\ (ok # ending \/ ~starts => Can("fail"))
      /\ Becomes(UpdateSlavesWaitingBgsave(FreeSlaves(w2, ending \ ok), n, p.rdb, TRUE, starts))
      /\ UNCHANGED <<repl, done, waits, toldOf>>

\* replicationCron starts the BGSAVE that slaves wait for (diskless).
StartWaitingBgsave(n, good) ==
  /\ peer[n].rdb = NoChild /\ \E c \in SlavesAt(World, n) : conn[c].m = "start"
  /\ (~good => Can("fail"))
  /\ Becomes(StartBgsave(World, n, good))
  /\ UNCHANGED <<repl, done, waits, toldOf>>

\* putSlaveOnline: the output that has accumulated follows.
PutSlaveOnline(k) == [Sent(k, k.out) EXCEPT !.m = "online", !.onack = FALSE, !.out = <<>>]

\* sendBulkToSlave until its end.
SendBulkToSlave(c) ==
  LET k == conn[c]
  IN  /\ k.m = "bulk"
      /\ conn' = [conn EXCEPT ![c] = PutSlaveOnline([Sent(k, << <<"rdb", k.snap>> >>) EXCEPT !.snap = <<>>])]
      /\ UNCHANGED <<repl, peer, done, waits, toldOf>>

\* A master drops a slave client: a timeout, or the connection is broken.
FreeSlaveClient(c) ==
  /\ conn[c].m \notin {"gone", "unused"} /\ conn[c].cutoff
  /\ Becomes(FreeSlaves(World, {c}))
  /\ UNCHANGED <<repl, done, waits, toldOf>>

\* replicationCron of a server without slaves: the script cache is flushed, unless
\* the AOF needs it, and after a time (idle) the backlog is freed.
CronWithoutSlaves(n, idle) ==
  LET p == IF idle THEN FreeBacklog(peer[n]) ELSE peer[n]
  IN  /\ SlavesAt(World, n) = {} /\ (idle => Can("forget") /\ peer[n].blog.on)
      /\ peer' = [peer EXCEPT ![n] = [p EXCEPT !.cache = @ /\ Can("aof")]] /\ peer' # peer
      /\ UNCHANGED <<repl, conn, done, waits, toldOf>>

\* CONFIG SET repl-backlog-size empties the backlog.
ResizeReplicationBacklog(n) ==
  /\ Can("forget") /\ peer[n].blog.on /\ peer[n].blog.hist > 0
  /\ peer' = [peer EXCEPT ![n].blog = [NoBacklog EXCEPT !.on = TRUE, !.off = peer[n].off + 1]]
  /\ UNCHANGED <<repl, conn, done, waits, toldOf>>

(***************************************************************************)
(* Slaves.                                                                 *)
(***************************************************************************)
\* connectWithMaster and syncWithMaster up to PSYNC, which the master handles.
ConnectWithMaster(n, c, good) ==
  LET p == peer[n]
      w == [peer |-> [peer EXCEPT ![n] = [p EXCEPT !.st = "handshake", !.link = c]],
            conn |-> [conn EXCEPT ![c] = [NoConn EXCEPT !.slave = n, !.master = p.of]]]
  IN  /\ p.st = "connect" /\ conn[c].m = "unused"
      /\ \A d \in Conns : d < c => conn[d].m # "unused"
      /\ (~good => Can("fail"))
      /\ Becomes(SyncCommand(w, c, FALSE, IF p.cached THEN p.mrun ELSE -1, p.moff + 1, good))
      /\ UNCHANGED <<repl, done, waits, toldOf>>

\* slaveTryPartialResynchronization and syncWithMaster read the answer.  After an
\* error the slave sends SYNC on the same connection, where nobody may read it;
\* its offset is unknown then, and its master's run ID the one it knew before.
PsyncReply(n) ==
  LET p == peer[n]
      x == Head(conn[p.link].chan)
      w == [World EXCEPT !.conn[p.link].chan = Tail(@)]
      full == FullResyncAhead(w, n)
  IN  /\ p.st = "handshake" /\ conn[p.link].chan # <<>>
      /\ Becomes(CASE x[1] = "fullresync" ->
                        SetPeer(full, n, [full.peer[n] EXCEPT !.st = "transfer", !.mrun = x[2],
                                   !.moff = x[3], !.mdb = 0, !.pre = FALSE, !.mage = x[4]])
                   [] x[1] = "continue" ->
                        SetPeer(w, n, ResurrectCachedMaster(p))
                   [] OTHER ->
                        [SetPeer(full, n, [full.peer[n] EXCEPT !.st = "transfer", !.moff = -1,
                                                               !.mdb = 0, !.pre = TRUE])
                         EXCEPT !.conn[p.link].m = IF @ = "refused" THEN "asked" ELSE @])
      /\ UNCHANGED <<repl, done, waits, toldOf>>

\* The master reads that SYNC.
ReadSync(c, good) ==
  /\ conn[c].m = "asked" /\ (~good => Can("fail"))
  /\ Becomes(SyncCommand(World, c, TRUE, -1, 0, good))
  /\ UNCHANGED <<repl, done, waits, toldOf>>

\* cancelReplicationHandshake
CancelHandshake(w, n) ==
  SetPeer(CloseLink(w, w.peer[n].link), n, [w.peer[n] EXCEPT !.st = "connect", !.link = 0])

\* readSyncBulkPayload until the end: the dataset is replaced, by nothing if the RDB
\* cannot be loaded.
ReadSyncBulkPayload(n, good) ==
  LET p == peer[n]
      x == Head(conn[p.link].chan)
      w == [World EXCEPT !.conn[p.link].chan = Tail(@)]
  IN  /\ p.st = "transfer" /\ conn[p.link].chan # <<>>
      /\ (~good => Can("fail") /\ x[1] = "rdb")
      /\ Becomes(CASE x[1] # "rdb" -> CancelHandshake(w, n)
                   [] good -> SetPeer(w, n, [p EXCEPT !.data = x[2], !.st = "connected"])
                   [] OTHER -> CancelHandshake(SetPeer(w, n, [p EXCEPT !.data = <<>>]), n))
      /\ UNCHANGED <<repl, done, waits, toldOf>>

\* readQueryFromClient for the master client: the offset counts what was read;
\* processInputBuffer leaves it in the buffer while clients are paused.
ReadFromMaster(n) ==
  LET p == peer[n]
      in == Append(p.buf, Head(conn[p.link].chan))
      w == [SetPeer(World, n, [p EXCEPT !.moff = @ + 1, !.buf = IF p.paused THEN in ELSE <<>>])
            EXCEPT !.conn[p.link].chan = Tail(@)]
  IN  /\ p.st = "connected" /\ conn[p.link].chan # <<>>
      /\ Becomes(IF p.paused THEN w ELSE ApplyAll(w, n, in))
      /\ UNCHANGED <<repl, done, waits, toldOf>>

\* clientsArePaused: the pause begins, or is over and the input is processed.
PauseClients(n) ==
  /\ Can("pause") /\ ~peer[n].paused /\ peer[n].of # NoMaster
  /\ peer' = [peer EXCEPT ![n].paused = TRUE]
  /\ UNCHANGED <<repl, conn, done, waits, toldOf>>

PauseEnds(n) ==
  LET w == SetPeer(World, n, [peer[n] EXCEPT !.paused = FALSE, !.buf = <<>>])
  IN  /\ peer[n].paused
      /\ Becomes(IF peer[n].st = "connected" THEN ApplyAll(w, n, peer[n].buf)
                 ELSE SetPeer(World, n, [peer[n] EXCEPT !.paused = FALSE]))
      /\ UNCHANGED <<repl, done, waits, toldOf>>

\* replconfCommand, ACK: the slave is really online after a diskless transfer.
ReplconfAck(k, off) ==
  LET k1 == [k EXCEPT !.ack = IF @ < off THEN off ELSE @]
  IN  IF k.onack THEN PutSlaveOnline(k1) ELSE k1

\* replicationSendAck, by replicationCron or for the GETACK of a WAIT; a slave that
\* sent SYNC only answers the latter.
SendAck(n) ==
  LET c == peer[n].link
      k == conn[c]
  IN  /\ peer[n].st = "connected" /\ k.m = "online" /\ ~k.cutoff
      /\ (peer[n].pre => waits.queue # <<>>)
      /\ (k.onack \/ repl.waits > 0) /\ (k.onack \/ k.ack < peer[n].moff)
      /\ conn' = [conn EXCEPT ![c] = ReplconfAck(k, peer[n].moff)]
      /\ UNCHANGED <<repl, peer, done, waits, toldOf>>

\* The slave finds the connection closed, or a timeout passes.
LinkLost(n) ==
  LET p == peer[n]
  IN  /\ p.st \in {"handshake", "transfer", "connected"}
      /\ conn[p.link].chan = <<>> /\ (conn[p.link].cutoff \/ conn[p.link].m = "gone")
      /\ Becomes(IF p.st = "connected" THEN LoseMaster(World, n) ELSE CancelHandshake(World, n))
      /\ UNCHANGED <<repl, done, waits, toldOf>>

\* The network: a connection breaks, with what is on its way.
BreakConnection(c) ==
  /\ conn[c].m # "unused" /\ ~conn[c].cutoff
  /\ done.breaks < repl.breaks /\ done' = [done EXCEPT !.breaks = @ + 1]
  /\ Becomes(CloseLink(World, c))
  /\ UNCHANGED <<repl, waits, toldOf>>

(***************************************************************************)
(* SLAVEOF, and restarts.                                                  *)
(***************************************************************************)
\* replicationSetMaster
ReplicationSetMaster(w, n, m) ==
  LET p == w.peer[n]
      w1 == IF p.link # 0 THEN CloseLink(w, p.link) ELSE w
  IN  SetPeer(FreeSlaves(w1, SlavesAt(w1, n)), n, [FreeBacklog(DiscardCachedMaster(p)) EXCEPT
                                                     !.of = m, !.st = "connect", !.link = 0, !.off = 0,
                                                     !.age = @ + 1])

\* The clients of the first master go with it: a restart, disconnectAllBlockedClients.
Root == CHOOSE n \in Peers : repl.masterOf[n] = NoMaster
NoWaits == [woff |-> {}, queue |-> <<>>]
WaitersGo(n) == waits' = IF n = Root THEN NoWaits ELSE waits

\* slaveofCommand: nothing to do if that is the master already.
SlaveofCommand(n, m) ==
  /\ done.moves = 0 /\ peer[n].of # m
  /\ done' = [done EXCEPT !.moves = 1]
  /\ Becomes(ReplicationSetMaster(World, n, m))
  /\ WaitersGo(n)
  /\ UNCHANGED <<repl, toldOf>>

\* replicationUnsetMaster
UnsetMaster(n) ==
  LET p == peer[n]
      w1 == IF p.link # 0 THEN CloseLink(World, p.link) ELSE World
      p1 == IF p.st = "connected" /\ SlavesAt(World, n) = {}
            THEN [FreeBacklog(p) EXCEPT !.off = p.moff, !.age = @ + 1] ELSE p
  IN  /\ Can("noone") /\ p.of # NoMaster /\ done.moves = 0
      /\ done' = [done EXCEPT !.moves = 1]
      /\ Becomes(SetPeer(w1, n, [DiscardCachedMaster(p1) EXCEPT !.of = NoMaster, !.st = "none",
                                                                !.link = 0]))
      /\ UNCHANGED <<repl, waits, toldOf>>

\* A server restarts with its dataset, a new run ID and nothing else.
RestartPeer(n) ==
  LET w1 == FreeSlaves(World, ClientsAt(World, n))
      w2 == IF peer[n].link # 0 THEN CloseLink(w1, peer[n].link) ELSE w1
  IN  /\ Can("restart") /\ done.moves = 0 /\ done' = [done EXCEPT !.moves = 1]
      /\ Becomes(SetPeer(w2, n, NewPeer(peer[n].of, peer[n].run + 10, peer[n].data)))
      /\ WaitersGo(n)
      /\ UNCHANGED <<repl, toldOf>>

(***************************************************************************)
(* WAIT.                                                                   *)
(***************************************************************************)
\* Mutant: slaves that are one command behind are counted.
CountAcksOffByOne(off) ==
  Cardinality({c \in SlavesAt(World, Root) : conn[c].m = "online" /\ conn[c].ack + 1 >= off})

\* replicationCountAcksByOffset
Acknowledged(off) == {c \in SlavesAt(World, Root) : conn[c].m = "online" /\ conn[c].ack >= off}
CountAcks(off) == Cardinality(Acknowledged(off))

\* Slave n resumed the stream where its offset means something else: it took the
\* offset from a SYNC, or its master has begun to count anew since.
Misled(n) ==
  LET k == conn[peer[n].link]
  IN  IF peer[n].pre THEN ~k.pre ELSE peer[n].mage # peer[k.master].age

\* What has reached slave n, whether it was processed or waits for the end of a pause.
Received(n, id) ==
  \/ \E i \in 1..Len(peer[n].data) : peer[n].data[i][2] = id
  \/ \E i \in 1..Len(peer[n].buf) : Len(peer[n].buf[i]) = 2 /\ peer[n].buf[i][2] = id /\ peer[n].buf[i][1] # "select"

\* The answer is larger than the number of clients that acknowledged and whose slave
\* has the write, or is on another connection by now, or is misled.
Overstated(x, answer) ==
  x.off > 0 /\ answer > Cardinality({c \in Acknowledged(x.off) :
     LET n == conn[c].slave
     IN  Received(n, x.id) \/ peer[n].link # c \/ Misled(n)})

\* waitCommand of the client that made write x.id
WaitCommand(x, num) ==
  LET acks == CountAcks(x.off)
  IN  /\ done.waits < repl.waits /\ done' = [done EXCEPT !.waits = @ + 1]
      /\ toldOf' = (toldOf \/ (acks >= num /\ Overstated(x, acks)))
      /\ waits' = [woff |-> waits.woff \ {x},
                   queue |-> IF acks >= num THEN waits.queue
                             ELSE Append(waits.queue, [id |-> x.id, off |-> x.off, num |-> num])]
      /\ UNCHANGED <<repl, peer, conn>>

\* processClientsWaitingReplicas.  A client that asks for less than one answered
\* before it gets the same number without being counted.
ProcessClientsWaitingReplicas ==
  LET step(r, x) ==
        LET acks == CountAcks(x.off)
            same == r.off # 0 /\ r.off > x.off /\ r.num > x.num
        IN  CASE same -> [r EXCEPT !.wrong = @ \/ Overstated(x, r.num)]
              [] acks >= x.num -> [r EXCEPT !.off = x.off, !.num = acks, !.wrong = @ \/ Overstated(x, acks)]
              [] OTHER -> [r EXCEPT !.left = Append(@, x)]
      end == FoldLeft(step, [off |-> 0, num |-> 0, wrong |-> FALSE, left |-> <<>>], waits.queue)
  IN  /\ end.left # waits.queue
      /\ waits' = [waits EXCEPT !.queue = end.left]
      /\ toldOf' = (toldOf \/ end.wrong)
      /\ UNCHANGED <<repl, peer, conn, done>>

\* replyToBlockedClientTimedOut
WaitTimedOut(i) ==
  LET x == waits.queue[i]
  IN  /\ waits' = [waits EXCEPT !.queue = RemoveAt(@, i)]
      /\ toldOf' = (toldOf \/ Overstated(x, CountAcks(x.off)))
      /\ UNCHANGED <<repl, peer, conn, done>>

(***************************************************************************)
(* The specification.                                                      *)
(***************************************************************************)
ReplInit ==
  /\ repl \in ReplSetups
  /\ LET ids == CHOOSE f \in [Peers -> 1..Cardinality(Peers)] : IsInjective(f)
     IN  peer = [n \in Peers |-> NewPeer(repl.masterOf[n], ids[n], <<>>)]
  /\ conn = [c \in Conns |-> NoConn]
  /\ done = [writes |-> 0, breaks |-> 0, pings |-> 0, saves |-> 0, moves |-> 0, waits |-> 0]
  /\ waits = NoWaits /\ toldOf = FALSE

ReplNext ==
  \/ \E n \in Peers :
       \/ \E db \in {0, 1} : WriteCommand(n, db)
       \/ PingSlaves(n) \/ BgsaveCommand(n)
       \/ \E good, starts \in BOOLEAN : SaveDoneDisk(n, good, starts)
       \/ \E ok \in SUBSET Conns, starts \in BOOLEAN : SaveDoneSocket(n, ok, starts)
       \/ \E good \in BOOLEAN : StartWaitingBgsave(n, good) \/ ReadSyncBulkPayload(n, good)
       \/ \E idle \in BOOLEAN : CronWithoutSlaves(n, idle)
       \/ ResizeReplicationBacklog(n)
       \/ \E c \in Conns, good \in BOOLEAN : ConnectWithMaster(n, c, good)
       \/ PsyncReply(n) \/ ReadFromMaster(n)
       \/ PauseClients(n) \/ PauseEnds(n) \/ LinkLost(n)
       \/ (peer[n].link # 0 /\ SendAck(n))
       \/ UnsetMaster(n) \/ RestartPeer(n)
  \/ \E x \in repl.slaveof : SlaveofCommand(x[1], x[2])
  \/ \E c \in Conns : SendBulkToSlave(c) \/ FreeSlaveClient(c) \/ BreakConnection(c)
  \/ \E c \in Conns, good \in BOOLEAN : ReadSync(c, good)
  \/ \E x \in waits.woff, num \in 1..Cardinality(Peers) - 1 : WaitCommand(x, num)
  \/ ProcessClientsWaitingReplicas
  \/ \E i \in 1..Len(waits.queue) : WaitTimedOut(i)

(***************************************************************************)
(* Properties.                                                             *)
(***************************************************************************)
\* What a connected slave has, followed by what is in its buffers and on its
\* way, is exactly its master's dataset: nothing is lost, repeated or put into
\* another database by full and partial resynchronisations, slaves that join
\* a BGSAVE, BGSAVEs that do not start, RDBs that do not load, a slave that falls
\* back to SYNC, a backlog that was freed, resized or has wrapped, the SELECTs
\* that replicationFeedSlaves leaves out, and the script cache.  The exception are
\* slaves the code itself misleads (Misled): one whose master client was made by
\* SYNC keeps the run ID of an earlier PSYNC and counts from -1 (replication.c:954-960,
\* 1272, 1548), yet is cached and asks for a partial resynchronisation; and one
\* whose master was made a slave and counts from 0 again under the same run ID
\* (replication.c:1685).
StreamCompletesSlave ==
  \A n \in Peers :
    LET p == peer[n]
        k == conn[p.link]
        rest == p.buf \o k.chan \o k.out
    IN  (p.st = "connected" /\ k.m = "online" /\ ~k.cutoff /\ ~Misled(n)) =>
          ApplyAll(World, n, rest).peer[n].data = peer[k.master].data

\* WAIT never answers with a number larger than that of the slaves that have the
\* write: with several clients that wait for different writes and numbers, slaves
\* that join, leave and pause, restarts and timeouts.  A slave whose clients are
\* paused acknowledges what it has not processed (networking.c:1264, 1348), so having
\* received the write counts.  The other exceptions: a slave that has reconnected
\* is counted once more until the master notices; slaves that were misled; and writes
\* made before there was a backlog have offset zero, which a slave that is sent its
\* first RDB already counts as having acknowledged.
WaitTellsTheTruth == ~toldOf
=============================================================================
