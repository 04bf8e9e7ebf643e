------------------------------ MODULE Sentinel ------------------------------
(***************************************************************************)
(* Redis Sentinel (sentinel.c): a group of sentinels that watch one master *)
(* and its slaves, agree that the master is down, elect one of themselves  *)
(* per epoch, and let it promote a slave.  A sentinel is one thread: every *)
(* action below is one handler run to its end (the timer, a callback of a  *)
(* connection, a command), and time is a free choice: whether a period or  *)
(* a timeout has passed is decided by \E.  What a sentinel saves with      *)
(* sentinelFlushConfig is in the field disk of its record; a crash leaves  *)
(* that and nothing else.                                                  *)
(***************************************************************************)
EXTENDS Election, SequencesExt

CONSTANTS Group,         \* the sentinels
          Redis,         \* the Redis instances (their addresses)
          FirstMaster,   \* the address the configuration monitors
          Priority,      \* slave_priority of each instance, 0 = never promote
          ParallelSyncs, \* slaves reconfigured at the same time
          Setups         \* where to begin and what may happen, see below

(***************************************************************************)
(* A setup is a record:                                                    *)
(*   group     the sentinels that take part                                *)
(*   after     "nothing": the sentinels have just been configured;         *)
(*             "switch": one has failed over to a slave; now the slaves    *)
(*             are down and the old master is back; "unfinished": so, but  *)
(*             the leader has not ended that failover                      *)
(*   leader    the one that led that failover                              *)
(*   behind    the sentinels that have not heard of that failover, less    *)
(*             than half of the group: a majority has voted for the leader *)
(*   patient   those whose down_after_period never runs out                *)
(*   heard     the sentinels whose hellos arrive                           *)
(*   lossy     whether answers get lost or too old                         *)
(*   epochs    bound: failovers are not started past this epoch            *)
(*   may       what may happen besides, <<what, whom>>: sentinels crash    *)
(*             or tilt, instances go down or up, the administrator resets  *)
(*             or forces a failover, another master fails over             *)
(*   faults    bound: how many of these happen                             *)
(***************************************************************************)

ASSUME SentinelAssumption ==
  /\ Group \subseteq Sentinels
  /\ FirstMaster \in Redis /\ Nil \notin Redis
  /\ ParallelSyncs \in Nat \ {0}
  /\ Priority \in [Redis -> Nat]
  /\ \A c \in Setups :
       /\ c.group \subseteq Group /\ c.leader \in c.group /\ c.behind \subseteq c.group \ {c.leader}
       /\ 2 * Cardinality(c.behind) < Cardinality(c.group)
       /\ c.patient \subseteq c.group /\ c.heard \subseteq c.group /\ c.lossy \in BOOLEAN
       /\ c.after \in {"nothing", "switch", "unfinished"} /\ c.faults \in Nat
       /\ c.epochs \in 0..MaxEpoch /\ (c.after # "nothing" => MaxEpoch > 0)
       /\ c.may \subseteq {"crash", "tilt", "reset", "failover", "othermaster"} \X c.group
                     \cup {"down", "up"} \X Redis

VARIABLES setup,    \* the setup; it never changes
          sent,     \* each sentinel's record, below
          link,     \* link[s][t]: the question of s to t on its way, or Nil
          hello,    \* the hello on its way, to any number of readers, or Nil
          replOf,   \* the master each Redis instance replicates, Nil = none
          down,     \* the Redis instances that do not answer
          orders,   \* SLAVEOF commands on their way: <<instance, master>>
          faults,   \* faults so far
          meddled,  \* administrator commands so far
          cast,     \* history: votes <<voter, epoch, candidate>>
          won,      \* history: the unforced elections won, see Win
          crossed   \* history: the sentinels whose epoch and master may no longer
                    \* belong together: they took over the epoch of a newer
                    \* configuration in the middle of a failover of their own, or
                    \* were reset between a promotion and its end

sentinelVars == <<setup, sent, link, hello, replOf, down, orders, faults, meddled,
                  cast, won, crossed>>

SendSlaveOfNoOne == 3
WaitPromotion == 4
ReconfSlaves == 5
UpdateConfig == 6

(***************************************************************************)
(* The record of a sentinel; its votes are those of module Election.       *)
(***************************************************************************)
\* sentinelGetCurrentMasterAddress: the promoted slave once it obeyed.
CurrentMasterAddress(st) ==
  IF "inprog" \in st.flags /\ st.promoted # Nil /\ st.foState >= ReconfSlaves
  THEN st.promoted ELSE st.addr

\* What rewriteConfigSentinelOption writes: the leader itself is not saved.
\* Mutant: the monitored address is written, not the promoted slave's.
ConfigOldAddress(st) ==
  [epoch |-> st.epoch, addr |-> st.addr, configEpoch |-> st.configEpoch,
   leaderEpoch |-> st.leaderEpoch, slaves |-> DOMAIN st.slaves,
   peers |-> DOMAIN st.peers]

Config(st) ==
  LET a == CurrentMasterAddress(st) IN
  [epoch |-> st.epoch, addr |-> a, configEpoch |-> st.configEpoch,
   leaderEpoch |-> st.leaderEpoch,
   slaves |-> {IF i = a THEN st.addr ELSE i : i \in DOMAIN st.slaves},
   peers |-> DOMAIN st.peers]

FlushConfig(st) == [st EXCEPT !.disk = Config(st)]

\* sentinelVoteLeader, which saves what it changed.
SentinelVote(s, st, req, cand) ==
  LET v == VoteLeader(s, st, req, cand) IN IF v = st THEN st ELSE FlushConfig(v)

\* createSentinelRedisInstance for every line of a configuration file.
Loaded(c) ==
  [epoch |-> c.epoch, addr |-> c.addr, configEpoch |-> c.configEpoch,
   leader |-> Nil, leaderEpoch |-> c.leaderEpoch,
   foEpoch |-> 0, foState |-> None, promoted |-> Nil,
   flags |-> {}, delayed |-> FALSE, saysSlave |-> FALSE,
   slaves |-> [i \in c.slaves |-> {}], peers |-> [t \in c.peers |-> NewPeer],
   tilt |-> FALSE, disk |-> c]

FirstConfig(s) ==
  [epoch |-> 0, addr |-> FirstMaster, configEpoch |-> 0, leaderEpoch |-> 0,
   slaves |-> Redis \ {FirstMaster}, peers |-> setup.group \ {s}]

\* sentinelResetMaster; keepPeers is SENTINEL_RESET_NO_SENTINELS.
ResetMaster(st, keepPeers) ==
  [st EXCEPT !.slaves = <<>>, !.peers = IF keepPeers THEN st.peers ELSE <<>>,
             !.flags = {}, !.leader = Nil, !.foState = None,
             !.delayed = FALSE, !.promoted = Nil, !.saysSlave = FALSE]

\* sentinelResetMasterAndChangeAddress: the old master becomes a slave.
ResetMasterAndChangeAddress(st, a) ==
  LET back == (DOMAIN st.slaves \cup {st.addr}) \ {a}
  IN  FlushConfig([ResetMaster(st, TRUE) EXCEPT
                     !.addr = a, !.slaves = [i \in back |-> {}]])

(***************************************************************************)
(* The timer.  now is what the clock says: late (instances that do not     *)
(* answer have been silent for down_after_period), waited (the delay       *)
(* between two failovers is over), expired (the timeout of the failover    *)
(* state passed), slow (SENTINEL_SLAVE_RECONF_TIMEOUT passed), stale (the  *)
(* peers whose answer is too old), fit (the slaves whose INFO and link are    *)
(* recent), pick and front (which of equals is met first).                 *)
(***************************************************************************)
SetFlag(st, f, on) ==
  [st EXCEPT !.flags = IF on THEN @ \cup {f} ELSE @ \ {f}]

\* A silent master, or one that has said for long that it is a slave.
CheckSubjectivelyDown(st, now) ==
  [SetFlag(st, "sdown", now.late /\ (st.addr \in down \/ st.saysSlave))
   EXCEPT !.slaves = [i \in DOMAIN st.slaves |->
                        IF now.late /\ i \in down
                        THEN st.slaves[i] \cup {"sdown"}
                        ELSE st.slaves[i] \ {"sdown"}]]

CheckObjectivelyDown(st) ==
  SetFlag(st, "odown",
          /\ "sdown" \in st.flags
          /\ 1 + Cardinality({t \in DOMAIN st.peers : st.peers[t].masterDown})
               >= SentinelQuorum)

Startable(st) ==
  /\ "odown" \in st.flags /\ "inprog" \notin st.flags /\ ~st.delayed
  /\ st.epoch < setup.epochs

\* sentinelStartFailoverIfNeeded
StartFailoverIfNeeded(st) == IF Startable(st) THEN StartFailover(st) ELSE st

\* Mutant: the promoted slave is not released.
AbortKeepsPromoted(st) ==
  [st EXCEPT !.flags = @ \ {"inprog", "force"}, !.foState = None]

AbortFailover(st) ==
  [st EXCEPT !.flags = @ \ {"inprog", "force"}, !.foState = None,
             !.promoted = Nil,
             !.slaves = [i \in DOMAIN st.slaves |->
                           st.slaves[i] \ {"promoted"}]]

\* The steps of the failover return the new record and the SLAVEOF commands
\* they send (sentinelSendSlaveOf).
Quietly(st) == [st |-> st, out |-> {}]

FailoverWaitStart(s, st, now) ==
  LET v == SentinelVote(s, st, st.foEpoch, IF now.front = Nil THEN s ELSE now.front)
      isleader == Winner(v, st.foEpoch, now.front) = s
  IN  Quietly(IF isleader \/ "force" \in v.flags
              THEN [v EXCEPT !.foState = SelectSlave]
              ELSE IF now.expired THEN AbortFailover(v) ELSE v)

\* sentinelSelectSlave with compareSlavesForPromotion: the lowest priority
\* first; offsets and run ids are not kept, so any of the best may be first.
Suitable(st, now) ==
  LET ok == {i \in now.fit \cap DOMAIN st.slaves :
               "sdown" \notin st.slaves[i] /\ Priority[i] # 0}
  IN  {i \in ok : \A j \in ok : Priority[i] <= Priority[j]}

FailoverSelectSlave(st, now) ==
  Quietly(IF Suitable(st, now) = {} THEN AbortFailover(st)
          ELSE [st EXCEPT !.promoted = now.pick,
                          !.foState = SendSlaveOfNoOne,
                          !.slaves = [st.slaves EXCEPT
                                        ![now.pick] = @ \cup {"promoted"}]])

FailoverSendSlaveOfNoOne(st, now) ==
  IF st.promoted \in down
  THEN Quietly(IF now.expired THEN AbortFailover(st) ELSE st)
  ELSE [st |-> [st EXCEPT !.foState = WaitPromotion],
        out |-> {<<st.promoted, Nil>>}]

FailoverWaitPromotion(st, now) ==
  Quietly(IF now.expired THEN AbortFailover(st) ELSE st)

\* sentinelFailoverDetectEnd: once no reachable slave is left, or on a
\* timeout, when every slave that was not sent the command gets it, the
\* promoted one included.
FailoverDetectEnd(r, now) ==
  LET st == r.st
      left == {i \in DOMAIN st.slaves :
                 st.slaves[i] \cap {"promoted", "done", "sdown"} = {}}
      rest == IF now.expired
              THEN {i \in DOMAIN st.slaves \ down :
                      st.slaves[i] \cap {"done", "sent"} = {}}
              ELSE {}
  IN  IF "sdown" \in st.slaves[st.promoted] THEN r
      ELSE [st |-> [st EXCEPT
                      !.foState = IF left = {} \/ now.expired
                                  THEN UpdateConfig ELSE @,
                      !.slaves = [i \in DOMAIN st.slaves |->
                        IF i \in rest THEN st.slaves[i] \cup {"sent"}
                        ELSE st.slaves[i]]],
            out |-> r.out \cup {<<i, st.promoted>> : i \in rest}]

\* What the loop of sentinelFailoverReconfNextSlave makes of a slave's flags.
Overdue(f, now) == IF "sent" \in f /\ now.slow THEN (f \ {"sent"}) \cup {"done"} ELSE f

\* sentinelFailoverReconfNextSlave: one slave after the other, while those sent
\* the command before leave room for another (turn); told are those who get it.
FailoverReconfNextSlave(st, now) ==
  LET order == SetToSeq(DOMAIN st.slaves)
      busy == {i \in DOMAIN st.slaves : st.slaves[i] \cap {"sent", "reconf"} # {}}
      todo == {k \in DOMAIN order : st.slaves[order[k]] \cap {"promoted", "done"} = {}}
      ready == {k \in todo : /\ Overdue(st.slaves[order[k]], now) \cap {"sent", "reconf"} = {}
                             /\ order[k] \notin down}
      turn == {k \in todo :
                 Cardinality(busy) + Cardinality({j \in ready : j < k}) < ParallelSyncs}
      met == {order[k] : k \in turn}
      told == {order[k] : k \in turn \cap ready}
      slaves == [i \in DOMAIN st.slaves |->
                   (IF i \in met THEN Overdue(st.slaves[i], now) ELSE st.slaves[i])
                   \cup (IF i \in told THEN {"sent"} ELSE {})]
  IN  FailoverDetectEnd([st |-> [st EXCEPT !.slaves = slaves],
                         out |-> {<<i, st.promoted>> : i \in told}], now)

\* sentinelFailoverStateMachine
FailoverStateMachine(s, st, now) ==
  IF "inprog" \notin st.flags THEN Quietly(st)
  ELSE CASE st.foState = WaitStart -> FailoverWaitStart(s, st, now)
         [] st.foState = SelectSlave -> FailoverSelectSlave(st, now)
         [] st.foState = SendSlaveOfNoOne -> FailoverSendSlaveOfNoOne(st, now)
         [] st.foState = WaitPromotion -> FailoverWaitPromotion(st, now)
         [] st.foState = ReconfSlaves -> FailoverReconfNextSlave(st, now)
         [] OTHER -> Quietly(st)

\* sentinelFailoverSwitchToPromotedSlave, at the end of the timer.
SwitchToPromotedSlave(st) ==
  IF st.foState = UpdateConfig
  THEN ResetMasterAndChangeAddress(st, IF st.promoted = Nil THEN st.addr
                                       ELSE st.promoted)
  ELSE st

\* sentinelAskMasterStateToOtherSentinels: old answers are forgotten; peers
\* with no question under way are asked, for a vote during a failover.
Question(s, st) ==
  [addr |-> st.addr, epoch |-> st.epoch,
   cand |-> IF st.foState > None THEN s ELSE Nil]

Asked(s, st, links) ==
  [t \in Group |->
     IF "sdown" \in st.flags /\ t \in DOMAIN st.peers /\ links[t] = Nil
     THEN Question(s, st) ELSE links[t]]

(***************************************************************************)
(* The actions.  Put writes the record of s, and notes a new vote.         *)
(***************************************************************************)
Put(s, st) ==
  /\ sent' = [sent EXCEPT ![s] = st]
  /\ cast' = cast \cup Ballot(s, sent[s], st)

Fault(what, whom) ==
  <<what, whom>> \in setup.may /\ faults < setup.faults /\ faults' = faults + 1

\* Silence lasts until the instance answers: once noticed it stays noticed.
Silence(s, st) ==
  CASE s \in setup.patient \/ (down = {} /\ ~st.saysSlave) -> {FALSE}
    [] "sdown" \in st.flags -> {TRUE}
    [] OTHER -> BOOLEAN

\* The peers that are not being asked, or have not answered: only their last
\* answer can be older than five periods.
Unheard(s) ==
  {t \in DOMAIN sent[s].peers :
     /\ sent[s].peers[t].masterDown \/ sent[s].peers[t].leader # Nil
     /\ "sdown" \notin sent[s].flags \/ link[s][t] # Nil}

\* sentinelTimer: sentinelHandleRedisInstance for the master and its slaves,
\* outside TILT (which ends here), and the switch to the promoted slave.
Tick(s) ==
  \E late \in Silence(s, sent[s]),
     waited \in When(sent[s].delayed /\ sent[s].foState = None),
     expired \in When(sent[s].foState \in WaitStart..ReconfSlaves),
     slow \in When(sent[s].foState = ReconfSlaves),
     stale \in IF setup.lossy THEN SUBSET Unheard(s) ELSE {{}},
     fit \in IF sent[s].foState = SelectSlave
             THEN SUBSET DOMAIN sent[s].slaves ELSE {{}} :
  LET clock == [late |-> late, expired |-> expired, slow |-> slow,
                stale |-> stale, fit |-> fit]
      st1 == CheckSubjectivelyDown(
               [sent[s] EXCEPT !.tilt = FALSE,
                               !.delayed = sent[s].delayed /\ ~waited], clock)
      st2 == CheckObjectivelyDown(st1)
      st3 == StartFailoverIfNeeded(st2)
      links == IF Startable(st2) THEN Asked(s, st3, link[s]) ELSE link[s]
      fronts == IF st3.foState = WaitStart /\ MostVoted(st3) # {}
                THEN MostVoted(st3) ELSE {Nil}
      picks == IF st3.foState = SelectSlave /\ Suitable(st3, clock) # {}
               THEN Suitable(st3, clock) ELSE {Nil}
  IN  \E front \in fronts, pick \in picks :
        LET now == [late |-> late, expired |-> expired, slow |-> slow,
                    stale |-> stale, fit |-> fit, front |-> front,
                    pick |-> pick]
            r == FailoverStateMachine(s, st3, now)
            st4 == ForgetStale(r.st, stale)
        IN  /\ Put(s, SwitchToPromotedSlave(st4))
            /\ link' = [link EXCEPT ![s] = Asked(s, st4, links)]
            /\ orders' = orders \cup r.out
            /\ won' = IF /\ st3.foState = WaitStart
                         /\ r.st.foState = SelectSlave
                         /\ "force" \notin st3.flags
                      THEN won \cup {Win(s, r.st)} ELSE won
            /\ UNCHANGED <<setup, hello, replOf, down, faults, meddled, crossed>>

\* SENTINEL is-master-down-by-addr at t, asked by q: the vote and the answer.
Answer(t, q) ==
  LET known == q.addr = sent[t].addr
      wants == known /\ q.cand # Nil
      v == IF wants THEN SentinelVote(t, sent[t], q.epoch, q.cand)
           ELSE sent[t]
  IN  [st |-> v, leader |-> IF wants THEN v.leader ELSE Nil,
       epoch |-> IF wants THEN v.leaderEpoch ELSE 0,
       isdown |-> ~sent[t].tilt /\ known /\ "sdown" \in sent[t].flags]

\* A question arrives, late or not.  Its answer comes back or is lost: an
\* answer that comes too late tells s of a vote of an epoch it has left, which
\* sentinelGetLeader does not count, so it is a lost one.
IsMasterDownByAddr(s, t, lost) ==
  /\ link[s][t] # Nil /\ (lost => setup.lossy)
  /\ LET a == Answer(t, link[s][t]) IN
     /\ sent' = [sent EXCEPT ![t] = a.st,
                   ![s] = IF lost THEN sent[s]
                          ELSE MasterDownReply(sent[s], t, a)]
     /\ cast' = cast \cup Ballot(t, sent[t], a.st)
  /\ link' = [link EXCEPT ![s] = [link[s] EXCEPT ![t] = Nil]]
  /\ UNCHANGED <<setup, hello, replOf, down, orders, faults, meddled, won, crossed>>

\* sentinelSendHello publishes the epoch and the configuration of s.
SendHello(s) ==
  /\ s \in setup.heard
  /\ hello' = [from |-> s, epoch |-> sent[s].epoch,
                addr |-> CurrentMasterAddress(sent[s]),
                configEpoch |-> sent[s].configEpoch]
  /\ hello' # hello
  /\ UNCHANGED <<setup, sent, link, replOf, down, orders, faults, meddled, cast, won, crossed>>

\* Mutant: any other configuration is taken over, older ones too.
HelloAnyConfig(t, m) ==
  LET st == sent[t]
      st1 == IF m.epoch > st.epoch
             THEN FlushConfig([st EXCEPT !.epoch = m.epoch]) ELSE st
      st2 == [st1 EXCEPT !.configEpoch = m.configEpoch]
  IN  IF m.addr = st2.addr THEN st2
      ELSE ResetMasterAndChangeAddress(st2, m.addr)

\* sentinelProcessHelloMessage at t: a sentinel is met, a newer epoch and a
\* newer configuration are taken over.
Hello(t, m) ==
  LET st == sent[t]
      met == IF m.from \in DOMAIN st.peers THEN st
             ELSE FlushConfig([st EXCEPT !.peers =
                    [p \in DOMAIN st.peers \cup {m.from} |->
                       IF p = m.from THEN NewPeer ELSE st.peers[p]]])
      st1 == IF m.epoch > met.epoch
             THEN FlushConfig([met EXCEPT !.epoch = m.epoch]) ELSE met
  IN  IF st1.configEpoch >= m.configEpoch THEN st1
      ELSE LET st2 == [st1 EXCEPT !.configEpoch = m.configEpoch]
           IN  IF m.addr = st2.addr THEN st2
               ELSE ResetMasterAndChangeAddress(st2, m.addr)

ProcessHello(t) ==
  /\ hello # Nil /\ hello.from # t
  /\ Put(t, Hello(t, hello)) /\ sent' # sent
  /\ crossed' = IF /\ hello.configEpoch > sent[t].configEpoch
                   /\ hello.addr = sent[t].addr /\ "inprog" \in sent[t].flags
                THEN crossed \cup {t} ELSE crossed
  /\ UNCHANGED <<setup, link, hello, replOf, down, orders, faults, meddled, won>>

(***************************************************************************)
(* sentinelRefreshInstanceInfo: the INFO of instance i, taken as i is now. *)
(* long: the waits before an instance is corrected have passed.            *)
(***************************************************************************)
SlavesSeen(st, i) ==
  LET new == {j \in Redis \ down : replOf[j] = i /\ j # i} \ DOMAIN st.slaves
  IN  IF new = {} THEN st
      ELSE FlushConfig([st EXCEPT !.slaves =
             [j \in DOMAIN st.slaves \cup new |->
                IF j \in new THEN {} ELSE st.slaves[j]]])

MasterInfo(st) ==
  [SlavesSeen(st, st.addr) EXCEPT !.saysSlave = replOf[st.addr] # Nil]

\* The leader's promoted slave says it is a master: the configuration gets
\* the epoch of the election.
Promoted(st) ==
  FlushConfig([st EXCEPT !.configEpoch = st.foEpoch, !.foState = ReconfSlaves])

MasterLooksSane(st) == ~st.saysSlave /\ st.flags \cap {"sdown", "odown"} = {}

ReconfProgress(st, i) ==
  LET f == st.slaves[i]
      g == IF "sent" \in f /\ replOf[i] = st.promoted
           THEN (f \ {"sent"}) \cup {"reconf"} ELSE f
      h == IF "reconf" \in g /\ replOf[i] \notin down
           THEN (g \ {"reconf"}) \cup {"done"} ELSE g
  IN  [st EXCEPT !.slaves = [st.slaves EXCEPT ![i] = h]]

RefreshInstanceInfo(s, i, long) ==
  LET st == sent[s] IN
  /\ i \notin down
  /\ \/ /\ i = st.addr
        /\ Put(s, MasterInfo(st)) /\ orders' = orders
     \/ /\ i \in DOMAIN st.slaves /\ ~st.tilt /\ replOf[i] = Nil
        /\ IF /\ "promoted" \in st.slaves[i] /\ "inprog" \in st.flags
              /\ st.foState = WaitPromotion
           THEN Put(s, Promoted(st)) /\ orders' = orders
           ELSE /\ "promoted" \notin st.slaves[i] /\ MasterLooksSane(st) /\ long
                /\ orders' = orders \cup {<<i, st.addr>>}
                /\ UNCHANGED <<sent, cast>>
     \/ /\ i \in DOMAIN st.slaves /\ ~st.tilt /\ replOf[i] # Nil
        /\ orders' = IF replOf[i] # st.addr /\ MasterLooksSane(st) /\ long
                     THEN orders \cup {<<i, st.addr>>} ELSE orders
        /\ Put(s, ReconfProgress(st, i))
  /\ <<sent', orders'>> # <<sent, orders>>
  /\ UNCHANGED <<setup, link, hello, replOf, down, faults, meddled, won, crossed>>

(***************************************************************************)
(* The world: Redis instances obey SLAVEOF, stop and come back; a sentinel *)
(* crashes and restarts from its file, or its clock jumps; an              *)
(* administrator resets or forces; a failover of another master moves the  *)
(* epoch, which all masters share.                                         *)
(***************************************************************************)
Obey(o) ==
  /\ o \in orders /\ o[1] \notin down
  /\ replOf' = [replOf EXCEPT ![o[1]] = o[2]]
  /\ orders' = orders \ {o}
  /\ UNCHANGED <<setup, sent, link, hello, down, faults, meddled, cast, won, crossed>>

InstanceDown(i) ==
  /\ i \notin down /\ Fault("down", i)
  /\ down' = down \cup {i}
  /\ orders' = {o \in orders : o[1] # i}
  /\ UNCHANGED <<setup, sent, link, hello, replOf, meddled, cast, won, crossed>>

\* CONFIG REWRITE made the role survive the restart.
InstanceUp(i) ==
  /\ i \in down /\ Fault("up", i)
  /\ down' = down \ {i}
  /\ UNCHANGED <<setup, sent, link, hello, replOf, orders, meddled, cast, won, crossed>>

CutLinks(s) ==
  [a \in Group |-> [b \in Group |->
     IF a = s \/ b = s THEN Nil ELSE link[a][b]]]

CrashAndRestart(s) ==
  /\ Fault("crash", s)
  /\ sent' = [sent EXCEPT ![s] = Loaded(sent[s].disk)]
  /\ link' = CutLinks(s)
  /\ UNCHANGED <<setup, hello, replOf, down, orders, meddled, cast, won, crossed>>

\* sentinelCheckTiltCondition: the timer does nothing until it is over.
CheckTiltCondition(s) ==
  /\ ~sent[s].tilt /\ Fault("tilt", s)
  /\ Put(s, [sent[s] EXCEPT !.tilt = TRUE])
  /\ UNCHANGED <<setup, link, hello, replOf, down, orders, meddled, won, crossed>>

\* SENTINEL RESET
Reset(s) ==
  /\ Fault("reset", s)
  /\ Put(s, ResetMaster(sent[s], FALSE))
  /\ meddled' = meddled \cup {"reset"}
  /\ link' = [link EXCEPT ![s] = [t \in Group |-> Nil]]
  /\ crossed' = IF CurrentMasterAddress(sent[s]) # sent[s].addr
                THEN crossed \cup {s} ELSE crossed
  /\ UNCHANGED <<setup, hello, replOf, down, orders, won>>

\* SENTINEL FAILOVER
ForceFailover(s) ==
  /\ Fault("failover", s)
  /\ "inprog" \notin sent[s].flags /\ sent[s].epoch < setup.epochs
  /\ Suitable(sent[s], [fit |-> DOMAIN sent[s].slaves]) # {}
  /\ Put(s, [StartFailover(sent[s]) EXCEPT !.flags = @ \cup {"force"}])
  /\ meddled' = meddled \cup {"failover"}
  /\ UNCHANGED <<setup, link, hello, replOf, down, orders, won, crossed>>

\* StartFailover and the vote of s for another master of its table.
OtherMasterFailover(s) ==
  /\ Fault("othermaster", s)
  /\ sent[s].epoch < setup.epochs
  /\ Put(s, FlushConfig([sent[s] EXCEPT !.epoch = @ + 1]))
  /\ UNCHANGED <<setup, link, hello, replOf, down, orders, meddled, won, crossed>>

\* The file of a sentinel that knows of the failover to p, and the record of
\* one that led it and has not ended it.
SwitchedConfig(s, p) ==
  [epoch |-> 1, addr |-> p, configEpoch |-> 1, leaderEpoch |-> 1,
   slaves |-> Redis \ {p}, peers |-> setup.group \ {s}]

Unfinished(s, p) ==
  [Loaded(SwitchedConfig(s, p)) EXCEPT
     !.addr = FirstMaster, !.leader = s, !.foEpoch = 1, !.foState = ReconfSlaves,
     !.promoted = p, !.flags = {"inprog"}, !.delayed = TRUE,
     !.slaves = [i \in Redis \ {FirstMaster} |-> IF i = p THEN {"promoted"} ELSE {}]]

JustConfigured ==
  /\ setup.after = "nothing"
  /\ sent = [s \in Group |-> Loaded(FirstConfig(s))]
  /\ down \in {{}, {FirstMaster}} /\ cast = {} /\ won = {}
  /\ replOf = [i \in Redis |-> IF i = FirstMaster THEN Nil ELSE FirstMaster]

\* Leader l has failed over to p, and the others but those behind restarted since.
Switched(l, p) ==
  /\ setup.after # "nothing"
  /\ sent = [s \in Group |->
               IF s \in setup.behind \/ s \notin setup.group THEN Loaded(FirstConfig(s))
               ELSE IF s = l /\ setup.after = "unfinished" THEN Unfinished(l, p)
               ELSE Loaded(SwitchedConfig(s, p))]
  /\ down = Redis \ {FirstMaster}
  /\ replOf = [i \in Redis |-> IF i \in {p, FirstMaster} THEN Nil ELSE FirstMaster]
  /\ cast = {<<s, 1, l>> : s \in setup.group \ setup.behind}
  /\ won = {[epoch |-> 1, leader |-> l, fresh |-> TRUE]}

SentinelInit ==
  /\ setup \in Setups
  /\ \/ JustConfigured
     \/ \E p \in Redis \ {FirstMaster} : Priority[p] # 0 /\ Switched(setup.leader, p)
  /\ link = [s \in Group |-> [t \in Group |-> Nil]]
  /\ hello = Nil /\ orders = {} /\ faults = 0 /\ meddled = {} /\ crossed = {}

SentinelNext ==
  \/ \E s \in setup.group :
       \/ Tick(s) \/ SendHello(s) \/ ProcessHello(s) \/ CrashAndRestart(s)
       \/ CheckTiltCondition(s) \/ Reset(s) \/ ForceFailover(s)
       \/ OtherMasterFailover(s)
       \/ \E i \in Redis, long \in BOOLEAN : RefreshInstanceInfo(s, i, long)
       \/ \E t \in Group, lost \in BOOLEAN : IsMasterDownByAddr(s, t, lost)
  \/ \E o \in orders : Obey(o)
  \/ \E i \in Redis : InstanceDown(i) \/ InstanceUp(i)

(***************************************************************************)
(* Properties.                                                             *)
(***************************************************************************)
\* sentinel.c keeps a failover state, an address and votes for each master:
\* a promoted slave exists from its choice to the switch and only then, and
\* it is one of the slaves.
SentinelTypeOK ==
  \A s \in Group : LET st == sent[s] IN
    /\ st.epoch \in 0..MaxEpoch /\ st.leaderEpoch \in 0..MaxEpoch
    /\ st.addr \in Redis /\ st.addr \notin DOMAIN st.slaves
    /\ DOMAIN st.slaves \subseteq Redis /\ DOMAIN st.peers \subseteq Group \ {s}
    /\ st.foState \in None..ReconfSlaves
    /\ ("inprog" \in st.flags) <=> (st.foState # None)
    /\ (st.promoted # Nil) <=> (st.foState >= SendSlaveOfNoOne)
    /\ \A i \in DOMAIN st.slaves :
         ("promoted" \in st.slaves[i]) <=> (st.promoted = i)

\* The epoch of a configuration names it: sentinels that hold or announce a
\* configuration of the same epoch agree on the master, over elections, lost
\* answers, restarts and the failovers of other masters.  It is claimed of runs
\* without three things, each of which breaks it in the code: a leader that took
\* over the epoch of a newer configuration in the middle of its failover
\* (sentinel.c:2385) announces that epoch with the slave it promoted; SENTINEL
\* RESET forgets voters, and SENTINEL FAILOVER takes an epoch without votes
\* (sentinel.c:2972-2993); and a sentinel that heard of a newer epoch while it waited
\* for its election (not fresh, see Win) counts votes of that newer epoch for its own.
Announced ==
  {<<sent[s].configEpoch, CurrentMasterAddress(sent[s])>> : s \in Group}
  \cup {<<sent[s].disk.configEpoch, sent[s].disk.addr>> : s \in Group}
  \cup (IF hello = Nil THEN {} ELSE {<<hello.configEpoch, hello.addr>>})
SameEpochSameMaster ==
  meddled = {} /\ crossed = {} /\ (\A w \in won : w.fresh) => \A a, b \in Announced :
     a[1] = b[1] => a[2] = b[2]

\* "send a best effort SLAVEOF command to all the slaves still not
\* reconfigured to replicate with the new master" (sentinel.c:4066): the new
\* master is not one of them.
NoInstanceFollowsItself == \A i \in Redis : replOf[i] # i

\* The vote that a sentinel has given is never taken back, restarts, resets and
\* forced failovers included.  A newer epoch of the same master is not saved
\* (sentinel.c:2385-2389), so a restart may forget it, and a sentinel's configuration
\* gets older; but then it keeps the same master, unless the sentinel is in
\* crossed.  Those are the exception and a real one: a sentinel that took over a
\* newer epoch in the middle of its failover puts its own, older one over it at the
\* promotion (sentinel.c:2150), with the slave it promoted, and one that was reset
\* between the promotion and the end of the failover has the promoted slave in its
\* file and the old master in memory.
ConfigNeverGetsOlder ==
  [][\A s \in Group :
       /\ sent'[s].leaderEpoch >= sent[s].leaderEpoch
       /\ sent'[s].configEpoch < sent[s].configEpoch /\ s \notin crossed
            => CurrentMasterAddress(sent'[s]) = CurrentMasterAddress(sent[s])]_sent

\* Every configuration a sentinel has was made by one failover (sentinel.c:3740-
\* 4190, 2315-2414): records stay well formed through aborts and resets, and two of
\* the same epoch name the same master, but for the exceptions that
\* SameEpochSameMaster names.
ConfigurationsAgree == SentinelTypeOK /\ SameEpochSameMaster
=============================================================================
