------------------------------ MODULE Cluster ------------------------------
(***************************************************************************)
(* Redis Cluster's configuration (cluster.c): who owns which hash slot,    *)
(* failure detection by gossip, the election of a slave that replaces its  *)
(* failed master, config epochs and the repair of their collisions, slave  *)
(* migration, and what nodes.conf keeps over a restart.                    *)
(*                                                                         *)
(* Nodes are their node IDs, compared like memcmp does.  A packet that is  *)
(* not delivered at once waits in bus; a send may be lost (a link is NULL  *)
(* or freed).  A node that is cut off is stalled as well (a paused process *)
(* that others take for a failed one, and that comes back with old views). *)
(* Joining and leaving (MEET, handshakes, FORGET, RESET) are not modelled: *)
(* every node knows every other, so that SET-CONFIG-EPOCH is refused.  Nor *)
(* are ADDSLOTS and DELSLOTS, with which a cluster is set up, and the      *)
(* coordinated CLUSTER FAILOVER, which makes the same election wait until  *)
(* the slave has what its master has (MFSTART, paused clients).            *)
(***************************************************************************)
EXTENDS Integers, FiniteSets, FiniteSetsExt

CONSTANT Setups  \* the clusters to start from, and what may happen to them

(***************************************************************************)
(* A setup is a record:                                                    *)
(*   masterOf  node |-> its master, or NoNode                              *)
(*   owner     slot |-> the master that owns it                            *)
(*   fragile   nodes that may stall, at most cuts times in all             *)
(*   doomed    those of them that never come back                          *)
(*   mute      nodes whose PONGs are lost                                  *)
(*   laggards  nodes whose PINGs may be delayed                            *)
(*   crashers  nodes that may crash and restart, at most crashes times     *)
(*   commands  operators' commands that are given, at most admin times     *)
(*   epochs    how many new epochs may be made                             *)
(*   bus       how many packets may be on their way                        *)
(*   lapses    the lifetimes that may run out: of failure reports, of the  *)
(*             vote about a master, of a manual failover, of an election   *)
(*   prompt    see Unhurried                                               *)
(***************************************************************************)
NoNode == 0
Lapses == {"reports", "vote", "manual", "election"}
AdminCommands == {"force", "takeover", "bumpepoch", "replicate", "import"}

ASSUME ClusterAssumption ==
  \A c \in Setups :
    LET nodes == DOMAIN c.masterOf
    IN  /\ nodes \subseteq Nat \ {0} /\ IsFiniteSet(nodes)
        /\ c.masterOf \in [nodes -> nodes \cup {NoNode}]
        /\ IsFiniteSet(DOMAIN c.owner) /\ DOMAIN c.owner \subseteq Nat
        /\ \A s \in DOMAIN c.owner : c.masterOf[c.owner[s]] = NoNode
        /\ c.doomed \subseteq c.fragile /\ c.fragile \cup c.laggards \cup c.crashers \cup c.mute \subseteq nodes
        /\ c.commands \subseteq AdminCommands /\ c.lapses \subseteq Lapses
        /\ c.prompt \in BOOLEAN
        /\ {c.cuts, c.crashes, c.admin, c.epochs, c.bus} \subseteq Nat

VARIABLES setup,    \* the setup; it never changes
          cstate,   \* each node's server.cluster
          bus,      \* packets on their way
          cut,      \* nodes that are stalled: they do nothing, hear nothing
          conf,     \* the nodes.conf files
          spent,    \* cuts, crashes and operators' commands so far; forgot, a
                    \* history: epochs of votes that a crash wiped out
          grants,   \* history: votes <<voter, epoch, slave>>
          takeovers,\* history: elections won, <<slave, epoch, epoch of its master>>
          verdicts  \* history: FAIL flags set without agreement, see Unagreed

clusterVars == <<setup, cstate, bus, cut, conf, spent, grants, takeovers, verdicts>>

Nodes == DOMAIN setup.masterOf
Slots == DOMAIN setup.owner
FirstEpoch == Cardinality(Nodes)

(***************************************************************************)
(* A node's tables.  q is a node's server.cluster, me its own ID.          *)
(***************************************************************************)
IsMaster(q, n) == q.view[n].master
OwnedBy(q, n) == {s \in Slots : q.slots[s] = n}
SlavesOf(q, n) == {m \in Nodes : ~q.view[m].master /\ q.view[m].of = n}
Failed(q, n) == q.view[n].flag = "fail"
TimedOut(q, n) == q.view[n].flag = "pfail"
NonFailingSlaves(q, n) == {m \in SlavesOf(q, n) : ~Failed(q, m)}
\* Mutant: half of the masters.
QuorumHalf(q) == q.size \div 2

Quorum(q) == q.size \div 2 + 1

\* clusterNodeRemoveSlave: n is no longer in its master's list; a master left
\* without slaves is no target for migrating slaves.
RemoveSlave(q, n) ==
  LET m == q.view[n].of
  IN  [q EXCEPT !.view = [q.view EXCEPT ![n].of = NoNode,
         ![IF m = NoNode THEN n ELSE m].mig =
             IF m # NoNode /\ SlavesOf(q, m) = {n} THEN FALSE ELSE @]]

\* clusterNodeAddSlave, with the assignment of slaveof around it.
AddSlave(q, m, n) ==
  [q EXCEPT !.view = [q.view EXCEPT ![n].of = m, ![m].mig = TRUE]]

\* clusterDelSlot and clusterAddSlot for a set of slots: a master's first slot
\* makes it a target of slave migration if any master has slaves.
MoveSlots(q, S, n) ==
  LET had == OwnedBy(q, n)
      haveSlaves == \E m \in Nodes : IsMaster(q, m) /\ SlavesOf(q, m) # {}
  IN  [q EXCEPT !.slots = [s \in Slots |-> IF s \in S THEN n ELSE q.slots[s]],
                !.view = IF S # {} /\ n # NoNode /\ had = {} /\ haveSlaves
                         THEN [q.view EXCEPT ![n].mig = TRUE] ELSE q.view]

\* clusterSetNodeAsMaster
SetNodeAsMaster(q, me, n) ==
  IF IsMaster(q, n) THEN q
  ELSE LET hadMaster == q.view[n].of # NoNode
           q1 == RemoveSlave(q, n)
       IN  [q1 EXCEPT !.view = [q1.view EXCEPT ![n].master = TRUE,
              ![n].mig = IF hadMaster /\ n # me THEN TRUE ELSE @]]

\* clusterSetMaster: this node becomes a slave of n; any manual failover ends.
SetMaster(q, me, n) ==
  LET q1 == IF IsMaster(q, me)
            THEN [q EXCEPT !.view = [q.view EXCEPT ![me].master = FALSE,
                                                   ![me].mig = FALSE],
                           !.importing = {}]
            ELSE RemoveSlave(q, me)
  IN  [AddSlave(q1, n, me) EXCEPT !.manual = FALSE]

\* clusterUpdateSlotsConfigWith: the slots that owner claims with a greater
\* config epoch than their owner's here are bound to it; a node whose master
\* (or that itself) lost its last slot that way follows the new owner.
UpdateSlotsConfigWith(q, me, owner, cfg, claimed) ==
  LET cur == IF IsMaster(q, me) THEN me ELSE q.view[me].of
      moved == {s \in claimed : /\ q.slots[s] # owner /\ s \notin q.importing
                                /\ \/ q.slots[s] = NoNode
                                   \/ q.view[q.slots[s]].cfg < cfg}
      q1 == MoveSlots(q, moved, owner)
  IN  IF owner = me THEN q
      ELSE IF (\E s \in moved : q.slots[s] = cur) /\ OwnedBy(q1, cur) = {}
           THEN SetMaster(q1, me, owner)
           ELSE q1

\* clusterGetMaxEpoch
GetMaxEpoch(q) == Max({q.view[n].cfg : n \in Nodes} \cup {q.epoch})

\* clusterBumpConfigEpochWithoutConsensus
BumpConfigEpoch(q, me) ==
  IF q.view[me].cfg = 0 \/ q.view[me].cfg # GetMaxEpoch(q)
  THEN [q EXCEPT !.epoch = q.epoch + 1, !.view[me].cfg = q.epoch + 1]
  ELSE q

\* Mutant: of two masters with one epoch, both move on.
CollisionBothMove(q, me, from, cfg) ==
  IF /\ IsMaster(q, me) /\ IsMaster(q, from) /\ from # me
     /\ cfg = q.view[me].cfg /\ q.view[from].cfg = q.view[me].cfg
  THEN [q EXCEPT !.view[me].cfg = q.epoch + 1]
  ELSE q

\* Mutant: a collision is left alone.
CollisionIgnored(q, me, from, cfg) == q

\* clusterHandleConfigEpochCollision: of two masters with one config epoch,
\* the one with the smaller node ID takes a new epoch.
HandleConfigEpochCollision(q, me, from, cfg) ==
  IF /\ IsMaster(q, me) /\ IsMaster(q, from)
     /\ cfg = q.view[me].cfg /\ q.view[from].cfg = q.view[me].cfg
     /\ from > me
  THEN [q EXCEPT !.epoch = q.epoch + 1, !.view[me].cfg = q.epoch + 1]
  ELSE q

\* clusterUpdateState: the cluster's size, and whether it is up for this node.
\* A master that has just started leaves early and keeps the size it has; the
\* other delays of the function only keep it down for longer.
Voters(q) == {n \in Nodes : IsMaster(q, n) /\ OwnedBy(q, n) # {}}
IsUp(q) ==
  /\ \A s \in Slots : q.slots[s] # NoNode /\ ~Failed(q, q.slots[s])
  /\ Cardinality({n \in Voters(q) : q.view[n].flag = "ok"})
       >= Cardinality(Voters(q)) \div 2 + 1
UpdateState(q, me) ==
  IF IsMaster(q, me) /\ q.young THEN q
  ELSE [q EXCEPT !.size = Cardinality(Voters(q)), !.young = FALSE]

(***************************************************************************)
(* Packets and what a node does with them.                                 *)
(***************************************************************************)
\* clusterBuildMessageHdr: a slave sends its master's slots and epoch.
Header(me, q, type, to) ==
  LET m == IF ~IsMaster(q, me) /\ q.view[me].of # NoNode THEN q.view[me].of
           ELSE me
  IN  [type |-> type, from |-> me, to |-> to, epoch |-> q.epoch,
       cfg |-> q.view[m].cfg, slots |-> OwnedBy(q, m), of |-> q.view[me].of,
       force |-> FALSE, bad |-> {}, about |-> NoNode, itsCfg |-> 0, itsSlots |-> {}]

\* clusterSendPing: the header and what the sender thinks of the others.
Ping(me, q, type, to) ==
  [Header(me, q, type, to) EXCEPT
     !.bad = {n \in Nodes \ {me} : q.view[n].flag # "ok"}]

\* clusterSendUpdate: the configuration of the owner of some slots.
Update(me, q, to, owner) ==
  [Header(me, q, "update", to) EXCEPT
     !.about = owner, !.itsCfg = q.view[owner].cfg,
     !.itsSlots = OwnedBy(q, owner)]

\* The start of clusterProcessPacket: greater epochs are adopted.
Heard(q, p) ==
  [q EXCEPT !.epoch = Max({@, p.epoch}), !.view[p.from].cfg = Max({@, p.cfg})]

\* A PONG clears PFAIL, and FAIL as clearNodeFailureIfNeeded allows; undo: the
\* FAIL state is old enough.
PongReceived(q, n, undo) ==
  IF TimedOut(q, n) \/ (Failed(q, n) /\ (\/ ~IsMaster(q, n) \/ undo
                                         \/ OwnedBy(q, n) = {}))
  THEN [q EXCEPT !.view[n].flag = "ok"]
  ELSE q

\* The sender's role: a new master, or a slave of p.of, without slots.
RoleSwitch(q, me, p) ==
  IF p.of = NoNode THEN SetNodeAsMaster(q, me, p.from)
  ELSE LET q1 == IF IsMaster(q, p.from)
                 THEN LET r == MoveSlots(q, OwnedBy(q, p.from), NoNode)
                      IN  [r EXCEPT !.view = [r.view EXCEPT
                             ![p.from].master = FALSE, ![p.from].mig = FALSE]]
                 ELSE q
       IN  IF q1.view[p.from].of = p.of THEN q1
           ELSE AddSlave(RemoveSlave(q1, p.from), p.of, p.from)

\* clusterProcessGossipSection: failure reports, from masters only.
GossipReports(q, me, p) ==
  [n \in Nodes |-> IF n \in {me, p.from} \/ ~IsMaster(q, p.from)
                   THEN q.reports[n]
                   ELSE IF n \in p.bad THEN q.reports[n] \cup {p.from}
                        ELSE q.reports[n] \ {p.from}]

\* Mutant: half of the masters is enough to declare a failure.
CondemnedByHalf(q, me, p) ==
  {n \in p.bad \ {me} :
     /\ IsMaster(q, p.from) /\ TimedOut(q, n)
     /\ Cardinality(q.reports[n]) + (IF IsMaster(q, me) THEN 1 ELSE 0)
          >= q.size \div 2}

\* markNodeAsFailingIfNeeded: those that enough masters report, and that this
\* node cannot reach either.
Condemned(q, me, p) ==
  {n \in p.bad \ {me} :
     /\ IsMaster(q, p.from) /\ TimedOut(q, n)
     /\ Cardinality(q.reports[n]) + (IF IsMaster(q, me) THEN 1 ELSE 0)
          >= Quorum(q)}

\* PING and PONG in clusterProcessPacket, part by part: the sender's epoch,
\* reachability and role;
SenderSeen(q, me, p, undo) ==
  RoleSwitch(IF p.type = "pong" THEN PongReceived(Heard(q, p), p.from, undo) ELSE Heard(q, p), me, p)

\* whether its slots, or its master's, are other ones than was thought, in
\* which case a master's are taken over;
SlotsDiffer(q, p) ==
  LET sm == IF IsMaster(q, p.from) THEN p.from ELSE q.view[p.from].of
  IN  sm # NoNode /\ OwnedBy(q, sm) # p.slots

ClaimsTaken(q, me, p) ==
  IF IsMaster(q, p.from) /\ SlotsDiffer(q, p)
  THEN UpdateSlotsConfigWith(q, me, p.from, p.cfg, p.slots) ELSE q

\* the slots that it claims and another is known to own by a newer epoch;
StaleClaims(q, p) ==
  {s \in p.slots : q.slots[s] \notin {p.from, NoNode} /\ q.view[q.slots[s]].cfg > p.cfg}

\* and the gossip.  old is the state before, bad are those found to have failed.
PingResult(old, collided, q, me, p, stale, bad) ==
  LET q1 == [q EXCEPT !.view = [n \in Nodes |->
               [q.view[n] EXCEPT !.flag = IF n \in bad THEN "fail" ELSE @]]]
  IN  [q |-> q1, save |-> collided # old, condemned |-> bad,
       out |-> (IF stale = {} THEN {} ELSE {Update(me, old, p.from, old.slots[Min(stale)])})
               \cup {[Header(me, q1, "fail", n) EXCEPT !.about = b] :
                       n \in Nodes \ {me}, b \in IF IsMaster(q, me) THEN bad ELSE {}}]

GossipHeard(old, collided, q, me, p, stale) ==
  PingResult(old, collided, q, me, p, stale, Condemned(q, me, p))

CollisionHandled(old, q, me, p, stale) ==
  GossipHeard(old, q, [q EXCEPT !.reports = GossipReports(q, me, p)], me, p, stale)

ClaimsHandled(q, me, p, differ) ==
  CollisionHandled(q, HandleConfigEpochCollision(q, me, p.from, p.cfg), me, p,
                   IF differ THEN StaleClaims(q, p) ELSE {})

SenderHandled(q, me, p) == ClaimsHandled(ClaimsTaken(q, me, p), me, p, SlotsDiffer(q, p))

\* The node's state after, and the packets it sends.
ProcessPing(q, me, p, undo) == SenderHandled(SenderSeen(q, me, p, undo), me, p)

\* FAIL
ProcessFail(q, me, p) ==
  LET q1 == Heard(q, p)
  IN  IF p.about = me THEN q1 ELSE [q1 EXCEPT !.view[p.about].flag = "fail"]

\* UPDATE: the configuration of a node that the sender knows better.
ProcessUpdate(q, me, p) ==
  LET q1 == Heard(q, p)
      q2 == SetNodeAsMaster(q1, me, p.about)
      q3 == [q2 EXCEPT !.view[p.about].cfg = p.itsCfg]
  IN  IF q1.view[p.about].cfg >= p.itsCfg THEN q1
      ELSE UpdateSlotsConfigWith(q3, me, p.about, p.itsCfg, p.itsSlots)

\* Mutant: a second vote in one epoch.
MayVoteAgain(q, me, p) ==
  LET m == q.view[p.from].of
  IN  /\ IsMaster(q, me) /\ OwnedBy(q, me) # {} /\ p.epoch >= q.epoch
      /\ ~IsMaster(q, p.from) /\ m # NoNode /\ (Failed(q, m) \/ p.force)
      /\ m \notin q.recent
      /\ \A s \in p.slots : \/ q.slots[s] = NoNode
                            \/ q.view[q.slots[s]].cfg <= p.cfg

\* The conditions of clusterSendFailoverAuthIfNeeded.
MayVote(q, me, p) ==
  LET m == q.view[p.from].of
  IN  /\ IsMaster(q, me) /\ OwnedBy(q, me) # {}
      /\ p.epoch >= q.epoch /\ q.voted # q.epoch
      /\ ~IsMaster(q, p.from) /\ m # NoNode /\ (Failed(q, m) \/ p.force)
      /\ m \notin q.recent
      /\ \A s \in p.slots : \/ q.slots[s] = NoNode
                            \/ q.view[q.slots[s]].cfg <= p.cfg

\* FAILOVER_AUTH_ACK: a vote counts if its sender is a voter and knows the
\* epoch of the election.
CountVote(q, p) ==
  IF /\ IsMaster(q, p.from) /\ OwnedBy(q, p.from) # {}
     /\ p.epoch >= q.auth.epoch
  THEN [q EXCEPT !.auth.count = @ + 1]
  ELSE q

\* History: the FAIL flags that me sets without the agreement of most masters
\* by its own tables.
Unagreed(q, me, bad) ==
  {<<me, n>> : n \in {b \in bad :
     2 * Cardinality((q.reports[b] \cup {me}) \cap {m \in Nodes : IsMaster(q, m)})
       <= Cardinality(Voters(q))}}

(***************************************************************************)
(* Actions.  A handler ends with clusterBeforeSleep: the state is updated  *)
(* and nodes.conf saved when the handler asked for it, which every change  *)
(* of the tables does, before any packet leaves.                           *)
(***************************************************************************)
Tables(q) == [view |-> q.view, slots |-> q.slots, importing |-> q.importing]
Saved(q) == [tables |-> Tables(q), epoch |-> q.epoch, voted |-> q.voted]

Settle(i, q, save, taken, out) ==
  LET changed == Tables(q) # Tables(cstate[i])
      q1 == IF changed THEN UpdateState(q, i) ELSE q
  IN  /\ q.epoch <= FirstEpoch + setup.epochs
      /\ cstate' = [cstate EXCEPT ![i] = q1]
      /\ conf' = IF i \in setup.crashers /\ (save \/ changed)
                 THEN [conf EXCEPT ![i] = Saved(q1)] ELSE conf
      /\ \E kept \in SUBSET out : /\ Cardinality((bus \ taken) \cup kept) <= setup.bus
                                  /\ bus' = (bus \ taken) \cup kept

\* Packets travel faster than the timeouts of the cluster run out (if prompt):
\* a timeout passes only when no packet is on its way to a live node.
Unhurried == setup.prompt => \A p \in bus : p.to \in cut

Reachable(i, j) == i # j /\ i \notin cut /\ j \notin cut

\* A PONG that arrives as soon as it is sent.
Exchange(i, j, undo) ==
  /\ Reachable(i, j) /\ i \notin setup.mute
  /\ \E r \in {ProcessPing(cstate[j], j, Ping(i, cstate[i], "pong", j), undo)} :
       /\ Settle(j, r.q, r.save, {}, r.out)
       /\ verdicts' = verdicts \cup Unagreed(r.q, j, r.condemned)
  /\ UNCHANGED <<setup, cut, spent, grants, takeovers>>

\* A PING that will arrive later.
PingDelayed(i, j) ==
  LET p == Ping(i, cstate[i], "ping", j)
  IN  /\ Reachable(i, j) /\ i \in setup.laggards /\ p \notin bus /\ Cardinality(bus) < setup.bus
      /\ bus' = bus \cup {p}
      /\ UNCHANGED <<setup, cstate, cut, conf, spent, grants, takeovers, verdicts>>

\* clusterSendFailoverAuthIfNeeded.  The vote is not saved.
SendFailoverAuthIfNeeded(j, p) ==
  LET q1 == Heard(cstate[j], p)
      q2 == [q1 EXCEPT !.voted = q1.epoch, !.recent = @ \cup {q1.view[p.from].of}]
      yes == MayVote(q1, j, p)
  IN  /\ Settle(j, IF yes THEN q2 ELSE q1, FALSE, {p},
                IF yes THEN {Header(j, q1, "ack", p.from)} ELSE {})
      /\ grants' = IF yes THEN grants \cup {<<j, q1.epoch, p.from>>} ELSE grants

\* clusterProcessPacket of a packet that waited.
ProcessPacket(p) ==
  LET j == p.to
  IN  /\ Reachable(p.from, j)
      /\ \/ /\ p.type = "ping"
            /\ \E r \in {ProcessPing(cstate[j], j, p, FALSE)} :
                 /\ Settle(j, r.q, r.save, {p}, r.out)
                 /\ verdicts' = verdicts \cup Unagreed(r.q, j, r.condemned)
            /\ UNCHANGED grants
         \/ /\ p.type = "fail" /\ Settle(j, ProcessFail(cstate[j], j, p), FALSE, {p}, {})
            /\ UNCHANGED <<grants, verdicts>>
         \/ /\ p.type = "update" /\ Settle(j, ProcessUpdate(cstate[j], j, p), FALSE, {p}, {})
            /\ UNCHANGED <<grants, verdicts>>
         \/ /\ p.type = "ack"
            /\ Settle(j, CountVote(Heard(cstate[j], p), p), FALSE, {p}, {})
            /\ UNCHANGED <<grants, verdicts>>
         \/ /\ p.type = "request" /\ SendFailoverAuthIfNeeded(j, p)
            /\ UNCHANGED verdicts
      /\ UNCHANGED <<setup, cut, spent, takeovers>>
(***************************************************************************)
(* clusterHandleSlaveFailover.  auth.open: the election's time has not run *)
(* out; delays, ranks and the age of the data only make it wait longer.    *)
(***************************************************************************)
MayFailOver(q, i) ==
  LET m == q.view[i].of
  IN  /\ ~IsMaster(q, i) /\ m # NoNode /\ (Failed(q, m) \/ q.manual)
      /\ OwnedBy(q, m) # {}

\* clusterFailoverReplaceYourMaster
ReplaceYourMaster(q, i) ==
  LET q1 == SetNodeAsMaster(q, i, i)
  IN  [MoveSlots(q1, OwnedBy(q, q.view[i].of), i) EXCEPT !.manual = FALSE]

\* The previous attempt is over and the retry time has passed: a new one is
\* scheduled.
ScheduleElection(i) ==
  /\ MayFailOver(cstate[i], i) /\ ~cstate[i].auth.open
  /\ cstate' = [cstate EXCEPT ![i].auth = [@ EXCEPT !.open = TRUE, !.count = 0,
                                                    !.sent = FALSE]]
  /\ UNCHANGED <<setup, bus, cut, conf, spent, grants, takeovers, verdicts>>

\* Votes are asked for in a new epoch; a manual failover asks for them even
\* though the master is up.
StartElection(i) ==
  LET q == cstate[i]
      q1 == [q EXCEPT !.epoch = @ + 1,
                      !.auth = [@ EXCEPT !.epoch = q.epoch + 1, !.sent = TRUE]]
  IN  /\ MayFailOver(q, i) /\ q.auth.open /\ ~q.auth.sent
      /\ Settle(i, q1, TRUE, {},
           {[Header(i, q1, "request", j) EXCEPT !.force = q.manual] :
              j \in Nodes \ {i}})
      /\ UNCHANGED <<setup, cut, spent, grants, takeovers, verdicts>>

\* Enough votes: this slave is the new master, under the election's epoch.
WinElection(i) ==
  LET q == cstate[i]
      q1 == [q EXCEPT !.view[i].cfg = Max({@, q.auth.epoch})]
  IN  /\ MayFailOver(q, i) /\ q.auth.open /\ q.auth.sent
      /\ q.auth.count >= Quorum(q)
      /\ Settle(i, ReplaceYourMaster(q1, i), TRUE, {}, {})
      /\ takeovers' = takeovers \cup {<<i, q.auth.epoch>>}
      /\ UNCHANGED <<setup, cut, spent, grants, verdicts>>

\* The election's timeout and then its retry time pass.
ElectionExpires(i) ==
  /\ cstate[i].auth.open
  /\ "election" \in setup.lapses /\ Unhurried
  /\ cstate' = [cstate EXCEPT ![i].auth.open = FALSE]
  /\ UNCHANGED <<setup, bus, cut, conf, spent, grants, takeovers, verdicts>>
(***************************************************************************)
(* clusterCron, and time.                                                  *)
(***************************************************************************)
\* No PONG for the node timeout: PFAIL.  It is not saved.  The nodes that i
\* cannot reach time out together.
NodeTimeout(i) ==
  LET lost == {n \in cut \ {i} : cstate[i].view[n].flag = "ok"}
      q == [cstate[i] EXCEPT !.view = [n \in Nodes |->
              [cstate[i].view[n] EXCEPT !.flag = IF n \in lost THEN "pfail" ELSE @]]]
  IN  /\ lost # {} /\ Unhurried
      /\ cstate' = [cstate EXCEPT ![i] = UpdateState(q, i)]
      /\ UNCHANGED <<setup, bus, cut, conf, spent, grants, takeovers, verdicts>>

\* The delay after a start is over: clusterCron updates the state.
WritableDelayPasses(i) ==
  /\ cstate[i].young /\ Unhurried
  /\ cstate' = [cstate EXCEPT ![i] = UpdateState([@ EXCEPT !.young = FALSE], i)]
  /\ UNCHANGED <<setup, bus, cut, conf, spent, grants, takeovers, verdicts>>

\* Failure reports, votes about a master and manual failovers have a lifetime.
TimePasses(i) ==
  /\ Unhurried
  /\ \/ /\ "reports" \in setup.lapses
        /\ \E n \in Nodes : cstate[i].reports[n] # {}
        /\ cstate' = [cstate EXCEPT ![i].reports = [n \in Nodes |-> {}]]
     \/ /\ "vote" \in setup.lapses /\ cstate[i].recent # {}
        /\ cstate' = [cstate EXCEPT ![i].recent = {}]
     \/ /\ "manual" \in setup.lapses /\ cstate[i].manual
        /\ cstate' = [cstate EXCEPT ![i].manual = FALSE]
  /\ UNCHANGED <<setup, bus, cut, conf, spent, grants, takeovers, verdicts>>

\* clusterHandleSlaveMigration, with the conditions under which clusterCron
\* calls it.  It does not save the configuration.
Orphaned(q) ==
  {n \in Nodes : /\ IsMaster(q, n) /\ ~Failed(q, n) /\ q.view[n].mig
                 /\ NonFailingSlaves(q, n) = {} /\ OwnedBy(q, n) # {}}

SlaveMigration(i, target) ==
  LET q == cstate[i]
      mine == q.view[i].of
      oks(n) == Cardinality(NonFailingSlaves(q, n))
      top == Max({oks(n) : n \in {m \in Nodes : IsMaster(q, m) /\ ~Failed(q, m)}} \cup {0})
      rivals == UNION {SlavesOf(q, n) : n \in {m \in Nodes : IsMaster(q, m) /\ oks(m) = top}}
  IN  /\ i \notin cut /\ ~IsMaster(q, i) /\ mine # NoNode /\ IsUp(q)
      /\ target \in Orphaned(q) \ {i} /\ top >= 2
      /\ ~Failed(q, mine) /\ oks(mine) = top
      /\ Cardinality({m \in SlavesOf(q, mine) : q.view[m].flag = "ok"}) > 1
      /\ i = Min(rivals \cup {i})
      /\ cstate' = [cstate EXCEPT ![i] = SetMaster(q, i, target)]
      /\ UNCHANGED <<setup, bus, cut, conf, spent, grants, takeovers, verdicts>>

(***************************************************************************)
(* Operators' commands (clusterCommand).                                   *)
(***************************************************************************)
Admin(c) ==
  /\ c \in setup.commands /\ spent.admin < setup.admin
  /\ spent' = [spent EXCEPT !.admin = @ + 1]

\* CLUSTER FAILOVER FORCE
FailoverForce(i) ==
  /\ Admin("force")
  /\ ~IsMaster(cstate[i], i) /\ cstate[i].view[i].of # NoNode
  /\ cstate' = [cstate EXCEPT ![i].manual = TRUE]
  /\ UNCHANGED <<setup, bus, cut, conf, grants, takeovers, verdicts>>

\* CLUSTER FAILOVER TAKEOVER
FailoverTakeover(i) ==
  /\ Admin("takeover")
  /\ ~IsMaster(cstate[i], i) /\ cstate[i].view[i].of # NoNode
  /\ Settle(i, ReplaceYourMaster(BumpConfigEpoch(cstate[i], i), i), TRUE, {}, {})
  /\ UNCHANGED <<setup, cut, grants, takeovers, verdicts>>

\* CLUSTER BUMPEPOCH
BumpEpoch(i) ==
  /\ Admin("bumpepoch")
  /\ Settle(i, BumpConfigEpoch(cstate[i], i), FALSE, {}, {})
  /\ UNCHANGED <<setup, cut, grants, takeovers, verdicts>>

\* CLUSTER REPLICATE, sent to a slave or to an empty master.
Replicate(i, n) ==
  LET q == cstate[i]
  IN  /\ Admin("replicate") /\ i \notin cut
      /\ n # i /\ IsMaster(q, n) /\ (IsMaster(q, i) => OwnedBy(q, i) = {})
      /\ Settle(i, SetMaster(q, i, n), TRUE, {}, {})
      /\ UNCHANGED <<setup, cut, grants, takeovers, verdicts>>

\* CLUSTER SETSLOT IMPORTING, and later CLUSTER SETSLOT NODE, which makes the
\* importer the owner under a new epoch of its own.
SetSlotImporting(i, s) ==
  LET q == cstate[i]
  IN  /\ Admin("import") /\ IsMaster(q, i) /\ q.slots[s] # i /\ s \notin q.importing
      /\ Settle(i, [q EXCEPT !.importing = @ \cup {s}], FALSE, {}, {})
      /\ UNCHANGED <<setup, cut, grants, takeovers, verdicts>>

SetSlotNode(i, s) ==
  LET q == BumpConfigEpoch(cstate[i], i)
  IN  /\ s \in cstate[i].importing
      /\ Settle(i, [MoveSlots(q, {s}, i) EXCEPT !.importing = @ \ {s}], FALSE, {}, {})
      /\ UNCHANGED <<setup, cut, spent, grants, takeovers, verdicts>>

(***************************************************************************)
(* Faults.                                                                 *)
(***************************************************************************)
CutOff(i) ==
  /\ spent.cuts < setup.cuts /\ i \in setup.fragile \ cut
  /\ cut' = cut \cup {i} /\ spent' = [spent EXCEPT !.cuts = @ + 1]
  /\ UNCHANGED <<setup, cstate, bus, conf, grants, takeovers, verdicts>>

Reconnect(i) ==
  /\ i \in cut \ setup.doomed /\ cut' = cut \ {i}
  /\ UNCHANGED <<setup, cstate, bus, conf, spent, grants, takeovers, verdicts>>

NoAuth == [epoch |-> 0, count |-> 0, sent |-> FALSE, open |-> FALSE]

\* clusterInit and clusterLoadConfig: a node as nodes.conf describes it.  The
\* migration targets are found again from the slaves that are listed.  The
\* first clusterCron updates the state, for a slave without the delay.
LoadedConfig(i, c) ==
  LET view == [n \in Nodes |->
                 [c.tables.view[n] EXCEPT
                    !.mig = \E m \in Nodes : c.tables.view[m].of = n]]
      q == [epoch |-> Max({view[n].cfg : n \in Nodes} \cup {c.epoch}),
       voted |-> c.voted, view |-> view, slots |-> c.tables.slots,
       importing |-> c.tables.importing, reports |-> [n \in Nodes |-> {}],
       auth |-> NoAuth, manual |-> FALSE, recent |-> {},
       young |-> TRUE, size |-> 1]
  IN  UpdateState(q, i)

CrashAndReload(i) ==
  /\ spent.crashes < setup.crashes /\ i \in setup.crashers
  /\ spent' = [spent EXCEPT !.crashes = @ + 1,
                            !.forgot = IF cstate[i].voted = conf[i].voted THEN @
                                       ELSE @ \cup {cstate[i].voted}]
  /\ cstate' = [cstate EXCEPT ![i] = LoadedConfig(i, conf[i])]
  /\ bus' = {p \in bus : p.to # i}
  /\ UNCHANGED <<setup, cut, conf, grants, takeovers, verdicts>>

(***************************************************************************)
(* The specification: a cluster as redis-trib creates it, every node with  *)
(* a config epoch of its own and all tables equal.                         *)
(***************************************************************************)
FirstTables ==
  [view |-> [n \in Nodes |->
       [master |-> setup.masterOf[n] = NoNode, of |-> setup.masterOf[n], flag |-> "ok",
        cfg |-> Cardinality({m \in Nodes : m <= n}),
        mig |-> \E m \in Nodes : setup.masterOf[m] = n]],
   slots |-> setup.owner, importing |-> {}]

FirstConf == [tables |-> FirstTables, epoch |-> FirstEpoch, voted |-> 0]

ClusterInit ==
  /\ setup \in Setups
  /\ cstate = [i \in Nodes |->
       [LoadedConfig(i, FirstConf) EXCEPT !.young = FALSE,
          !.size = Cardinality({setup.owner[s] : s \in Slots})]]
  /\ conf = [i \in setup.crashers |-> FirstConf]
  /\ bus = {} /\ cut = {} /\ grants = {} /\ takeovers = {} /\ verdicts = {}
  /\ spent = [cuts |-> 0, crashes |-> 0, admin |-> 0, forgot |-> {}]

ClusterNext ==
  \/ \E i, j \in Nodes : \/ \E undo \in {Failed(cstate[j], i), FALSE} : Exchange(i, j, undo)
                        \/ PingDelayed(i, j)
                        \/ SlaveMigration(i, j)
                        \/ Replicate(i, j)
  \/ \E p \in bus : ProcessPacket(p)
  \/ \E i \in Nodes \ cut :
       \/ NodeTimeout(i) \/ ScheduleElection(i) \/ StartElection(i) \/ WinElection(i)
       \/ ElectionExpires(i) \/ WritableDelayPasses(i) \/ TimePasses(i)
       \/ FailoverForce(i) \/ FailoverTakeover(i) \/ BumpEpoch(i)
       \/ \E s \in Slots : SetSlotImporting(i, s) \/ SetSlotNode(i, s)
       \/ CutOff(i) \/ CrashAndReload(i)
  \/ \E i \in cut : Reconnect(i)

(***************************************************************************)
(* Properties.                                                             *)
(***************************************************************************)
\* Every config epoch a node knows is covered by its current epoch, and a
\* slave owns no slot in its own table: an epoch made by incrementing the
\* current epoch (elections, collisions, clusterBumpConfigEpochWithoutConsensus)
\* is then greater than all it knows, and clusterSetMaster's assertion holds.
EpochsAreCovered ==
  \A i \in Nodes :
    LET q == cstate[i]
    IN  /\ \A n \in Nodes : q.view[n].cfg <= q.epoch
        /\ ~IsMaster(q, i) => OwnedBy(q, i) = {}
        /\ q.view[i].of # i

\* "It is not possible that different slaves get the same config epoch during
\* a failover election" (clusterHandleConfigEpochCollision, cluster.c:995-997).  It is
\* possible in an epoch for which a voter has forgotten its vote: the vote is
\* sent before anything asks for a save (cluster.c:2561-2563), and nothing does.
OneWinnerPerEpoch ==
  \A w, v \in takeovers : w[2] = v[2] => w[1] = v[1] \/ w[2] \in spent.forgot

\* A slave that wins was voted for, in that epoch, by most of the masters.
WonByMajority ==
  \A w \in takeovers :
    2 * Cardinality({g \in grants : g[2] = w[2] /\ g[3] = w[1]})
      > Cardinality({setup.owner[s] : s \in Slots})

\* FAIL is only set by counting when most masters report the node: the
\* agreement markNodeAsFailingIfNeeded describes.
FailIsAgreed == verdicts = {}

NothingNew(q, r) == r.q = q /\ r.out = {}

\* When every packet that could be exchanged would change nothing, all nodes
\* agree on the owner of every slot, and the owner thinks so too.
Quiet ==
  /\ bus = {} /\ cut = {} /\ \A i \in Nodes : cstate[i].importing = {}
  /\ \A i, j \in Nodes : i # j =>
       NothingNew(cstate[j], ProcessPing(cstate[j], j, Ping(i, cstate[i], "pong", j), TRUE))

QuietMeansAgreed ==
  Quiet => \A i, j \in Nodes : cstate[i].slots = cstate[j].slots

\* Failover elections of the cluster (cluster.c:2424-2566, 2704-2869): one slave
\* wins an epoch, unless a voter forgot its vote for it in a crash, and every winner
\* had the votes of a majority of the masters.
ElectionsAreSound == OneWinnerPerEpoch /\ WonByMajority

\* Configuration epochs (cluster.c:926-1050, 1442-1530): no configuration is
\* newer than its holder's epoch, and once nothing is on its way the nodes
\* agree on who serves a slot.
ConfigurationsSettle == EpochsAreCovered /\ QuietMeansAgreed
=============================================================================
