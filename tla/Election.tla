------------------------------ MODULE Election ------------------------------
(***************************************************************************)
(* How the sentinels elect the one that performs a failover (sentinel.c,   *)
(* sentinelVoteLeader, sentinelGetLeader and the is-master-down-by-addr    *)
(* questions that ask for votes).  The operators on a sentinel's record    *)
(* are those of module Sentinel too; the specification here is the         *)
(* election alone, with all the sentinels agreeing that the master is      *)
(* down, so that three of them and their restarts can be explored.         *)
(***************************************************************************)
EXTENDS Naturals, FiniteSets

CONSTANTS Sentinels,      \* the sentinel processes (their run ids)
          SentinelQuorum, \* the configured quorum
          Patient,        \* those whose down_after_period never runs out
          MaxEpoch,       \* bound: elections are not started past this epoch
          Unstable,       \* bound: the sentinels that restart, once each
          Punctual,       \* see Waiting
          Nil             \* no run id, no message

ASSUME ElectionAssumption ==
  /\ Nil \notin Sentinels /\ IsFiniteSet(Sentinels)
  /\ SentinelQuorum \in Nat \ {0} /\ MaxEpoch \in Nat
  /\ Patient \subseteq Sentinels /\ Unstable \subseteq Sentinels
  /\ Punctual \in BOOLEAN

VARIABLES elect,    \* each sentinel's record
          asks,     \* votes asked for and on their way: <<candidate, voter, epoch>>
          restarts, \* the sentinels that did restart
          ballots,  \* history: votes <<voter, epoch, candidate>>
          wins      \* history: the elections won, see Win

electionVars == <<elect, asks, restarts, ballots, wins>>

None == 0
WaitStart == 1
SelectSlave == 2

NewPeer == [masterDown |-> FALSE, leader |-> Nil, epoch |-> 0]

(***************************************************************************)
(* Votes.  st is a sentinel's record.                                      *)
(***************************************************************************)
\* sentinelVoteLeader: one vote per epoch.
VoteLeader(s, st, req, cand) ==
  LET st1 == IF req > st.epoch THEN [st EXCEPT !.epoch = req] ELSE st
  IN  IF st1.leaderEpoch < req /\ st1.epoch <= req
      THEN [st1 EXCEPT !.leader = cand, !.leaderEpoch = st1.epoch,
                       !.delayed = st1.delayed \/ cand # s]
      ELSE st1

\* The votes for cand that sentinelGetLeader counts: those of current_epoch.
Votes(st, cand) ==
  {t \in DOMAIN st.peers : /\ st.peers[t].leader = cand
                           /\ st.peers[t].epoch = st.epoch}

\* The candidates that the other sentinels' votes name most often.
MostVoted(st) ==
  {c \in Sentinels : /\ Votes(st, c) # {}
                     /\ \A d \in Sentinels :
                          Cardinality(Votes(st, d)) <= Cardinality(Votes(st, c))}

\* Mutant: half of the sentinels is enough.
WinnerByHalf(st, epoch, front) ==
  LET mine == IF st.leader # Nil /\ st.leaderEpoch = epoch THEN st.leader
              ELSE Nil
      Count(c) == Cardinality(Votes(st, c)) + (IF mine = c THEN 1 ELSE 0)
      top == IF mine # Nil /\ (front = Nil \/ Count(mine)
                                 > Cardinality(Votes(st, front)))
             THEN mine ELSE front
  IN  IF /\ top # Nil
         /\ Count(top) >= (Cardinality(DOMAIN st.peers) + 1) \div 2
         /\ Count(top) >= SentinelQuorum
      THEN top ELSE Nil

\* sentinelGetLeader, after the sentinel's own vote; front is the first of the
\* most voted.  The winner needs the majority of the sentinels ever met, and
\* the quorum.  The own vote counts if it is of the failover's epoch.
Winner(st, epoch, front) ==
  LET mine == IF st.leader # Nil /\ st.leaderEpoch = epoch THEN st.leader
              ELSE Nil
      Count(c) == Cardinality(Votes(st, c)) + (IF mine = c THEN 1 ELSE 0)
      top == IF mine # Nil /\ (front = Nil \/ Count(mine)
                                 > Cardinality(Votes(st, front)))
             THEN mine ELSE front
  IN  IF /\ top # Nil
         /\ Count(top) >= (Cardinality(DOMAIN st.peers) + 1) \div 2 + 1
         /\ Count(top) >= SentinelQuorum
      THEN top ELSE Nil

\* sentinelStartFailover: the new epoch is not saved here.
StartFailover(st) ==
  [st EXCEPT !.foState = WaitStart, !.flags = @ \cup {"inprog"},
             !.epoch = @ + 1, !.foEpoch = st.epoch + 1, !.delayed = TRUE]

\* sentinelReceiveIsMasterDownReply; the answer for a forgotten peer is
\* discarded (releaseInstanceLink rebinds its callback).
MasterDownReply(st, t, a) ==
  LET p == st.peers[t]
      q == [masterDown |-> a.isdown,
            leader |-> IF a.leader = Nil THEN p.leader ELSE a.leader,
            epoch |-> IF a.leader = Nil THEN p.epoch ELSE a.epoch]
  IN  IF t \in DOMAIN st.peers
      THEN [st EXCEPT !.peers = [st.peers EXCEPT ![t] = q]] ELSE st

\* sentinelAskMasterStateToOtherSentinels forgets answers that are too old.
ForgetStale(st, old) ==
  [st EXCEPT !.peers = [t \in DOMAIN st.peers |->
     IF t \in old
     THEN [st.peers[t] EXCEPT !.masterDown = FALSE, !.leader = Nil]
     ELSE st.peers[t]]]

\* The vote that a change of the record is, if it is one.
Ballot(s, old, new) ==
  IF new.leader # Nil /\ <<new.leader, new.leaderEpoch>>
                           # <<old.leader, old.leaderEpoch>>
  THEN {<<s, new.leaderEpoch, new.leader>>} ELSE {}

When(c) == IF c THEN BOOLEAN ELSE {FALSE}

\* A win is fresh when no newer epoch was heard of since the failover began.
Win(s, st) ==
  [epoch |-> st.foEpoch, leader |-> s, fresh |-> st.epoch = st.foEpoch]

(***************************************************************************)
(* The election by itself.                                                 *)
(***************************************************************************)
\* Mutant: the epoch is saved, the vote is not.
SaveEpochOnly(st) == [st EXCEPT !.disk = [@ EXCEPT !.epoch = st.epoch]]

\* sentinelFlushConfig, for what the election needs.
SaveElect(st) == [st EXCEPT !.disk = [epoch |-> st.epoch,
                                      leaderEpoch |-> st.leaderEpoch]]

\* sentinelVoteLeader flushes the configuration after each change, before the
\* vote is told.
VoteAndSave(s, st, req, cand) ==
  LET v == VoteLeader(s, st, req, cand) IN IF v = st THEN st ELSE SaveElect(v)

ElectRecord(s, c) ==
  [epoch |-> c.epoch, leader |-> Nil, leaderEpoch |-> c.leaderEpoch,
   foEpoch |-> 0, foState |-> None, flags |-> {}, delayed |-> FALSE,
   peers |-> [t \in Sentinels \ {s} |-> NewPeer], disk |-> c]

\* sentinelFailoverWaitStart after the vote; ends when elected or timed out.
AfterVote(s, v, front, expired) ==
  CASE Winner(v, v.foEpoch, front) = s -> [v EXCEPT !.foState = SelectSlave]
    [] OTHER -> IF expired THEN [v EXCEPT !.foState = None, !.flags = {}] ELSE v

\* The delay between failovers, twice the failover timeout, is longer than the
\* election timeout: when clocks are Punctual a sentinel that waited finds no
\* other still waiting for its election.
Waiting(s) == \E t \in Sentinels \ {s} : elect[t].foState = WaitStart

\* A peer that has told its vote of this epoch would only repeat it.
Unanswered(s, st) ==
  {t \in Sentinels \ {s} : st.peers[t].leader = Nil
                           \/ st.peers[t].epoch # st.epoch}

\* The timer of a sentinel that sees the master down: it starts a failover
\* unless one is under way or was too recent, asks for votes, counts them.
\* An elected sentinel ends its failover, with or without success.
ElectionTick(s) ==
  LET st == elect[s] IN
  \/ \E waited \in When(st.delayed), expired \in BOOLEAN :
       LET st1 == IF st.foState = WaitStart THEN st ELSE StartFailover(st)
           fronts == IF MostVoted(st1) = {} THEN {Nil} ELSE MostVoted(st1)
       IN  /\ \/ st.foState = WaitStart /\ ~waited
              \/ /\ st.foState = None /\ st.delayed = waited
                 /\ st.epoch < MaxEpoch
                 /\ waited /\ Punctual => ~Waiting(s)
           /\ \E front \in fronts :
                LET v == VoteAndSave(s, st1, st1.foEpoch,
                           IF front = Nil THEN s ELSE front)
                    w == AfterVote(s, v, front, expired)
                IN  /\ elect' = [elect EXCEPT ![s] = w]
                    /\ ballots' = ballots \cup Ballot(s, st, w)
                    /\ wins' = IF w.foState = SelectSlave
                               THEN wins \cup {Win(s, w)} ELSE wins
           /\ asks' = {q \in asks : q[1] # s}
                      \cup {<<s, t, st1.epoch>> : t \in Unanswered(s, st1)}
           /\ restarts' = restarts
  \/ /\ st.foState = SelectSlave
     /\ elect' = [elect EXCEPT ![s].foState = None, ![s].flags = {}]
     /\ UNCHANGED <<asks, restarts, ballots, wins>>

\* SENTINEL is-master-down-by-addr at t, asked by s for a vote in epoch e.
AskForVote(s, t, e) ==
  /\ <<s, t, e>> \in asks
  /\ LET v == VoteAndSave(t, elect[t], e, s)
         a == [isdown |-> TRUE, leader |-> v.leader, epoch |-> v.leaderEpoch]
     IN  /\ elect' = [elect EXCEPT ![t] = v,
                        ![s] = MasterDownReply(elect[s], t, a)]
         /\ ballots' = ballots \cup Ballot(t, elect[t], v)
  /\ asks' = asks \ {<<s, t, e>>}
  /\ UNCHANGED <<restarts, wins>>

\* An answer is lost, or too old.
Forget(s, t) ==
  /\ elect[s].peers[t] # NewPeer /\ elect[s].peers[t].leader # Nil
  /\ elect' = [elect EXCEPT ![s] = ForgetStale(elect[s], {t})]
  /\ UNCHANGED <<asks, restarts, ballots, wins>>

\* A hello of s raises the epoch of t.
HearEpoch(t, s) ==
  /\ elect[s].epoch > elect[t].epoch
  /\ elect' = [elect EXCEPT ![t] =
                 SaveElect([elect[t] EXCEPT !.epoch = elect[s].epoch])]
  /\ UNCHANGED <<asks, restarts, ballots, wins>>

\* Before its first vote a sentinel has nothing to forget.
Restart(s) ==
  /\ s \in Unstable \ restarts /\ elect[s].leader # Nil /\ restarts' = restarts \cup {s}
  /\ elect' = [elect EXCEPT ![s] = ElectRecord(s, elect[s].disk)]
  /\ asks' = {q \in asks : q[1] # s /\ q[2] # s}
  /\ UNCHANGED <<ballots, wins>>

ElectionInit ==
  /\ elect = [s \in Sentinels |->
                ElectRecord(s, [epoch |-> 0, leaderEpoch |-> 0])]
  /\ asks = {} /\ restarts = {} /\ ballots = {} /\ wins = {}

ElectionNext ==
  \/ \E s \in Sentinels \ Patient : ElectionTick(s)
  \/ \E s \in Unstable : Restart(s)
  \/ \E q \in asks : AskForVote(q[1], q[2], q[3])
  \/ \E s, t \in Sentinels : /\ s # t
                             /\ Forget(s, t) \/ HearEpoch(s, t)

ElectionSpec == ElectionInit /\ [][ElectionNext]_electionVars

(***************************************************************************)
(* Properties.                                                             *)
(***************************************************************************)
\* sentinelVoteLeader (sentinel.c:3590), "Each Sentinel can vote just one time
\* per epoch" (sentinel.c:2910): across restarts too, because the vote is in
\* the file before it is told.
OneVotePerEpoch ==
  \A v, w \in ballots : v[1] = w[1] /\ v[2] = w[2] => v[3] = w[3]

\* sentinelGetLeader (sentinel.c:3645): two sentinels never both win an epoch,
\* as long as neither heard of a newer epoch before it counted.
OneFreshLeaderPerEpoch ==
  \A v, w \in wins : v.fresh /\ w.fresh /\ v.epoch = w.epoch
                       => v.leader = w.leader

\* sentinelGetLeader: "To be a leader for a given epoch, we should have the
\* majority of the Sentinels we know [...] that reported the same instance as
\* leader for the same epoch" (sentinel.c:3648), so an epoch, and with it a
\* configuration epoch, has one leader.
OneLeaderPerEpoch ==
  \A v, w \in wins : v.epoch = w.epoch => v.leader = w.leader

\* sentinelVoteLeader and sentinelGetLeader (sentinel.c:3590-3714): no epoch has
\* two votes of one sentinel, or two leaders that counted their votes in time.
ElectionIsSafe == OneVotePerEpoch /\ OneFreshLeaderPerEpoch
=============================================================================
