--------------------------- MODULE ElectionProofs ---------------------------
(***************************************************************************)
(* Proofs about Election, for every finite set of sentinels, every quorum, *)
(* every set of unstable ones that restart once, and every bound on the    *)
(* epochs.                                                                 *)
(***************************************************************************)
EXTENDS Election, FiniteSetTheorems, TLAPS

Peers == [masterDown : BOOLEAN, leader : Sentinels \cup {Nil}, epoch : Nat]

\* What sentinel s keeps; its peers are the other sentinels.
Records(s) ==
  [epoch : Nat, leader : Sentinels \cup {Nil}, leaderEpoch : Nat,
   foEpoch : Nat, foState : {None, WaitStart, SelectSlave},
   flags : SUBSET {"inprog"}, delayed : BOOLEAN,
   peers : [Sentinels \ {s} -> Peers], disk : [epoch : Nat, leaderEpoch : Nat]]

ElectionTypeOK ==
  /\ elect = [s \in Sentinels |-> elect[s]]
  /\ \A s \in Sentinels : elect[s] \in Records(s)
  /\ asks \subseteq {q \in Sentinels \X Sentinels \X Nat : q[1] # q[2]}
  /\ restarts \subseteq Sentinels
  /\ ballots \subseteq Sentinels \X Nat \X Sentinels
  /\ wins \subseteq [epoch : Nat, leader : Sentinels, fresh : BOOLEAN]

\* The file holds the epoch of the last vote, which is the newest one of all.
LastVoteKept(s, st, b) ==
  /\ st.disk.leaderEpoch = st.leaderEpoch
  /\ \A v \in b : v[1] = s => v[2] <= st.leaderEpoch

\* What a sentinel says it voted, and what it was told by the others, was cast.
ToldWasCast(s, st, b) ==
  /\ st.leader # Nil => <<s, st.leaderEpoch, st.leader>> \in b
  /\ \A t \in Sentinels \ {s} :
       st.peers[t].leader # Nil => <<t, st.peers[t].epoch, st.peers[t].leader>> \in b

\* Those that voted for cand in an epoch.
VotersFor(b, epoch, cand) == {t \in Sentinels : <<t, epoch, cand>> \in b}

\* A fresh win has a majority of all the sentinels behind it.
Backed(w, b) ==
  w.fresh => Cardinality(VotersFor(b, w.epoch, w.leader)) >= Cardinality(Sentinels) \div 2 + 1

\* The inductive invariant.
ElectionInv ==
  /\ ElectionTypeOK
  /\ \A s \in Sentinels : LastVoteKept(s, elect[s], ballots) /\ ToldWasCast(s, elect[s], ballots)
  /\ OneVotePerEpoch
  /\ \A w \in wins : Backed(w, ballots)

-----------------------------------------------------------------------------
(* What the operators on a sentinel's record do.                           *)

SameVote(old, new) == new.leader = old.leader /\ new.leaderEpoch = old.leaderEpoch
NewerVote(old, new) == new.leader \in Sentinels /\ new.leaderEpoch > old.leaderEpoch

\* sentinelVoteLeader (sentinel.c:3590): the vote stays, or goes to a candidate
\* in an epoch newer than that of every vote before.
LEMMA VoteMovesForward ==
  ASSUME NEW s \in Sentinels, NEW st \in Records(s), NEW req \in Nat, NEW cand \in Sentinels
  PROVE  LET v == VoteLeader(s, st, req, cand)
         IN  /\ v \in Records(s)
             /\ v.peers = st.peers /\ v.disk = st.disk
             /\ v.foEpoch = st.foEpoch /\ v.foState = st.foState
             /\ SameVote(st, v) \/ NewerVote(st, v)
<1>. DEFINE st1 == IF req > st.epoch THEN [st EXCEPT !.epoch = req] ELSE st
            voted == [st1 EXCEPT !.leader = cand, !.leaderEpoch = st1.epoch,
                                 !.delayed = st1.delayed \/ cand # s]
<1>1. /\ st1 \in Records(s) /\ st1.epoch >= req
      /\ st1.peers = st.peers /\ st1.disk = st.disk /\ st1.foEpoch = st.foEpoch
      /\ st1.foState = st.foState /\ st1.leader = st.leader /\ st1.leaderEpoch = st.leaderEpoch
  BY DEF Records
<1>2. (st1.delayed \/ cand # s) \in BOOLEAN
  OBVIOUS
<1>3. voted \in Records(s)
  BY <1>1, <1>2 DEF Records
<1>4. /\ voted.peers = st1.peers /\ voted.disk = st1.disk /\ voted.foEpoch = st1.foEpoch
      /\ voted.foState = st1.foState /\ voted.leader = cand /\ voted.leaderEpoch = st1.epoch
  BY <1>1 DEF Records
<1>5. VoteLeader(s, st, req, cand)
        = IF st1.leaderEpoch < req /\ st1.epoch <= req THEN voted ELSE st1
  BY DEF VoteLeader
<1>6. st1.leaderEpoch \in Nat /\ st1.epoch \in Nat
  BY <1>1 DEF Records
<1>. HIDE DEF st1, voted
<1>7. CASE st1.leaderEpoch < req /\ st1.epoch <= req
  <2>1. voted.leaderEpoch > st.leaderEpoch
    BY <1>1, <1>4, <1>6, <1>7
  <2>. QED
    BY <2>1, <1>1, <1>3, <1>4, <1>5, <1>7 DEF NewerVote
<1>8. CASE ~(st1.leaderEpoch < req /\ st1.epoch <= req)
  BY <1>1, <1>5, <1>8 DEF SameVote
<1>. QED
  BY <1>7, <1>8

\* sentinelFlushConfig keeps the record and puts the vote's epoch in the file.
LEMMA SaveKeeps ==
  ASSUME NEW s \in Sentinels, NEW st \in Records(s)
  PROVE  LET v == SaveElect(st)
         IN  /\ v \in Records(s)
             /\ v.peers = st.peers /\ v.foEpoch = st.foEpoch /\ v.foState = st.foState
             /\ v.leader = st.leader /\ v.leaderEpoch = st.leaderEpoch
             /\ v.disk.leaderEpoch = v.leaderEpoch
BY DEF SaveElect, Records

\* A vote and the save that follows it, as the voter and the file see them.
LEMMA VoteIsSaved ==
  ASSUME NEW s \in Sentinels, NEW st \in Records(s), NEW req \in Nat, NEW cand \in Sentinels,
         st.disk.leaderEpoch = st.leaderEpoch
  PROVE  LET v == VoteAndSave(s, st, req, cand)
         IN  /\ v \in Records(s)
             /\ v.peers = st.peers /\ v.foEpoch = st.foEpoch /\ v.foState = st.foState
             /\ v.disk.leaderEpoch = v.leaderEpoch
             /\ SameVote(st, v) \/ NewerVote(st, v)
<1>. DEFINE v == VoteLeader(s, st, req, cand)
<1>1. /\ v \in Records(s) /\ v.peers = st.peers /\ v.foEpoch = st.foEpoch /\ v.foState = st.foState
      /\ SameVote(st, v) \/ NewerVote(st, v)
  BY VoteMovesForward
<1>2. VoteAndSave(s, st, req, cand) = IF v = st THEN st ELSE SaveElect(v)
  BY DEF VoteAndSave
<1>. HIDE DEF v
<1>3. CASE v = st
  BY <1>2, <1>3 DEF SameVote
<1>4. CASE v # st
  BY <1>1, <1>2, <1>4, SaveKeeps DEF SameVote, NewerVote
<1>. QED
  BY <1>3, <1>4

Answer(leader, epoch) == [isdown |-> TRUE, leader |-> leader, epoch |-> epoch]

AnswerNoted(s, st, t, leader, epoch, after) ==
  /\ after \in Records(s) /\ SameVote(st, after) /\ after.disk = st.disk
  /\ \A u \in Sentinels \ {s} :
       \/ /\ after.peers[u].leader = st.peers[u].leader
          /\ after.peers[u].epoch = st.peers[u].epoch
       \/ u = t /\ after.peers[u].leader = leader /\ after.peers[u].epoch = epoch

\* sentinelReceiveIsMasterDownReply (sentinel.c:3495): the answer of t is written
\* down for t, and changes nothing else.
LEMMA AnswerIsNoted ==
  ASSUME NEW s \in Sentinels, NEW st \in Records(s), NEW t \in Sentinels \ {s},
         NEW leader \in Sentinels \cup {Nil}, NEW epoch \in Nat,
         NEW after, after = MasterDownReply(st, t, Answer(leader, epoch))
  PROVE  AnswerNoted(s, st, t, leader, epoch, after)
<1>. DEFINE a == Answer(leader, epoch)
            q == [masterDown |-> a.isdown,
                  leader |-> IF a.leader = Nil THEN st.peers[t].leader ELSE a.leader,
                  epoch |-> IF a.leader = Nil THEN st.peers[t].epoch ELSE a.epoch]
            noted == [st.peers EXCEPT ![t] = q]
            r == [st EXCEPT !.peers = noted]
<1>1. st.peers \in [Sentinels \ {s} -> Peers]
  BY DEF Records
<1>2. q \in Peers
  BY <1>1 DEF Peers, Answer
<1>3. \/ q.leader = st.peers[t].leader /\ q.epoch = st.peers[t].epoch
      \/ q.leader = leader /\ q.epoch = epoch
  BY DEF Answer
<1>4. MasterDownReply(st, t, a) = r
  BY <1>1 DEF MasterDownReply
<1>. HIDE DEF a, q
<1>5. noted \in [Sentinels \ {s} -> Peers]
  BY <1>1, <1>2
<1>6. \A u \in Sentinels \ {s} : noted[u] = IF u = t THEN q ELSE st.peers[u]
  BY <1>1
<1>. HIDE DEF noted
<1>7. /\ r \in Records(s) /\ r.disk = st.disk /\ SameVote(st, r)
      /\ r.peers = noted
  BY <1>5 DEF Records, SameVote
<1>. QED
  BY <1>3, <1>4, <1>6, <1>7 DEF a, AnswerNoted

-----------------------------------------------------------------------------
(* Votes.                                                                  *)

\* A sentinel that keeps its vote, or casts one in a newer epoch, and has it in
\* its file, keeps what is known of the votes true: its own, the others', and
\* that nobody votes twice.
LEMMA CastVote ==
  ASSUME ElectionInv, NEW s \in Sentinels, NEW st \in Records(s),
         SameVote(elect[s], st) \/ NewerVote(elect[s], st),
         st.disk.leaderEpoch = st.leaderEpoch, st.peers = elect[s].peers,
         ballots' = ballots \cup Ballot(s, elect[s], st)
  PROVE  /\ ballots \subseteq ballots' /\ ballots' \subseteq Sentinels \X Nat \X Sentinels
         /\ LastVoteKept(s, st, ballots') /\ ToldWasCast(s, st, ballots')
         /\ \A t \in Sentinels \ {s} :
              LastVoteKept(t, elect[t], ballots') /\ ToldWasCast(t, elect[t], ballots')
         /\ OneVotePerEpoch'
<1>1. /\ elect[s] \in Records(s) /\ ballots \subseteq Sentinels \X Nat \X Sentinels
      /\ \A t \in Sentinels : LastVoteKept(t, elect[t], ballots) /\ ToldWasCast(t, elect[t], ballots)
      /\ OneVotePerEpoch
  BY DEF ElectionInv, ElectionTypeOK
<1>2. /\ elect[s].leader \in Sentinels \cup {Nil} /\ elect[s].leaderEpoch \in Nat
      /\ st.leader \in Sentinels \cup {Nil} /\ st.leaderEpoch \in Nat
  BY <1>1 DEF Records
<1>3. CASE SameVote(elect[s], st)
  <2>1. ballots' = ballots
    BY <1>3 DEF SameVote, Ballot
  <2>. QED
    BY <1>1, <1>3, <2>1 DEF SameVote, LastVoteKept, ToldWasCast, OneVotePerEpoch
<1>4. CASE NewerVote(elect[s], st)
  <2>. DEFINE new == <<s, st.leaderEpoch, st.leader>>
  <2>1. ballots' = ballots \cup {new}
    BY <1>2, <1>4, ElectionAssumption DEF NewerVote, Ballot
  <2>2. new \in Sentinels \X Nat \X Sentinels
    BY <1>2, <1>4 DEF NewerVote
  <2>3. \A v \in ballots : v[1] = s => v[2] \in Nat /\ v[2] < st.leaderEpoch
    BY <1>1, <1>2, <1>4 DEF NewerVote, LastVoteKept
  <2>4. ballots \subseteq ballots' /\ ballots' \subseteq Sentinels \X Nat \X Sentinels
    BY <1>1, <2>1, <2>2
  <2>5. LastVoteKept(s, st, ballots')
    <3>1. \A v \in ballots' : v[1] = s => v[2] <= st.leaderEpoch
      BY <1>2, <2>1, <2>3
    <3>. QED
      BY <3>1 DEF LastVoteKept
  <2>6. ToldWasCast(s, st, ballots')
    BY <1>1, <2>1 DEF ToldWasCast
  <2>7. ASSUME NEW t \in Sentinels \ {s}
        PROVE  LastVoteKept(t, elect[t], ballots') /\ ToldWasCast(t, elect[t], ballots')
    <3>1. \A v \in ballots' : v[1] = t => v \in ballots
      BY <2>1
    <3>. QED
      BY <1>1, <2>4, <3>1 DEF LastVoteKept, ToldWasCast
  <2>8. OneVotePerEpoch'
    <3>1. SUFFICES ASSUME NEW v \in ballots', NEW w \in ballots', v[1] = w[1], v[2] = w[2]
                   PROVE  v[3] = w[3]
      BY DEF OneVotePerEpoch
    <3>2. CASE v \in ballots /\ w \in ballots
      BY <1>1, <3>1, <3>2 DEF OneVotePerEpoch
    <3>3. CASE v = new \/ w = new
      BY <1>2, <2>1, <2>3, <3>1, <3>3
    <3>. QED
      BY <2>1, <3>2, <3>3
  <2>. QED
    BY <2>4, <2>5, <2>6, <2>7, <2>8
<1>. QED
  BY <1>3, <1>4

-----------------------------------------------------------------------------
(* Majorities.                                                             *)

\* The voters for a candidate are a finite set of sentinels.
LEMMA VotersAreFinite ==
  ASSUME NEW b, NEW epoch, NEW cand
  PROVE  /\ VotersFor(b, epoch, cand) \subseteq Sentinels
         /\ IsFiniteSet(VotersFor(b, epoch, cand))
         /\ Cardinality(VotersFor(b, epoch, cand)) \in Nat
<1>1. VotersFor(b, epoch, cand) \subseteq Sentinels
  BY DEF VotersFor
<1>. QED
  BY <1>1, ElectionAssumption, FS_Subset, FS_CardinalityType

\* Votes are never taken back.
LEMMA BackedStays ==
  ASSUME NEW b, NEW c, b \subseteq c, NEW w, Backed(w, b)
  PROVE  Backed(w, c)
<1>1. VotersFor(b, w.epoch, w.leader) \in SUBSET VotersFor(c, w.epoch, w.leader)
  BY DEF VotersFor
<1>2. Cardinality(VotersFor(b, w.epoch, w.leader)) <= Cardinality(VotersFor(c, w.epoch, w.leader))
  BY <1>1, VotersAreFinite, FS_Subset
<1>3. Cardinality(Sentinels) \in Nat
  BY ElectionAssumption, FS_CardinalityType
<1>. QED
  BY <1>2, <1>3, VotersAreFinite DEF Backed

\* sentinelGetLeader (sentinel.c:3645): who finds that it is the winner, and has
\* not heard of a newer epoch, was told of the votes of a majority.
LEMMA WinnerIsBacked ==
  ASSUME NEW s \in Sentinels, NEW st \in Records(s), NEW b, ToldWasCast(s, st, b),
         NEW front, Winner(st, st.foEpoch, front) = s
  PROVE  Backed(Win(s, st), b)
<1>. DEFINE mine == IF st.leader # Nil /\ st.leaderEpoch = st.foEpoch THEN st.leader ELSE Nil
            told == Votes(st, s)
            for == VotersFor(b, st.foEpoch, s)
<1>1. SUFFICES ASSUME st.epoch = st.foEpoch
               PROVE  Cardinality(for) >= Cardinality(Sentinels) \div 2 + 1
  BY DEF Backed, Win
<1>2. st.peers \in [Sentinels \ {s} -> Peers] /\ DOMAIN st.peers = Sentinels \ {s}
  BY DEF Records
<1>3. s # Nil
  BY ElectionAssumption
<1>4. Cardinality(told) + (IF mine = s THEN 1 ELSE 0)
        >= (Cardinality(Sentinels \ {s}) + 1) \div 2 + 1
  <2>. DEFINE Count(c) == Cardinality(Votes(st, c)) + (IF mine = c THEN 1 ELSE 0)
              top == IF mine # Nil /\ (front = Nil \/ Count(mine) > Cardinality(Votes(st, front)))
                     THEN mine ELSE front
              enough == Count(top) >= (Cardinality(DOMAIN st.peers) + 1) \div 2 + 1
              quorum == Count(top) >= SentinelQuorum
  <2>1. Winner(st, st.foEpoch, front) = IF top # Nil /\ enough /\ quorum THEN top ELSE Nil
    BY Zenon DEF Winner
  <2>2. enough /\ top = s
    <3>. HIDE DEF enough, quorum, top
    <3>. QED
      BY <1>3, <2>1
  <2>. HIDE DEF top, mine
  <2>. QED
    BY <1>2, <2>2
<1>5. /\ Cardinality(Sentinels) \in Nat
      /\ Cardinality(Sentinels \ {s}) + 1 = Cardinality(Sentinels)
  <2>1. IsFiniteSet(Sentinels) /\ Cardinality(Sentinels) \in Nat
    BY ElectionAssumption, FS_CardinalityType
  <2>2. Cardinality(Sentinels \ {s}) = Cardinality(Sentinels) - 1
    BY <2>1, FS_RemoveElement
  <2>. QED
    BY <2>1, <2>2
<1>6. told \subseteq Sentinels \ {s} /\ told \subseteq for
  BY <1>1, <1>2, <1>3 DEF Votes, VotersFor, ToldWasCast
<1>7. IsFiniteSet(for) /\ Cardinality(for) \in Nat
  BY VotersAreFinite
<1>8. IsFiniteSet(told) /\ Cardinality(told) \in Nat /\ Cardinality(told) <= Cardinality(for)
  BY <1>6, <1>7, FS_Subset, FS_CardinalityType
<1>9. CASE mine = s
  <2>1. s \in for
    BY <1>3, <1>9 DEF VotersFor, ToldWasCast
  <2>2. Cardinality(told \cup {s}) = Cardinality(told) + 1
    BY <1>6, <1>8, FS_AddElement
  <2>3. Cardinality(told \cup {s}) <= Cardinality(for)
    BY <1>6, <1>7, <2>1, FS_Subset
  <2>. QED
    BY <1>4, <1>5, <1>7, <1>8, <1>9, <2>2, <2>3
<1>10. CASE mine # s
  BY <1>4, <1>5, <1>7, <1>8, <1>10
<1>. QED
  BY <1>9, <1>10

\* Two majorities have a sentinel in common, which voted once.
LEMMA MajoritiesElectOne ==
  ASSUME ElectionInv
  PROVE  OneFreshLeaderPerEpoch
<1>1. SUFFICES ASSUME NEW v \in wins, NEW w \in wins, v.fresh, w.fresh, v.epoch = w.epoch
               PROVE  v.leader = w.leader
  BY DEF OneFreshLeaderPerEpoch
<1>. DEFINE A == VotersFor(ballots, v.epoch, v.leader)
            B == VotersFor(ballots, w.epoch, w.leader)
<1>2. /\ Cardinality(A) >= Cardinality(Sentinels) \div 2 + 1
      /\ Cardinality(B) >= Cardinality(Sentinels) \div 2 + 1
  BY <1>1 DEF ElectionInv, Backed
<1>3. /\ A \subseteq Sentinels /\ B \subseteq Sentinels
      /\ Cardinality(A) \in Nat /\ Cardinality(B) \in Nat
      /\ Cardinality(Sentinels) \in Nat
  BY VotersAreFinite, ElectionAssumption, FS_CardinalityType
<1>4. Cardinality(A) + Cardinality(B) > Cardinality(Sentinels)
  BY <1>2, <1>3
<1>5. A \cap B # {}
  BY <1>3, <1>4, ElectionAssumption, FS_MajoritiesIntersect
<1>6. PICK t \in Sentinels : t \in A /\ t \in B
  BY <1>3, <1>5
<1>7. <<t, v.epoch, v.leader>> \in ballots /\ <<t, v.epoch, w.leader>> \in ballots
  BY <1>1, <1>6 DEF VotersFor
<1>. QED
  BY <1>7 DEF ElectionInv, OneVotePerEpoch

-----------------------------------------------------------------------------
(* The steps.                                                              *)

\* A sentinel starts with a well-formed record and no vote (sentinel.c:1138-1226).
LEMMA FreshRecord ==
  ASSUME NEW s \in Sentinels, NEW c \in [epoch : Nat, leaderEpoch : Nat]
  PROVE  LET r == ElectRecord(s, c)
         IN  /\ r \in Records(s) /\ r.leader = Nil /\ r.leaderEpoch = c.leaderEpoch /\ r.disk = c
             /\ \A t \in Sentinels \ {s} : r.peers[t].leader = Nil
<1>1. NewPeer \in Peers /\ NewPeer.leader = Nil
  BY DEF NewPeer, Peers
<1>2. [t \in Sentinels \ {s} |-> NewPeer] \in [Sentinels \ {s} -> Peers]
  BY <1>1
<1>3. {} \in SUBSET {"inprog"}
  OBVIOUS
<1>. QED
  BY <1>1, <1>2, <1>3 DEF ElectRecord, Records, None

\* The invariant holds before anyone voted.
LEMMA ElectionStarts ==
  ElectionInit => ElectionInv
<1>1. SUFFICES ASSUME ElectionInit PROVE ElectionInv
  OBVIOUS
<1>2. [epoch |-> 0, leaderEpoch |-> 0] \in [epoch : Nat, leaderEpoch : Nat]
  OBVIOUS
<1>3. ballots = {} /\ wins = {} /\ asks = {} /\ restarts = {}
  BY <1>1 DEF ElectionInit
<1>4. \A s \in Sentinels : elect[s] = ElectRecord(s, [epoch |-> 0, leaderEpoch |-> 0])
  BY <1>1 DEF ElectionInit
<1>5. elect = [s \in Sentinels |-> elect[s]]
  BY <1>1 DEF ElectionInit
<1>6. ASSUME NEW s \in Sentinels
      PROVE  /\ elect[s] \in Records(s)
             /\ LastVoteKept(s, elect[s], ballots) /\ ToldWasCast(s, elect[s], ballots)
  BY <1>2, <1>3, <1>4, FreshRecord DEF LastVoteKept, ToldWasCast
<1>. QED
  BY <1>3, <1>5, <1>6 DEF ElectionInv, ElectionTypeOK, OneVotePerEpoch

\* A step that changes only the record of s, and neither its vote nor what it
\* was told, keeps the invariant.
LEMMA OneRecordChanges ==
  ASSUME ElectionInv, NEW s \in Sentinels, NEW r \in Records(s),
         elect' = [elect EXCEPT ![s] = r],
         LastVoteKept(s, r, ballots), ToldWasCast(s, r, ballots),
         asks' \subseteq asks, restarts' \subseteq Sentinels, UNCHANGED <<ballots, wins>>
  PROVE  ElectionInv'
<1>1. elect' = [t \in Sentinels |-> IF t = s THEN r ELSE elect[t]]
  BY DEF ElectionInv, ElectionTypeOK
<1>2. ElectionTypeOK'
  BY <1>1 DEF ElectionInv, ElectionTypeOK
<1>3. \A t \in Sentinels : LastVoteKept(t, elect'[t], ballots') /\ ToldWasCast(t, elect'[t], ballots')
  BY <1>1 DEF ElectionInv
<1>4. OneVotePerEpoch' /\ \A w \in wins' : Backed(w, ballots')
  BY DEF ElectionInv, OneVotePerEpoch
<1>. QED
  BY <1>2, <1>3, <1>4 DEF ElectionInv

\* Forgetting a peer's stale answer (sentinel.c:3545-3556) takes nothing back that
\* was cast.
LEMMA ForgetKeeps ==
  ASSUME ElectionInv, NEW s \in Sentinels, NEW t \in Sentinels, s # t, Forget(s, t)
  PROVE  ElectionInv'
<1>. DEFINE st == elect[s]
            Keeps(u) == IF u \in {t} THEN [st.peers[u] EXCEPT !.masterDown = FALSE, !.leader = Nil]
                        ELSE st.peers[u]
            kept == [u \in DOMAIN st.peers |-> Keeps(u)]
            r == [st EXCEPT !.peers = kept]
<1>1. /\ st \in Records(s) /\ LastVoteKept(s, st, ballots) /\ ToldWasCast(s, st, ballots)
      /\ asks \subseteq asks /\ restarts \subseteq Sentinels
  BY DEF ElectionInv, ElectionTypeOK
<1>2. st.peers \in [Sentinels \ {s} -> Peers]
  BY <1>1 DEF Records
<1>3. kept \in [Sentinels \ {s} -> Peers]
  <2>1. \A u \in Sentinels \ {s} : Keeps(u) \in Peers
    BY <1>2 DEF Peers
  <2>. QED
    BY <1>2, <2>1
<1>4. \A u \in Sentinels \ {s} : kept[u].leader # Nil => kept[u] = st.peers[u]
  BY <1>2 DEF Peers
<1>5. r = ForgetStale(st, {t})
  BY DEF ForgetStale
<1>. HIDE DEF kept
<1>6. /\ r \in Records(s) /\ r.peers = kept /\ r.leader = st.leader
      /\ r.leaderEpoch = st.leaderEpoch /\ r.disk = st.disk
  BY <1>1, <1>3 DEF Records
<1>7. LastVoteKept(s, r, ballots) /\ ToldWasCast(s, r, ballots)
  BY <1>1, <1>4, <1>6 DEF LastVoteKept, ToldWasCast
<1>8. elect' = [elect EXCEPT ![s] = r] /\ UNCHANGED <<asks, restarts, ballots, wins>>
  BY <1>5 DEF Forget
<1>. QED
  BY <1>1, <1>6, <1>7, <1>8, OneRecordChanges

\* A newer epoch heard in a hello message (sentinel.c:2371-2377) leaves votes alone.
LEMMA HearEpochKeeps ==
  ASSUME ElectionInv, NEW s \in Sentinels, NEW t \in Sentinels, HearEpoch(t, s)
  PROVE  ElectionInv'
<1>. DEFINE h == [elect[t] EXCEPT !.epoch = elect[s].epoch]
            r == SaveElect(h)
<1>1. /\ elect[t] \in Records(t) /\ elect[s] \in Records(s)
      /\ LastVoteKept(t, elect[t], ballots) /\ ToldWasCast(t, elect[t], ballots)
      /\ asks \subseteq asks /\ restarts \subseteq Sentinels
  BY DEF ElectionInv, ElectionTypeOK
<1>2. /\ h \in Records(t) /\ h.leader = elect[t].leader /\ h.leaderEpoch = elect[t].leaderEpoch
      /\ h.peers = elect[t].peers
  BY <1>1 DEF Records
<1>. HIDE DEF h
<1>3. /\ r \in Records(t) /\ r.leader = h.leader /\ r.leaderEpoch = h.leaderEpoch
      /\ r.peers = h.peers /\ r.disk.leaderEpoch = r.leaderEpoch
  BY <1>2, SaveKeeps
<1>4. LastVoteKept(t, r, ballots) /\ ToldWasCast(t, r, ballots)
  BY <1>1, <1>2, <1>3 DEF LastVoteKept, ToldWasCast
<1>5. elect' = [elect EXCEPT ![t] = r] /\ UNCHANGED <<asks, restarts, ballots, wins>>
  BY DEF HearEpoch, h
<1>. QED
  BY <1>1, <1>3, <1>4, <1>5, OneRecordChanges

\* What is lost in a restart is the candidate, not the epoch of the vote.
LEMMA RestartKeeps ==
  ASSUME ElectionInv, NEW s \in Sentinels, Restart(s)
  PROVE  ElectionInv'
<1>. DEFINE c == elect[s].disk
            r == ElectRecord(s, c)
<1>1. /\ elect[s] \in Records(s) /\ LastVoteKept(s, elect[s], ballots)
      /\ restarts \subseteq Sentinels
  BY DEF ElectionInv, ElectionTypeOK
<1>2. c \in [epoch : Nat, leaderEpoch : Nat]
  BY <1>1 DEF Records
<1>3. /\ r \in Records(s) /\ r.leader = Nil /\ r.leaderEpoch = c.leaderEpoch /\ r.disk = c
      /\ \A t \in Sentinels \ {s} : r.peers[t].leader = Nil
  BY <1>2, FreshRecord
<1>. HIDE DEF r
<1>4. LastVoteKept(s, r, ballots) /\ ToldWasCast(s, r, ballots)
  BY <1>1, <1>3 DEF LastVoteKept, ToldWasCast
<1>5. /\ elect' = [elect EXCEPT ![s] = r] /\ UNCHANGED <<ballots, wins>>
      /\ asks' \subseteq asks /\ restarts' \subseteq Sentinels
  BY <1>1 DEF Restart, r
<1>. QED
  BY <1>3, <1>4, <1>5, OneRecordChanges

\* Asking, being voted for and noting the answer (sentinel.c:2893-2950, 3493-3531)
\* in one step.
LEMMA AskForVoteKeeps ==
  ASSUME ElectionInv, NEW q \in asks, AskForVote(q[1], q[2], q[3])
  PROVE  ElectionInv'
<1>. DEFINE s == q[1]
            t == q[2]
            v == VoteAndSave(t, elect[t], q[3], s)
            r == MasterDownReply(elect[s], t, Answer(v.leader, v.leaderEpoch))
<1>1. s \in Sentinels /\ t \in Sentinels /\ s # t /\ q[3] \in Nat
  BY DEF ElectionInv, ElectionTypeOK
<1>2. /\ elect[t] \in Records(t) /\ elect[s] \in Records(s)
      /\ LastVoteKept(t, elect[t], ballots)
      /\ asks \subseteq {x \in Sentinels \X Sentinels \X Nat : x[1] # x[2]}
      /\ restarts \subseteq Sentinels
      /\ wins \subseteq [epoch : Nat, leader : Sentinels, fresh : BOOLEAN]
      /\ \A w \in wins : Backed(w, ballots)
  BY <1>1 DEF ElectionInv, ElectionTypeOK
<1>3. /\ elect' = [elect EXCEPT ![t] = v, ![s] = r]
      /\ ballots' = ballots \cup Ballot(t, elect[t], v)
      /\ asks' \subseteq asks /\ UNCHANGED <<restarts, wins>>
  BY DEF AskForVote, Answer
<1>. HIDE DEF s, t
<1>4. /\ v \in Records(t) /\ v.peers = elect[t].peers /\ v.disk.leaderEpoch = v.leaderEpoch
      /\ SameVote(elect[t], v) \/ NewerVote(elect[t], v)
  BY <1>1, <1>2, VoteIsSaved DEF LastVoteKept
<1>. HIDE DEF v
<1>5. /\ ballots \subseteq ballots' /\ ballots' \subseteq Sentinels \X Nat \X Sentinels
      /\ LastVoteKept(t, v, ballots') /\ ToldWasCast(t, v, ballots')
      /\ \A u \in Sentinels \ {t} :
           LastVoteKept(u, elect[u], ballots') /\ ToldWasCast(u, elect[u], ballots')
      /\ OneVotePerEpoch'
  BY <1>1, <1>3, <1>4, CastVote
<1>6. v.leader \in Sentinels \cup {Nil} /\ v.leaderEpoch \in Nat
  BY <1>4 DEF Records
<1>7. /\ r \in Records(s) /\ SameVote(elect[s], r) /\ r.disk = elect[s].disk
      /\ \A u \in Sentinels \ {s} :
           \/ r.peers[u].leader = elect[s].peers[u].leader /\ r.peers[u].epoch = elect[s].peers[u].epoch
           \/ u = t /\ r.peers[u].leader = v.leader /\ r.peers[u].epoch = v.leaderEpoch
  <2>1. t \in Sentinels \ {s} /\ s \in Sentinels /\ elect[s] \in Records(s)
    BY <1>1, <1>2
  <2>2. r = MasterDownReply(elect[s], t, Answer(v.leader, v.leaderEpoch))
    OBVIOUS
  <2>. HIDE DEF r
  <2>3. AnswerNoted(s, elect[s], t, v.leader, v.leaderEpoch, r)
    BY <1>6, <2>1, <2>2, AnswerIsNoted
  <2>. QED
    BY <2>3 DEF AnswerNoted
<1>. HIDE DEF r
<1>8. LastVoteKept(s, r, ballots')
  BY <1>1, <1>5, <1>7 DEF LastVoteKept, SameVote
<1>9. ToldWasCast(s, r, ballots')
  <2>1. r.leader # Nil => <<s, r.leaderEpoch, r.leader>> \in ballots'
    BY <1>1, <1>5, <1>7 DEF ToldWasCast, SameVote
  <2>2. ASSUME NEW u \in Sentinels \ {s}, r.peers[u].leader # Nil
        PROVE  <<u, r.peers[u].epoch, r.peers[u].leader>> \in ballots'
    <3>1. CASE r.peers[u].leader = elect[s].peers[u].leader /\ r.peers[u].epoch = elect[s].peers[u].epoch
      BY <1>1, <1>5, <2>2, <3>1 DEF ToldWasCast
    <3>2. CASE u = t /\ r.peers[u].leader = v.leader /\ r.peers[u].epoch = v.leaderEpoch
      BY <1>5, <2>2, <3>2 DEF ToldWasCast
    <3>. QED
      BY <1>7, <3>1, <3>2
  <2>. QED
    BY <2>1, <2>2 DEF ToldWasCast
<1>10. elect' = [u \in Sentinels |-> IF u = s THEN r ELSE IF u = t THEN v ELSE elect[u]]
  BY <1>1, <1>3 DEF ElectionInv, ElectionTypeOK
<1>11. ElectionTypeOK'
  BY <1>2, <1>3, <1>4, <1>5, <1>7, <1>10 DEF ElectionInv, ElectionTypeOK
<1>12. \A u \in Sentinels : LastVoteKept(u, elect'[u], ballots') /\ ToldWasCast(u, elect'[u], ballots')
  BY <1>5, <1>8, <1>9, <1>10
<1>13. \A w \in wins' : Backed(w, ballots')
  BY <1>2, <1>3, <1>5, BackedStays
<1>. QED
  BY <1>5, <1>11, <1>12, <1>13 DEF ElectionInv

\* Starting a failover (sentinel.c:3782-3794) does not touch the vote.
LEMMA StartKeepsVote ==
  ASSUME NEW s \in Sentinels, NEW st \in Records(s)
  PROVE  LET r == StartFailover(st)
         IN  /\ r \in Records(s) /\ SameVote(st, r) /\ r.disk = st.disk /\ r.peers = st.peers
             /\ r.foState = WaitStart
<1>1. st.flags \cup {"inprog"} \in SUBSET {"inprog"}
  BY DEF Records
<1>2. st.epoch + 1 \in Nat
  BY DEF Records
<1>. QED
  BY <1>1, <1>2 DEF StartFailover, Records, SameVote, WaitStart

\* The end of sentinelFailoverWaitStart.
LEMMA AfterVoteKeeps ==
  ASSUME NEW s \in Sentinels, NEW v \in Records(s), v.foState = WaitStart, NEW front, NEW expired \in BOOLEAN
  PROVE  LET w == AfterVote(s, v, front, expired)
         IN  /\ w \in Records(s) /\ SameVote(v, w) /\ w.disk = v.disk /\ w.peers = v.peers
             /\ w.epoch = v.epoch /\ w.foEpoch = v.foEpoch
             /\ w.foState = SelectSlave => Winner(v, v.foEpoch, front) = s
<1>. DEFINE elected == [v EXCEPT !.foState = SelectSlave]
            idle == [v EXCEPT !.foState = None]
            ended == [idle EXCEPT !.flags = {}]
<1>2. /\ elected \in Records(s) /\ SameVote(v, elected) /\ elected.disk = v.disk
      /\ elected.peers = v.peers /\ elected.epoch = v.epoch /\ elected.foEpoch = v.foEpoch
  BY DEF Records, SameVote
<1>3. /\ ended \in Records(s) /\ SameVote(v, ended) /\ ended.disk = v.disk
      /\ ended.peers = v.peers /\ ended.epoch = v.epoch /\ ended.foEpoch = v.foEpoch
      /\ ended.foState # SelectSlave
  <2>1. /\ idle \in Records(s) /\ SameVote(v, idle) /\ idle.disk = v.disk
        /\ idle.peers = v.peers /\ idle.epoch = v.epoch /\ idle.foEpoch = v.foEpoch
        /\ idle.foState = None
    BY DEF Records, SameVote
  <2>2. {} \in SUBSET {"inprog"}
    OBVIOUS
  <2>. HIDE DEF idle
  <2>3. /\ ended \in Records(s) /\ SameVote(idle, ended) /\ ended.disk = idle.disk
        /\ ended.peers = idle.peers /\ ended.epoch = idle.epoch /\ ended.foEpoch = idle.foEpoch
        /\ ended.foState = idle.foState
    BY <2>1, <2>2 DEF Records, SameVote
  <2>. QED
    BY <2>1, <2>3 DEF SameVote, None, SelectSlave
<1>4. v.foState # SelectSlave /\ SameVote(v, v)
  BY DEF WaitStart, SelectSlave, SameVote
<1>5. AfterVote(s, v, front, expired)
        = IF Winner(v, v.foEpoch, front) = s THEN elected ELSE IF expired THEN ended ELSE v
  BY DEF AfterVote
<1>. HIDE DEF elected, ended
<1>. QED
  BY <1>2, <1>3, <1>4, <1>5

\* The timer of the master (sentinel.c:4216-4249): start, vote for oneself, count.
LEMMA TickKeeps ==
  ASSUME ElectionInv, NEW s \in Sentinels, ElectionTick(s)
  PROVE  ElectionInv'
<1>. DEFINE st == elect[s]
            st1 == IF st.foState = WaitStart THEN st ELSE StartFailover(st)
            fronts == IF MostVoted(st1) = {} THEN {Nil} ELSE MostVoted(st1)
            vote(front) == VoteAndSave(s, st1, st1.foEpoch, IF front = Nil THEN s ELSE front)
            counted(front, expired) == AfterVote(s, vote(front), front, expired)
            Counts(front, expired) ==
              LET w == counted(front, expired)
              IN  /\ elect' = [elect EXCEPT ![s] = w]
                  /\ ballots' = ballots \cup Ballot(s, st, w)
                  /\ wins' = IF w.foState = SelectSlave THEN wins \cup {Win(s, w)} ELSE wins
                  /\ asks' = {q \in asks : q[1] # s} \cup {<<s, t, st1.epoch>> : t \in Unanswered(s, st1)}
                  /\ restarts' = restarts
<1>1. /\ st \in Records(s) /\ LastVoteKept(s, st, ballots) /\ ToldWasCast(s, st, ballots)
      /\ asks \subseteq {x \in Sentinels \X Sentinels \X Nat : x[1] # x[2]}
      /\ restarts \subseteq Sentinels
      /\ wins \subseteq [epoch : Nat, leader : Sentinels, fresh : BOOLEAN]
      /\ \A w \in wins : Backed(w, ballots)
  BY DEF ElectionInv, ElectionTypeOK
<1>2. CASE /\ st.foState = SelectSlave
           /\ elect' = [elect EXCEPT ![s].foState = None, ![s].flags = {}]
           /\ UNCHANGED <<asks, restarts, ballots, wins>>
  <2>. DEFINE idle == [st EXCEPT !.foState = None]
              r == [idle EXCEPT !.flags = {}]
  <2>1. idle \in Records(s) /\ SameVote(st, idle) /\ idle.disk = st.disk /\ idle.peers = st.peers
    BY <1>1 DEF Records, SameVote
  <2>2. elect' = [elect EXCEPT ![s] = r]
    BY <1>2 DEF ElectionInv, ElectionTypeOK
  <2>3. {} \in SUBSET {"inprog"}
    OBVIOUS
  <2>. HIDE DEF idle
  <2>4. r \in Records(s) /\ SameVote(idle, r) /\ r.disk = idle.disk /\ r.peers = idle.peers
    BY <2>1, <2>3 DEF Records, SameVote
  <2>. HIDE DEF r
  <2>5. LastVoteKept(s, r, ballots) /\ ToldWasCast(s, r, ballots)
    BY <1>1, <2>1, <2>4 DEF LastVoteKept, ToldWasCast, SameVote
  <2>6. asks' \subseteq asks /\ restarts' \subseteq Sentinels
    BY <1>1, <1>2
  <2>. QED
    BY <1>2, <2>2, <2>4, <2>5, <2>6, OneRecordChanges
<1>3. ASSUME NEW expired \in BOOLEAN, NEW front \in fronts, Counts(front, expired)
      PROVE  ElectionInv'
  <2>. DEFINE v == vote(front)
              w == counted(front, expired)
  <2>2. front \in Sentinels \cup {Nil}
    BY <1>3 DEF MostVoted
  <2>3. st1 \in Records(s) /\ SameVote(st, st1) /\ st1.disk = st.disk /\ st1.peers = st.peers
        /\ st1.foState = WaitStart
    BY <1>1, StartKeepsVote DEF SameVote
  <2>. HIDE DEF st1
  <2>4. /\ v \in Records(s) /\ v.peers = st1.peers /\ v.foEpoch = st1.foEpoch /\ v.foState = st1.foState
        /\ v.disk.leaderEpoch = v.leaderEpoch
        /\ SameVote(st1, v) \/ NewerVote(st1, v)
    <3>1. (IF front = Nil THEN s ELSE front) \in Sentinels /\ st1.foEpoch \in Nat
      BY <2>2, <2>3 DEF Records
    <3>2. st1.disk.leaderEpoch = st1.leaderEpoch
      BY <1>1, <2>3 DEF LastVoteKept, SameVote
    <3>. QED
      BY <2>3, <3>1, <3>2, VoteIsSaved
  <2>. HIDE DEF vote
  <2>5. /\ w \in Records(s) /\ SameVote(v, w) /\ w.disk = v.disk /\ w.peers = v.peers
        /\ w.epoch = v.epoch /\ w.foEpoch = v.foEpoch
        /\ w.foState = SelectSlave => Winner(v, v.foEpoch, front) = s
    BY <2>3, <2>4, AfterVoteKeeps
  <2>6. /\ elect' = [elect EXCEPT ![s] = w]
        /\ ballots' = ballots \cup Ballot(s, st, w)
        /\ wins' = IF w.foState = SelectSlave THEN wins \cup {Win(s, w)} ELSE wins
        /\ asks' = {q \in asks : q[1] # s} \cup {<<s, t, st1.epoch>> : t \in Unanswered(s, st1)}
        /\ restarts' = restarts
    BY <1>3
  <2>. HIDE DEF v, w
  <2>7. /\ w.disk.leaderEpoch = w.leaderEpoch /\ w.peers = st.peers
        /\ SameVote(st, w) \/ NewerVote(st, w)
    BY <2>3, <2>4, <2>5 DEF SameVote, NewerVote
  <2>8. /\ ballots \subseteq ballots' /\ ballots' \subseteq Sentinels \X Nat \X Sentinels
        /\ LastVoteKept(s, w, ballots') /\ ToldWasCast(s, w, ballots')
        /\ \A t \in Sentinels \ {s} :
             LastVoteKept(t, elect[t], ballots') /\ ToldWasCast(t, elect[t], ballots')
        /\ OneVotePerEpoch'
    BY <2>5, <2>6, <2>7, CastVote
  <2>9. elect' = [t \in Sentinels |-> IF t = s THEN w ELSE elect[t]]
    BY <2>6 DEF ElectionInv, ElectionTypeOK
  <2>10. Win(s, w) \in [epoch : Nat, leader : Sentinels, fresh : BOOLEAN]
    BY <2>5 DEF Win, Records
  <2>11. w.foState = SelectSlave => Backed(Win(s, w), ballots')
    <3>1. ToldWasCast(s, v, ballots')
      BY <2>5, <2>8 DEF ToldWasCast, SameVote
    <3>2. Win(s, w) = Win(s, v)
      BY <2>5 DEF Win
    <3>. QED
      BY <2>4, <2>5, <3>1, <3>2, WinnerIsBacked
  <2>12. \A x \in wins' : Backed(x, ballots')
    BY <1>1, <2>6, <2>8, <2>11, BackedStays
  <2>13. asks' \subseteq {x \in Sentinels \X Sentinels \X Nat : x[1] # x[2]}
    <3>1. st1.epoch \in Nat
      BY <2>3 DEF Records
    <3>2. \A t \in Unanswered(s, st1) : <<s, t, st1.epoch>> \in Sentinels \X Sentinels \X Nat /\ s # t
      BY <3>1 DEF Unanswered
    <3>. QED
      BY <1>1, <2>6, <3>2
  <2>14. wins' \subseteq [epoch : Nat, leader : Sentinels, fresh : BOOLEAN]
    BY <1>1, <2>6, <2>10
  <2>15. ElectionTypeOK'
    BY <1>1, <2>5, <2>6, <2>8, <2>9, <2>13, <2>14 DEF ElectionInv, ElectionTypeOK
  <2>16. \A t \in Sentinels : LastVoteKept(t, elect'[t], ballots') /\ ToldWasCast(t, elect'[t], ballots')
    BY <2>8, <2>9
  <2>. QED
    BY <2>8, <2>12, <2>15, <2>16 DEF ElectionInv
<1>4. CASE \E waited \in When(st.delayed), expired \in BOOLEAN :
             /\ \/ st.foState = WaitStart /\ ~waited
                \/ /\ st.foState = None /\ st.delayed = waited
                   /\ st.epoch < MaxEpoch
                   /\ waited /\ Punctual => ~Waiting(s)
             /\ \E front \in fronts :
                  LET v == vote(front)
                      w == AfterVote(s, v, front, expired)
                  IN  /\ elect' = [elect EXCEPT ![s] = w]
                      /\ ballots' = ballots \cup Ballot(s, st, w)
                      /\ wins' = IF w.foState = SelectSlave THEN wins \cup {Win(s, w)} ELSE wins
             /\ asks' = {q \in asks : q[1] # s} \cup {<<s, t, st1.epoch>> : t \in Unanswered(s, st1)}
             /\ restarts' = restarts
  <2>. HIDE DEF vote, fronts, st1, st
  <2>1. \E expired \in BOOLEAN, front \in fronts : Counts(front, expired)
    BY <1>4, Zenon
  <2>. HIDE DEF Counts
  <2>. QED
    BY <1>3, <2>1
<1>. QED
  BY <1>2, <1>4, Zenon DEF ElectionTick

\* Every step keeps the invariant.
LEMMA ElectionStepKeeps ==
  ElectionInv /\ [ElectionNext]_electionVars => ElectionInv'
<1>1. SUFFICES ASSUME ElectionInv, [ElectionNext]_electionVars
               PROVE  ElectionInv'
  OBVIOUS
<1>2. ASSUME NEW s \in Sentinels \ Patient, ElectionTick(s)
      PROVE  ElectionInv'
  BY <1>1, <1>2, TickKeeps
<1>3. ASSUME NEW s \in Unstable, Restart(s)
      PROVE  ElectionInv'
  BY <1>1, <1>3, ElectionAssumption, RestartKeeps
<1>4. ASSUME NEW q \in asks, AskForVote(q[1], q[2], q[3])
      PROVE  ElectionInv'
  BY <1>1, <1>4, AskForVoteKeeps
<1>5. ASSUME NEW s \in Sentinels, NEW t \in Sentinels, s # t, Forget(s, t) \/ HearEpoch(s, t)
      PROVE  ElectionInv'
  BY <1>1, <1>5, ForgetKeeps, HearEpochKeeps
<1>6. CASE UNCHANGED electionVars
  BY <1>1, <1>6 DEF electionVars, ElectionInv, ElectionTypeOK, OneVotePerEpoch
<1>. QED
  BY <1>1, <1>2, <1>3, <1>4, <1>5, <1>6 DEF ElectionNext

-----------------------------------------------------------------------------
(* The results.                                                            *)

\* Every behaviour of the election keeps the types and what is known of the
\* votes (sentinel.c:3590-3714).
THEOREM ElectionInvariant == ElectionSpec => []ElectionInv
<1>. QED
  BY ElectionStarts, ElectionStepKeeps, PTL DEF ElectionSpec

\* sentinelVoteLeader and sentinelGetLeader (sentinel.c:3590-3714): however the
\* questions, answers, hellos, timers and restarts of any number of sentinels
\* interleave, no sentinel votes twice in an epoch, and no epoch has two leaders
\* that counted their votes before they heard of a newer one.
THEOREM ElectionSafety == ElectionSpec => []ElectionIsSafe
<1>1. ElectionInv => ElectionIsSafe
  BY MajoritiesElectOne DEF ElectionInv, ElectionIsSafe
<1>. QED
  BY <1>1, ElectionInvariant, PTL
=============================================================================
