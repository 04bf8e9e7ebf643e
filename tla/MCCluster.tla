------------------------------ MODULE MCCluster ------------------------------
(***************************************************************************)
(* The cluster's configuration and the migration of slots, one at a time:  *)
(* the initial state chooses the part, and only that one takes steps.      *)
(***************************************************************************)
EXTENDS Cluster, Resharding, TLC

CONSTANT Parts      \* the parts to look at

VARIABLE part

vars == <<part, clusterVars, reshVars>>

(***************************************************************************)
(* Clusters.  Without a fault, of three masters and a slave:               *)
(***************************************************************************)
Calm == [masterOf |-> 1 :> 0 @@ 2 :> 0 @@ 3 :> 0 @@ 4 :> 1, owner |-> 1 :> 1 @@ 2 :> 2 @@ 3 :> 3,
         fragile |-> {}, doomed |-> {}, mute |-> {}, laggards |-> {}, crashers |-> {}, commands |-> {},
         cuts |-> 0, crashes |-> 0, admin |-> 0, epochs |-> 1, bus |-> 0, prompt |-> TRUE, lapses |-> {}]

\* One operator's command, two slots, an empty master and two slaves.
Commanded == [Calm EXCEPT !.masterOf = 1 :> 0 @@ 2 :> 0 @@ 3 :> 1 @@ 4 :> 1, !.owner = 1 :> 1 @@ 2 :> 1,
                          !.commands = AdminCommands, !.admin = 1, !.bus = 1]
\* Two slaves of one master that are both told to take over.
Rivals == [Calm EXCEPT !.masterOf = 1 :> 0 @@ 2 :> 1 @@ 3 :> 1, !.owner = 1 :> 1,
                       !.commands = {"force"}, !.admin = 2, !.bus = 2]
\* A slave takes over, crashes and restarts, while the master's PINGs are late.
Crashing == [Rivals EXCEPT !.commands = {"force", "takeover"}, !.admin = 1, !.bus = 1,
                           !.crashers = {2, 3}, !.crashes = 1, !.laggards = {1}]
\* A master fails for good; its slave is elected, and may crash meanwhile.
Failing == [Calm EXCEPT !.fragile = {1}, !.doomed = {1}, !.cuts = 1, !.bus = 2, !.crashers = {4},
                        !.crashes = 1, !.lapses = {"election", "vote", "reports"}]
\* The master is away for a while and comes back.
Returning == [Calm EXCEPT !.masterOf = 1 :> 3 @@ 2 :> 3 @@ 3 :> 0, !.owner = 1 :> 3,
                          !.commands = {"force", "takeover"}, !.admin = 2, !.epochs = 2, !.fragile = {3},
                          !.cuts = 1, !.lapses = {"manual", "reports"}]

\* Two slaves ask the same two voters, and the time for which a voter supports no
\* other slave of a master may pass while requests are late.
Contested == [Rivals EXCEPT !.masterOf = 1 :> 0 @@ 2 :> 0 @@ 3 :> 1 @@ 4 :> 1, !.owner = 1 :> 1 @@ 2 :> 2,
                            !.mute = {1, 2}, !.prompt = FALSE, !.lapses = {"vote"}]
\* The same with three voters, one of which may crash, and no PONGs.
Crowded == [Contested EXCEPT !.masterOf = 1 :> 0 @@ 2 :> 0 @@ 3 :> 0 @@ 4 :> 1 @@ 5 :> 1,
                             !.owner = 1 :> 1 @@ 2 :> 2 @@ 3 :> 3, !.mute = 1..5,
                             !.crashers = {2}, !.crashes = 1]

MCSetups == {Commanded, Rivals, Crashing, Failing, Returning, Contested, Crowded}

(***************************************************************************)
(* Slots that move.                                                        *)
(***************************************************************************)
Moving == [faults |-> {"early", "reset"}, mishaps |-> 1, fix |-> FALSE, inorder |-> FALSE, expiries |-> {"own"}]
\* One key has a TTL and the other none; and a MIGRATE that times out between its answers.
Mixed == [Moving EXCEPT !.faults = {"reset"}, !.inorder = TRUE, !.expiries = {"own", "none"}]
Late == [Moving EXCEPT !.faults = {"late"}, !.inorder = TRUE]
Fixing == [Moving EXCEPT !.fix = TRUE, !.inorder = TRUE, !.expiries = {"none"}]
MCReshardSetups == {Moving, Mixed, Late, Fixing}

Symmetry == Permutations(SlotKeys)

Init ==
  /\ part \in Parts
  /\ ClusterInit /\ ReshardInit
  /\ part # "cluster" => setup = CHOOSE s \in Setups : TRUE
  /\ part # "reshard" => resh = CHOOSE s \in ReshardSetups : Cardinality(s.expiries) = 1

ClusterStep == part = "cluster" /\ ClusterNext /\ UNCHANGED reshVars
ReshardStep == part = "reshard" /\ ReshardNext /\ UNCHANGED clusterVars

Next == (ClusterStep \/ ReshardStep) /\ UNCHANGED part

Spec == Init /\ [][Next]_vars
=============================================================================
