----------------------------- MODULE MCSentinel -----------------------------
(***************************************************************************)
(* Sentinel, one part at a time: the initial state chooses the part, and   *)
(* only that one takes steps.                                              *)
(***************************************************************************)
EXTENDS Sentinel, SentinelScripts, SentinelLinks

CONSTANT Parts      \* the parts to look at

VARIABLE part

vars == <<part, electionVars, sentinelVars, scriptVars, linkVars>>

\* One of the slaves may not be promoted.
MCPriority == LET never == CHOOSE r \in Redis \ {FirstMaster} : TRUE
              IN  [r \in Redis |-> IF r = never THEN 0 ELSE 1]

\* A sentinel that looks for failovers, and two others.
Active == CHOOSE s \in Group \ Patient : TRUE
Voter  == CHOOSE s \in Patient : TRUE
Third  == CHOOSE s \in Group \ {Active, Voter} : TRUE

\* Two sentinels, one failover, and whatever else may happen, once.
Beginning ==
  LET two == {Active, Voter} IN
  [group |-> two, after |-> "nothing", leader |-> Active, behind |-> {}, epochs |-> 1,
   patient |-> {Voter}, heard |-> two, lossy |-> FALSE, faults |-> 1,
   may |-> {"crash", "tilt", "reset"} \X two \cup {"failover", "othermaster"} \X {Active}
           \cup {"down", "up"} \X Redis]

\* The same with answers that get lost or too old, and a restart.
Lossy == [Beginning EXCEPT !.lossy = TRUE, !.may = {"crash"} \X {Active, Voter}]

\* Three sentinels and the failover after one that Third led: it has not ended
\* that, or the voter of it is behind and may restart.
Second == [Beginning EXCEPT !.group = Group, !.after = "unfinished", !.leader = Third,
             !.patient = {Voter, Third}, !.heard = {Active}, !.epochs = 2, !.lossy = FALSE, !.may = {}]
Behind == [Second EXCEPT !.after = "switch", !.leader = Voter, !.behind = {Third},
             !.may = {<<"crash", Third>>}]

MCSetups == {Beginning, Lossy, Second, Behind}

Init ==
  /\ part \in Parts
  /\ ElectionInit /\ SentinelInit /\ ScriptsInit /\ LinksInit
  /\ part # "sentinel" => down = {} /\ setup = CHOOSE c \in Setups : c.after = "nothing"

ElectionStep == part = "election" /\ ElectionNext
                /\ UNCHANGED <<sentinelVars, scriptVars, linkVars>>
SentinelStep == part = "sentinel" /\ SentinelNext
                /\ UNCHANGED <<electionVars, scriptVars, linkVars>>
ScriptsStep == part = "scripts" /\ ScriptsNext
               /\ UNCHANGED <<electionVars, sentinelVars, linkVars>>
LinksStep == part = "links" /\ LinksNext
             /\ UNCHANGED <<electionVars, sentinelVars, scriptVars>>

Next ==
  /\ ElectionStep \/ SentinelStep \/ ScriptsStep \/ LinksStep
  /\ UNCHANGED part

Spec == Init /\ [][Next]_vars

\* What was started asynchronously comes back to the record it is for, or to
\* none: the end of a script to its job (sentinel.c:791-838), the reply of an
\* instance to a link that somebody still owns (sentinel.c:940-1112).
AnswersFindTheirOwner == EndsFindTheirJob /\ LinksAreCounted /\ NoAnswerForTheDead
=============================================================================
