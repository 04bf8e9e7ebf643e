------------------------------- MODULE MCServer -------------------------------
(***************************************************************************)
(* Replication, persistence and the clients of one server, one at a time:  *)
(* the initial state chooses the part, and only that one takes steps.      *)
(***************************************************************************)
EXTENDS Replication, Persistence, Clients, TLC

CONSTANT Parts      \* the parts to look at

VARIABLE part

vars == <<part, replVars, persVars, clientVars>>

(***************************************************************************)
(* Masters and slaves.                                                     *)
(***************************************************************************)
Pair == [masterOf |-> "m" :> "none" @@ "a" :> "m", writes |-> 3, conns |-> 2, breaks |-> 2, pings |-> 0,
         waits |-> 0, slaveof |-> {}, can |-> {}]
TwoSlaves == [Pair EXCEPT !.masterOf = "m" :> "none" @@ "a" :> "m" @@ "b" :> "m", !.writes = 2]
Chain == [Pair EXCEPT !.masterOf = "m" :> "none" @@ "a" :> "m" @@ "b" :> "a", !.writes = 2, !.conns = 3]

MCReplSetups ==
  {[Pair EXCEPT !.can = {"select"}],
   [Pair EXCEPT !.can = {"script", "forget"}, !.pings = 1, !.writes = 2],
   [Pair EXCEPT !.can = {"script", "aof"}],
   [TwoSlaves EXCEPT !.can = {"diskless", "fail"}],
   [TwoSlaves EXCEPT !.can = {"save", "fail"}, !.breaks = 0],
   [TwoSlaves EXCEPT !.can = {"restart"}, !.conns = 3, !.breaks = 0],
   [Chain EXCEPT !.breaks = 1],
   [Chain EXCEPT !.can = {"noone"}, !.conns = 2],
   [Pair EXCEPT !.can = {"restart", "pause"}, !.waits = 1, !.writes = 2, !.breaks = 1],
   [TwoSlaves EXCEPT !.waits = 2, !.breaks = 0],
   [TwoSlaves EXCEPT !.masterOf = "m" :> "none" @@ "a" :> "m" @@ "b" :> "none",
                     !.slaveof = {<<"m", "b">>, <<"a", "b">>}]}

\* Two setups that take TLC longer.  In them slaves are misled: a slave's slave that
\* falls back to SYNC, and a master with two slaves that becomes a slave of x.
FallsBack == [Chain EXCEPT !.conns = 5, !.breaks = 3, !.writes = 1]
Foreign == [TwoSlaves EXCEPT !.masterOf = "m" :> "none" @@ "a" :> "m" @@ "b" :> "m" @@ "x" :> "none",
                             !.writes = 1, !.conns = 4, !.breaks = 0, !.slaveof = {<<"m", "x">>}]

(***************************************************************************)
(* Files.                                                                  *)
(***************************************************************************)
AofOn == [policy |-> "everysec", aof |-> "on", writes |-> 3, rewrites |-> 0, saves |-> 0, crashes |-> 0, can |-> {}]
AofOff == [AofOn EXCEPT !.aof = "off", !.saves = 1]

MCPersSetups ==
  {[AofOn EXCEPT !.rewrites = 1, !.can = {"dbs", "fail"}],
   [AofOn EXCEPT !.rewrites = 1, !.writes = 2, !.can = {"werr", "flushall"}],
   [AofOn EXCEPT !.policy = "always", !.rewrites = 2, !.crashes = 1, !.can = {"fail", "power"}],
   [AofOn EXCEPT !.policy = "no", !.rewrites = 1, !.writes = 4, !.can = {"multi", "dbs"}],
   [AofOn EXCEPT !.rewrites = 2, !.writes = 2, !.saves = 1, !.can = {"nofsync"}],
   [AofOff EXCEPT !.saves = 2, !.writes = 4, !.crashes = 1, !.can = {"flushall", "saves", "fail", "kill"}],
   [AofOff EXCEPT !.policy = "always", !.crashes = 2, !.can = {"switch", "keepconf", "shutdown"}],
   [AofOff EXCEPT !.saves = 2, !.writes = 2, !.crashes = 2, !.can = {"switch", "shutdown", "saves", "fail"}],
   [AofOn EXCEPT !.crashes = 2, !.rewrites = 1, !.writes = 2, !.can = {"shutdown", "werr"}],
   [AofOn EXCEPT !.policy = "no", !.crashes = 2, !.can = {"shutdown", "werr", "fail"}],
   [AofOff EXCEPT !.saves = 3, !.can = {"reload", "fail"}]}

(***************************************************************************)
(* Clients: the batches each of them may send.                             *)
(***************************************************************************)
Transactions ==
  [scripts |->
     "c1" :> {<<<<"watch", "a">>, <<"multi">>, <<"rpush", "b", 1>>, <<"exec">>>>, <<<<"exec">>>>,
              <<<<"watch", "a">>, <<"get", "a">>>>, <<<<"watch", "b">>, <<"unwatch">>>>,
              <<<<"multi">>, <<"get", "a">>, <<"set", "a">>, <<"exec">>>>,
              <<<<"multi">>, <<"bad">>, <<"discard">>>>, <<<<"multi">>, <<"bad">>>>}
     @@ "c2" :> {<<<<"set", "a">>>>, <<<<"del", "a">>>>, <<<<"rename", "b", "a">>>>, <<<<"flushall">>>>,
                 <<<<"blpop", <<"a", "b">>>>, <<"exec">>>>}
     @@ "c3" :> {<<<<"brpoplpush", "b", "a">>>>, <<<<"watch", "a">>, <<"multi">>, <<"kill", "c2">>>>,
                 <<<<"exec">>>>},
   reads |-> 5, can |-> {}]

Blocking ==
  [scripts |->
     "c1" :> {<<<<"blpop", <<"a", "b">>>>, <<"quit">>>>, <<<<"brpoplpush", "a", "b">>, <<"rpush", "a", 3>>>>}
     @@ "c2" :> {<<<<"brpoplpush", "b", "a">>, <<"set", "b">>>>, <<<<"blpop", <<"b">>>>>>}
     @@ "c3" :> {<<<<"rpush", "a", 1>>, <<"rpush", "a", 2>>>>, <<<<"kill", "c1">>>>,
                 <<<<"multi">>, <<"rpush", "a", 1>>, <<"set", "b">>, <<"rpush", "a", 2>>, <<"exec">>>>,
                 <<<<"rpush", "b", 1>>, <<"sort", "b", "a">>, <<"rename", "b", "a">>>>},
   reads |-> 5, can |-> {"timeout"}]

Subscribers ==
  [scripts |->
     "c1" :> {<<<<"sub", "x">>, <<"sub", "y">>>>, <<<<"unsub">>>>, <<<<"psub", "*">>, <<"psub", "x">>>>,
              <<<<"punsub">>>>}
     @@ "c2" :> {<<<<"sub", "x">>, <<"psub", "*">>>>, <<<<"publish", "x">>>>,
                 <<<<"multi">>, <<"sub", "x">>, <<"publish", "x">>, <<"exec">>, <<"set", "a">>>>}
     @@ "c3" :> {<<<<"kill", "c1">>, <<"publish", "y">>>>, <<<<"kill", "c3">>>>},
   reads |-> 6, can |-> {}]

Paused ==
  [scripts |->
     "c1" :> {<<<<"set", "b">>>>, <<<<"watch", "b">>, <<"multi">>, <<"set", "b">>, <<"exec">>>>}
     @@ "c2" :> {<<<<"rpush", "a", 1>>>>, <<<<"multi">>, <<"rpush", "a", 1>>>>, <<<<"exec">>>>}
     @@ "c3" :> {<<<<"pause", "yes">>, <<"get", "a">>>>, <<<<"kill", "c2">>>>},
   reads |-> 5, can |-> {}]

Demoted ==
  [scripts |->
     "c1" :> {<<<<"blpop", <<"a">>>>, <<"set", "b">>>>, <<<<"rpush", "a", 1>>>>}
     @@ "c2" :> {<<<<"rpush", "a", 1>>>>, <<<<"multi">>, <<"rpush", "a", 1>>>>, <<<<"exec">>>>},
   reads |-> 5, can |-> {"demote"}]

MCClientSetups == {Transactions, Blocking, Subscribers, Paused, Demoted}

(***************************************************************************)
(* The parts that are not chosen stay in one of their initial states.      *)
(***************************************************************************)
Init ==
  /\ part \in Parts
  /\ ReplInit /\ PersInit /\ ClientsInit
  /\ part # "replication" => repl = CHOOSE s \in ReplSetups : TRUE
  /\ part # "persistence" => pers = CHOOSE s \in PersSetups : TRUE
  /\ part # "clients" => cset = CHOOSE s \in ClientSetups : TRUE

ReplicationStep == part = "replication" /\ ReplNext /\ UNCHANGED <<persVars, clientVars>>
PersistenceStep == part = "persistence" /\ PersNext /\ UNCHANGED <<replVars, clientVars>>
ClientsStep == part = "clients" /\ ClientsNext /\ UNCHANGED <<replVars, persVars>>

Next == (ReplicationStep \/ PersistenceStep \/ ClientsStep) /\ UNCHANGED part

Spec == Init /\ [][Next]_vars
=============================================================================
