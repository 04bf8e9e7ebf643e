-------------------------- MODULE SentinelScripts --------------------------
(***************************************************************************)
(* The queue of notification and reconfiguration scripts of a sentinel     *)
(* (sentinel.c, sentinelScheduleScriptExecution and the three functions    *)
(* the timer calls): scripts are forked, retried when they ask for it or   *)
(* are killed, and given up after SENTINEL_SCRIPT_MAX_RETRY.               *)
(***************************************************************************)
EXTENDS Naturals, Sequences, FiniteSets, SequencesExt

CONSTANTS SCRIPT_MAX_QUEUE, SCRIPT_MAX_RUNNING, SCRIPT_MAX_RETRY,
          MaxScripts           \* bound: scripts scheduled

ASSUME ScriptsAssumption ==
  /\ SCRIPT_MAX_RUNNING \in 1..(SCRIPT_MAX_QUEUE - 1)
  /\ SCRIPT_MAX_QUEUE \in Nat /\ SCRIPT_MAX_RETRY \in Nat \ {0}
  /\ MaxScripts \in Nat

VARIABLES scripts,        \* scripts_queue: [id, running, tries, later, dead]
          runningScripts, \* running_scripts
          scheduled,      \* scripts scheduled so far
          alive           \* the scripts whose process has not ended

scriptVars == <<scripts, runningScripts, scheduled, alive>>

Running(q) == {k \in DOMAIN q : q[k].running}

(***************************************************************************)
(* sentinelScheduleScriptExecution: when the queue is full, the oldest     *)
(* script that does not run is dropped.                                    *)
(***************************************************************************)
\* Mutant: the oldest script is dropped even if it runs.
DropHead(q) == IF Len(q) <= SCRIPT_MAX_QUEUE THEN q ELSE Tail(q)

DropOldest(q) ==
  IF Len(q) <= SCRIPT_MAX_QUEUE THEN q
  ELSE RemoveAt(q, CHOOSE k \in DOMAIN q \ Running(q) :
                     \A j \in DOMAIN q \ Running(q) : k <= j)

ScheduleScriptExecution ==
  /\ scheduled < MaxScripts
  /\ scheduled' = scheduled + 1
  /\ scripts' = DropOldest(Append(scripts,
                  [id |-> scheduled + 1, running |-> FALSE, tries |-> 0,
                   later |-> FALSE, dead |-> FALSE]))
  /\ UNCHANGED <<runningScripts, alive>>

(***************************************************************************)
(* sentinelRunPendingScripts: from the oldest, while fewer than the limit  *)
(* are thought to run.  A fork that fails leaves the script in the queue,  *)
(* its try counted.                                                        *)
(***************************************************************************)
Due(q) == {k \in DOMAIN q : ~q[k].running /\ ~q[k].later}
\* The scripts whose turn comes: those forked before leave room for another.
\* The forks of failing fail.
Tried(failing) ==
  {k \in Due(scripts) :
     runningScripts + Cardinality({j \in Due(scripts) \ failing : j < k}) < SCRIPT_MAX_RUNNING}

RunPendingScripts(failing) ==
  LET tried == Tried(failing)
      ran == tried \ failing
  IN  /\ tried # {} /\ \A k \in tried : scripts[k].tries < SCRIPT_MAX_RETRY + 2
      /\ scripts' = [k \in DOMAIN scripts |->
                       IF k \in tried THEN [scripts[k] EXCEPT !.tries = @ + 1, !.running = k \in ran]
                       ELSE scripts[k]]
      /\ runningScripts' = runningScripts + Cardinality(ran)
      /\ alive' = alive \cup {scripts[k].id : k \in ran}
      /\ UNCHANGED scheduled

\* The delay of a retry (sentinelScriptRetryDelay doubles it) passes.
RetryDelayPasses(k) ==
  /\ scripts[k].later
  /\ scripts' = [scripts EXCEPT ![k].later = FALSE]
  /\ UNCHANGED <<runningScripts, scheduled, alive>>

\* sentinelCollectTerminatedScripts for one script that ended: retry says it
\* was killed or returned 1.  A retried script leaves running_scripts as it is.
CollectTerminatedScript(k, retry) ==
  /\ scripts[k].running /\ (scripts[k].dead => retry)
  /\ IF retry /\ scripts[k].tries # SCRIPT_MAX_RETRY
     THEN /\ scripts' = [scripts EXCEPT ![k].running = FALSE,
                                        ![k].later = TRUE, ![k].dead = FALSE]
          /\ UNCHANGED runningScripts
     ELSE /\ scripts' = RemoveAt(scripts, k)
          /\ runningScripts' = runningScripts - 1
  /\ alive' = alive \ {scripts[k].id}
  /\ UNCHANGED scheduled

\* sentinelKillTimedoutScripts
KillTimedoutScript(k) ==
  /\ scripts[k].running /\ ~scripts[k].dead
  /\ scripts' = [scripts EXCEPT ![k].dead = TRUE]
  /\ UNCHANGED <<runningScripts, scheduled, alive>>

ScriptsInit ==
  scripts = <<>> /\ runningScripts = 0 /\ scheduled = 0 /\ alive = {}

ScriptsNext ==
  \/ ScheduleScriptExecution
  \/ \E failing \in SUBSET DOMAIN scripts : RunPendingScripts(failing)
  \/ \E k \in DOMAIN scripts :
       \/ RetryDelayPasses(k) \/ KillTimedoutScript(k)
       \/ \E retry \in BOOLEAN : CollectTerminatedScript(k, retry)

(***************************************************************************)
(* Properties.                                                             *)
(***************************************************************************)
\* sentinelScheduleScriptExecution never drops a script that runs: the end of
\* every process finds its job (sentinelGetScriptListNodeByPid), and no more
\* processes run than SENTINEL_SCRIPT_MAX_RUNNING.
EndsFindTheirJob ==
  /\ alive = {scripts[k].id : k \in Running(scripts)}
  /\ Cardinality(alive) <= runningScripts
  /\ runningScripts <= SCRIPT_MAX_RUNNING
=============================================================================
