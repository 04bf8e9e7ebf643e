--------------------------- MODULE SampleKclApp ----------------------------
(***************************************************************************)
(* The record processor of consumer/consumer_app/consumer/                 *)
(* sample_kcl_app.js running in the child of module KCL: what it does with *)
(* the calls it gets from the manager, and in which order.  What it does   *)
(* with the records themselves is module Consumer's subject.               *)
(*                                                                         *)
(* The processor reacts inside the call; here its reaction is the next     *)
(* step, which is the same to the manager.                                 *)
(***************************************************************************)
EXTENDS KCL

VARIABLES
  todo,    \* what the processor does next about the call in progress
  refused  \* history: the last checkpoint answer was an error

appVars == <<vars, todo, refused>>

Idle                   == [do |-> "nothing"]
CompleteNext(op)       == [do |-> "complete", op |-> op]
CheckpointNext(op, seq) == [do |-> "checkpoint", op |-> op, seq |-> seq]
AwaitCheckpoint(op)    == [do |-> "await", op |-> op]

AppInit == Init /\ todo = Idle /\ refused = FALSE

\* Mutant: a batch is checkpointed at its first record.
ReactionFirstRecord(line) ==
  CASE line.action = "initialize" -> CompleteNext("initialize")
    [] line.action = "processRecords" ->
         IF line.first = line.last
         THEN CompleteNext("processRecords")
         ELSE CheckpointNext("processRecords", line.first + 1)
    [] line.action = "shutdown" -> CompleteNext("shutdown")

\* initialize completes at once.  processRecords completes at once when the
\* batch was empty, and otherwise checkpoints at the last record's sequence
\* number first.  shutdown checkpoints, without a number, on TERMINATE only.
Reaction(line) ==
  CASE line.action = "initialize" -> CompleteNext("initialize")
    [] line.action = "processRecords" ->
         IF line.first = line.last
         THEN CompleteNext("processRecords")
         ELSE CheckpointNext("processRecords", line.last)
    [] line.action = "shutdown" ->
         IF line.reason # "TERMINATE"
         THEN CompleteNext("shutdown")
         ELSE CheckpointNext("shutdown", Latest)

AppCalled ==
  /\ OnRecordProcessorAction
  /\ todo' = IF child'.alive THEN Reaction(Head(toChild)) ELSE Idle
  /\ UNCHANGED refused

\* Mutant: the batch is completed without waiting for the checkpoint.
AppCheckpointNoWait ==
  /\ todo.do = "checkpoint"
  /\ Checkpoint(todo.seq)
  /\ todo' = CompleteNext(todo.op)
  /\ UNCHANGED refused

AppCheckpoint ==
  /\ todo.do = "checkpoint"
  /\ Checkpoint(todo.seq)
  /\ todo' = AwaitCheckpoint(todo.op)
  /\ UNCHANGED refused

\* The checkpoint callback ignores its error argument and completes.
AppCheckpointed ==
  /\ OnCheckpointAction
  /\ todo' = IF child'.alive THEN CompleteNext(todo.op) ELSE todo
  /\ refused' = Head(toChild).error

AppComplete ==
  /\ todo.do = "complete"
  /\ Complete(todo.op)
  /\ todo' = Idle
  /\ UNCHANGED refused

AppRestart == Restart /\ todo' = Idle /\ refused' = FALSE

\* A step of the manager or the daemon that the application does not see.
Elsewhere(A) == A /\ UNCHANGED <<todo, refused>>

AppNext ==
  \/ AppCalled
  \/ AppCheckpoint
  \/ AppCheckpointed
  \/ AppComplete
  \/ AppRestart
  \/ Elsewhere(OnActionEnd)
  \/ Elsewhere(OnWriteError)
  \/ Elsewhere(DaemonStep)
  \/ Elsewhere(ChildDies \/ DaemonDies \/ Stop)

\* The event loop runs every callback that is due, the application's calls are
\* made in the turn that makes them due, and the daemon reads what arrives.
\* Nothing obliges the daemon to fetch more records, anyone to fail, or a
\* worker to be replaced.
Fairness ==
  /\ WF_appVars(AppCalled)
  /\ WF_appVars(AppCheckpoint)
  /\ WF_appVars(AppCheckpointed)
  /\ WF_appVars(AppComplete)
  /\ WF_appVars(Elsewhere(OnActionEnd))
  /\ WF_appVars(Elsewhere(OnWriteError))
  /\ WF_appVars(Elsewhere(SendInitialize))
  /\ WF_appVars(Elsewhere(ReceiveStatus))
  /\ WF_appVars(Elsewhere(ReceiveCheckpoint))
  /\ WF_appVars(Elsewhere(NoticeChildDeath))

AppSpec == AppInit /\ [][AppNext]_appVars /\ Fairness

----------------------------------------------------------------------------
\* The daemon, which has no timeout of its own, never waits for ever: every
\* request is answered, or the child's end is noticed, also when a line is
\* lost to a failed write or a full pipe (kcl_manager.js:317-341).
Waiting == daemon.up /\ daemon.phase \in Ops
EveryRequestAnswered == Waiting ~> ~Waiting

\* sample_kcl_app.js:82-90 and 101-104: a batch is complete only after its
\* checkpoint was answered.  So whenever the daemon has the status of its
\* last request, all it delivered is checkpointed, unless the last
\* checkpoint was refused.
CheckpointKeepsUp ==
  daemon.up /\ daemon.phase \in {"ready", "closed"} /\ ~refused
    => checkpointed = delivered

\* The application's calls never end in the state machine's Error state: only
\* a write error or a daemon that is gone does that.
AppHonoursContract ==
  child.state = "Error" => child.writeError \/ ~daemon.up

\* A child that outlives its daemon stops listening once its standard input is closed:
\* kcl_manager.js:230-234 removes the listeners (alive is FALSE), and no line is
\* handled after that.  When node.js ends the process is outside the model.
NoOrphan == (~daemon.up \/ daemon.phase = "closed") ~> ~child.alive

\* Neither process waits for the other for ever: the daemon for an answer, the
\* child for a request of a daemon that is gone (kcl_manager.js:317-341).
NobodyWaitsForEver == EveryRequestAnswered /\ NoOrphan
=============================================================================
