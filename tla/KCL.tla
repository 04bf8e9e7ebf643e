-------------------------------- MODULE KCL --------------------------------
(***************************************************************************)
(* One shard of the Kinesis consumer: the Node.js child process of         *)
(* consumer/consumer_app/lib/kcl (KCLManager, its state machine, the       *)
(* Checkpointer and the line I/O under them), the record processor that    *)
(* runs in it, and the Java MultiLangDaemon that drives it over two pipes. *)
(*                                                                         *)
(* The daemon is not in the repository; it is modelled by the protocol     *)
(* lib/kcl speaks with it.  The record processor is an arbitrary one: it   *)
(* may call the callbacks it was given, and checkpoint, at any time.  One  *)
(* that reacts before processRecords returns takes its step right after    *)
(* OnAction.                                                               *)
(*                                                                         *)
(* Records are numbered 1 .. LastRecord in shard order.                    *)
(***************************************************************************)
EXTENDS Naturals, Sequences, KCLStateMachine

CONSTANTS
  LastRecord,   \* the number of records the shard will ever hold
  MaxRestarts,  \* bound: how often the worker is replaced after a failure
  Faults        \* the failures that may happen

FaultKinds == {"childDies", "daemonDies", "pipeFull", "writeFails"}

ASSUME LastRecordAssumption  == LastRecord \in Nat
ASSUME MaxRestartsAssumption == MaxRestarts \in Nat
ASSUME FaultsAssumption      == Faults \subseteq FaultKinds

VARIABLES
  child,         \* the KCLManager of the running child process
  completion,    \* the record processor's completion callback of each action
  toChild,       \* lines on the child's standard input, oldest first
  toDaemon,      \* lines on the child's standard output, oldest first
  daemon,        \* the MultiLangDaemon's record processor adapter
  delivered,     \* the last record the daemon sent to this child
  handed,        \* history: the records given to some record processor
  checkpointed,  \* the durable checkpoint in the lease table, 0 at first
  restarts       \* how often the worker was replaced

vars == <<child, completion, toChild, toDaemon, daemon, delivered, handed,
          checkpointed, restarts>>

----------------------------------------------------------------------------
\* Actions of the record processor, and the two state machine inputs of each.
Ops     == {"initialize", "processRecords", "shutdown"}
Reasons == {"TERMINATE", "ZOMBIE"}

Begin == [initialize     |-> "beginInitialize",
          processRecords |-> "beginProcessRecords",
          shutdown       |-> "beginShutdown"]

Finish == [initialize     |-> "finishInitialize",
           processRecords |-> "finishProcessRecords",
           shutdown       |-> "finishShutdown"]

\* A checkpoint call's sequence number; Latest stands for null.
Latest     == 0
SeqNumbers == 0 .. LastRecord

NoCallback == LastRecord + 1

\* Lines the daemon writes.  A processRecords line carries the records
\* first+1 .. last.
Requests ==
       [action : {"initialize"}]
  \cup [action : {"processRecords"}, first : SeqNumbers, last : SeqNumbers]
  \cup [action : {"shutdown"}, reason : Reasons]
Responses  == [action : {"checkpoint"}, checkpoint : SeqNumbers, error : BOOLEAN]

\* Lines the child writes.
Statuses        == [action : {"status"}, responseFor : Ops]
CheckpointCalls == [action : {"checkpoint"}, checkpoint : SeqNumbers]

\* A child: the machine's state, whether its handlers are still in place, the
\* number the pending checkpoint callback was registered with, and whether a
\* write reported an error.
Children == [state : States, alive : BOOLEAN,
             callback : SeqNumbers \cup {NoCallback}, writeError : BOOLEAN]

\* The daemon: the request it waits for the status of, and whether it runs.
Daemons == [phase : Ops \cup {"start", "ready", "closed"}, up : BOOLEAN]

NewChild      == [state |-> "Start", alive |-> TRUE, callback |-> NoCallback,
                  writeError |-> FALSE]
NewDaemon     == [phase |-> "start", up |-> TRUE]
NewCompletion == [op \in Ops |-> "never"]

Init ==
  /\ child = NewChild
  /\ completion = NewCompletion
  /\ toChild = << >>
  /\ toDaemon = << >>
  /\ daemon = NewDaemon
  /\ delivered = 0
  /\ handed = {}
  /\ checkpointed = 0
  /\ restarts = 0

----------------------------------------------------------------------------
(* The child process: the manager's functions as transformers of `child`.  *)
(* alive becomes FALSE when an exception ends the handler: _cleanup() has  *)
(* removed the listeners, so no further line is handled, and the exception *)
(* is not caught by anyone.                                                *)

\* Mutant: the result of handle() is not looked at.
HandleStateInputUnchecked(c, input) ==
  IF Accepts(c.state, input)
  THEN [c EXCEPT !.state = Target(c.state, input)]
  ELSE c

\* _handleStateInput
HandleStateInput(c, input) ==
  IF Accepts(c.state, input)
  THEN [c EXCEPT !.state = Target(c.state, input)]
  ELSE [c EXCEPT !.state = "Error", !.alive = FALSE]

\* _sendAction and writeLine: the line is written; or write() returns false,
\* which calls back with an error at once although the line is only queued
\* (it still leaves the process, or dies with it); or the write fails and the
\* error is reported later, by OnWriteError.  A child whose handler has
\* already thrown does not get here.
SendAction(c, line) ==
  \/ /\ ~c.alive
     /\ child' = c
     /\ UNCHANGED toDaemon
  \/ /\ c.alive
     /\ child' = c
     /\ toDaemon' = Append(toDaemon, line)
  \/ /\ c.alive
     /\ "pipeFull" \in Faults
     /\ child' = HandleStateInput([c EXCEPT !.writeError = TRUE], "error")
     /\ toDaemon' \in {toDaemon, Append(toDaemon, line)}
  \/ /\ c.alive
     /\ "writeFails" \in Faults
     /\ child' = [c EXCEPT !.writeError = TRUE]
     /\ UNCHANGED toDaemon

\* _onRecordProcessorAction: the record processor is called with a callback.
OnRecordProcessorAction ==
  /\ child.alive
  /\ toChild # << >>
  /\ Head(toChild).action \in Ops
  /\ LET line == Head(toChild)
         c    == HandleStateInput(child, Begin[line.action])
     IN  /\ child' = c
         /\ completion' = IF c.alive
                          THEN [completion EXCEPT ![line.action] = "open"]
                          ELSE completion
         /\ handed' = IF c.alive /\ line.action = "processRecords"
                      THEN handed \cup (line.first + 1 .. line.last)
                      ELSE handed
  /\ toChild' = Tail(toChild)
  /\ UNCHANGED <<toDaemon, daemon, delivered, checkpointed, restarts>>

\* Mutant: the callback is called but not forgotten.
OnCheckpointActionKeepsCallback ==
  /\ child.alive
  /\ toChild # << >>
  /\ Head(toChild).action = "checkpoint"
  /\ child' = HandleStateInput(child, "finishCheckpoint")
  /\ toChild' = Tail(toChild)
  /\ UNCHANGED <<completion, toDaemon, daemon, delivered, handed, checkpointed,
                 restarts>>

\* _onCheckpointAction and onCheckpointerResponse: the callback is forgotten,
\* then called.
OnCheckpointAction ==
  /\ child.alive
  /\ toChild # << >>
  /\ Head(toChild).action = "checkpoint"
  /\ LET c == HandleStateInput(child, "finishCheckpoint")
     IN  child' = IF c.alive THEN [c EXCEPT !.callback = NoCallback] ELSE c
  /\ toChild' = Tail(toChild)
  /\ UNCHANGED <<completion, toDaemon, daemon, delivered, handed, checkpointed,
                 restarts>>

\* Mutant: the end of the input is ignored unless the work is done.
OnActionEndIgnored ==
  /\ child.alive
  /\ toChild = << >>
  /\ ~daemon.up \/ daemon.phase = "closed"
  /\ child' = [child EXCEPT !.alive = child.state # "End"]
  /\ UNCHANGED <<completion, toChild, toDaemon, daemon, delivered, handed,
                 checkpointed, restarts>>

\* _onActionEnd: standard input is closed.  cleanup is accepted in End only;
\* either way the listeners are gone afterwards.
OnActionEnd ==
  /\ child.alive
  /\ toChild = << >>
  /\ ~daemon.up \/ daemon.phase = "closed"
  /\ child' = [HandleStateInput(child, "cleanup") EXCEPT !.alive = FALSE]
  /\ UNCHANGED <<completion, toChild, toDaemon, daemon, delivered, handed,
                 checkpointed, restarts>>

\* Mutant: the write error is dropped.
OnWriteErrorDropped ==
  /\ child.alive
  /\ child.writeError
  /\ child' = [child EXCEPT !.writeError = FALSE]
  /\ UNCHANGED <<completion, toChild, toDaemon, daemon, delivered, handed,
                 checkpointed, restarts>>

\* The callback of a write that failed after write() had returned.
OnWriteError ==
  /\ child.alive
  /\ child.writeError
  /\ child' = HandleStateInput(child, "error")
  /\ UNCHANGED <<completion, toChild, toDaemon, daemon, delivered, handed,
                 checkpointed, restarts>>

\* The process is killed, or the application throws.
ChildDies ==
  /\ "childDies" \in Faults
  /\ child.alive
  /\ child' = [child EXCEPT !.alive = FALSE]
  /\ UNCHANGED <<completion, toChild, toDaemon, daemon, delivered, handed,
                 checkpointed, restarts>>

----------------------------------------------------------------------------
(* The record processor.                                                   *)

\* It calls the completion callback of an action, _recordProcessorCallback,
\* again and again if it likes.
Complete(op) ==
  /\ child.alive
  /\ completion[op] # "never"
  /\ SendAction(HandleStateInput(child, Finish[op]),
                [action |-> "status", responseFor |-> op])
  /\ completion' = [completion EXCEPT ![op] = "called"]
  /\ UNCHANGED <<toChild, daemon, delivered, handed, checkpointed, restarts>>

\* Does the record processor hold the checkpointer?  It is passed to
\* processRecords and shutdown.
MayCheckpoint == \E op \in {"processRecords", "shutdown"} : completion[op] # "never"

\* Mutant: the sequence number is not passed on.
CheckpointWithoutNumber(seq) ==
  /\ child.alive
  /\ MayCheckpoint
  /\ child.callback = NoCallback
  /\ SendAction(HandleStateInput([child EXCEPT !.callback = seq],
                                 "beginCheckpoint"),
                [action |-> "checkpoint", checkpoint |-> Latest])
  /\ UNCHANGED <<completion, toChild, daemon, delivered, handed, checkpointed,
                 restarts>>

\* It calls Checkpointer.checkpoint, and with it KCLManager.checkpoint.  A
\* call while another is in progress is answered with an error, and nothing
\* changes.
Checkpoint(seq) ==
  /\ child.alive
  /\ MayCheckpoint
  /\ \/ /\ child.callback # NoCallback
        /\ UNCHANGED <<child, toDaemon>>
     \/ /\ child.callback = NoCallback
        /\ SendAction(HandleStateInput([child EXCEPT !.callback = seq],
                                       "beginCheckpoint"),
                      [action |-> "checkpoint", checkpoint |-> seq])
  /\ UNCHANGED <<completion, toChild, daemon, delivered, handed, checkpointed,
                 restarts>>

----------------------------------------------------------------------------
(* The MultiLangDaemon (external): it sends one request, then reads lines  *)
(* until the status of that request arrives.                               *)

SendRequest(line) ==
  /\ toChild' = Append(toChild, line)
  /\ daemon' = [daemon EXCEPT !.phase = line.action]
  /\ UNCHANGED <<child, completion, toDaemon, handed, checkpointed, restarts>>

SendInitialize ==
  /\ daemon.up
  /\ daemon.phase = "start"
  /\ SendRequest([action |-> "initialize"])
  /\ UNCHANGED delivered

SendRecords ==
  /\ daemon.up
  /\ daemon.phase = "ready"
  /\ \E last \in delivered .. LastRecord :
        /\ SendRequest([action |-> "processRecords", first |-> delivered,
                        last |-> last])
        /\ delivered' = last

SendShutdown ==
  /\ daemon.up
  /\ daemon.phase = "ready"
  /\ \E reason \in Reasons :
        /\ reason = "TERMINATE" => delivered = LastRecord
        /\ SendRequest([action |-> "shutdown", reason |-> reason])
  /\ UNCHANGED delivered

\* A status ends the request it answers; after shutdown the daemon closes the
\* child's standard input.  A status for another request ends the daemon.
ReceiveStatus ==
  /\ daemon.up
  /\ toDaemon # << >>
  /\ Head(toDaemon).action = "status"
  /\ daemon' = IF Head(toDaemon).responseFor # daemon.phase
               THEN [daemon EXCEPT !.up = FALSE]
               ELSE IF daemon.phase = "shutdown"
                    THEN [daemon EXCEPT !.phase = "closed"]
                    ELSE [daemon EXCEPT !.phase = "ready"]
  /\ toDaemon' = Tail(toDaemon)
  /\ UNCHANGED <<child, completion, toChild, delivered, handed, checkpointed,
                 restarts>>

\* A checkpoint request is answered with an error (throttled, lease lost) and
\* leaves the lease table alone, or is written to it.  A number outside
\* checkpointed .. delivered is refused; Latest stands for delivered.
ReceiveCheckpoint ==
  /\ daemon.up
  /\ toDaemon # << >>
  /\ Head(toDaemon).action = "checkpoint"
  /\ LET asked == Head(toDaemon).checkpoint
         seq   == IF asked = Latest THEN delivered ELSE asked
     IN  \/ /\ toChild' = Append(toChild, [action |-> "checkpoint",
                                           checkpoint |-> asked, error |-> TRUE])
            /\ UNCHANGED checkpointed
         \/ /\ checkpointed <= seq /\ seq <= delivered
            /\ toChild' = Append(toChild, [action |-> "checkpoint",
                                           checkpoint |-> seq, error |-> FALSE])
            /\ checkpointed' = seq
  /\ toDaemon' = Tail(toDaemon)
  /\ UNCHANGED <<child, completion, daemon, delivered, handed, restarts>>

\* The child's standard output is closed while the daemon waits for a status.
NoticeChildDeath ==
  /\ daemon.up
  /\ daemon.phase # "closed"
  /\ ~child.alive
  /\ toDaemon = << >>
  /\ daemon' = [daemon EXCEPT !.up = FALSE]
  /\ UNCHANGED <<child, completion, toChild, toDaemon, delivered, handed,
                 checkpointed, restarts>>

DaemonDies ==
  /\ "daemonDies" \in Faults
  /\ daemon.up
  /\ daemon' = [daemon EXCEPT !.up = FALSE]
  /\ UNCHANGED <<child, completion, toChild, toDaemon, delivered, handed,
                 checkpointed, restarts>>

\* Another worker takes the shard over and resumes after the checkpoint.
Finished == daemon.up /\ daemon.phase = "closed" /\ checkpointed = LastRecord

Restart ==
  /\ ~child.alive
  /\ ~daemon.up \/ daemon.phase = "closed"
  /\ ~Finished
  /\ restarts < MaxRestarts
  /\ restarts' = restarts + 1
  /\ child' = NewChild
  /\ completion' = NewCompletion
  /\ toChild' = << >>
  /\ toDaemon' = << >>
  /\ daemon' = NewDaemon
  /\ delivered' = checkpointed
  /\ UNCHANGED <<handed, checkpointed>>

\* Nothing is left to do, or the bound on restarts is reached.
Stop ==
  /\ ~child.alive
  /\ ~daemon.up \/ daemon.phase = "closed"
  /\ Finished \/ restarts = MaxRestarts
  /\ UNCHANGED vars

----------------------------------------------------------------------------
ManagerStep == \/ OnRecordProcessorAction
               \/ OnCheckpointAction
               \/ OnActionEnd
               \/ OnWriteError
ProcessorStep == \/ \E op \in Ops : Complete(op)
                 \/ \E seq \in SeqNumbers : Checkpoint(seq)
DaemonStep == \/ SendInitialize
              \/ SendRecords
              \/ SendShutdown
              \/ ReceiveStatus
              \/ ReceiveCheckpoint
              \/ NoticeChildDeath
Failure == ChildDies \/ DaemonDies \/ Restart

Next == ManagerStep \/ ProcessorStep \/ DaemonStep \/ Failure \/ Stop

Spec == Init /\ [][Next]_vars

----------------------------------------------------------------------------
\* Every variable has the values its description promises.
TypeOK ==
  /\ child \in Children
  /\ completion \in [Ops -> {"never", "open", "called"}]
  /\ toChild \in Seq(Requests \cup Responses)
  /\ toDaemon \in Seq(Statuses \cup CheckpointCalls)
  /\ daemon \in Daemons
  /\ delivered \in SeqNumbers
  /\ handed \in SUBSET (1 .. LastRecord)
  /\ checkpointed \in SeqNumbers
  /\ restarts \in 0 .. MaxRestarts

\* Whatever the record processor does, the child's output follows the wire
\* protocol: at most one line is under way, and it is what the daemon waits
\* for: the status of the request it sent last, or a checkpoint request
\* during processRecords or shutdown (kcl_manager.js:201-297).
WireProtocol ==
  /\ Len(toChild) + Len(toDaemon) <= 1
  /\ toDaemon # << >> =>
       \/ Head(toDaemon) \in Statuses /\ Head(toDaemon).responseFor = daemon.phase
       \/ /\ Head(toDaemon) \in CheckpointCalls
          /\ daemon.phase \in {"processRecords", "shutdown"}

\* The Checkpointer holds a callback exactly when the state machine waits for
\* a checkpoint response, so onCheckpointerResponse (checkpointer.js:69-73)
\* never calls null, and a later checkpoint is never refused by a callback
\* left behind.
CallbackMatchesState ==
  child.alive =>
    (child.callback # NoCallback
       <=> child.state \in {"Checkpointing", "FinalCheckpointing"})

\* A checkpoint answer on its way to the child is for the number the pending
\* callback was registered with, and when it reports success the lease table
\* holds it.
AnswerIsForThisCall ==
  child.alive =>
    \A i \in 1 .. Len(toChild) :
      toChild[i].action = "checkpoint" =>
        /\ child.callback # NoCallback
        /\ child.callback \in {Latest, toChild[i].checkpoint}
        /\ ~toChild[i].error => checkpointed = toChild[i].checkpoint

\* checkpointer.js:21-23: every record up to the checkpoint was given to a
\* record processor, also when children and daemons die, a null checkpoint
\* asks for the latest record, and stale callbacks are called.
NoSkippedRecord == 1 .. checkpointed \subseteq handed

----------------------------------------------------------------------------
(* The inductive invariant behind all of the above.  A request is a        *)
(* conversation of two parties that take turns, and in every turn the      *)
(* child, while it lives, is in the state that belongs to it.              *)

Before == [initialize |-> "Start", processRecords |-> "Ready", shutdown |-> "Ready"]
During == [initialize |-> "Initializing", processRecords |-> "Processing",
           shutdown |-> "ShuttingDown"]
After  == [initialize |-> "Ready", processRecords |-> "Ready", shutdown |-> "End"]
Asking == [initialize |-> "Error", processRecords |-> "Checkpointing",
           shutdown |-> "FinalCheckpointing"]

ChildIs(state) ==
  child.alive => child.state = state /\ child.callback = NoCallback

\* No request is under way.
NoRequest ==
  /\ toChild = << >> /\ toDaemon = << >>
  /\ \/ daemon.phase = "start"  /\ ChildIs("Start")
     \/ daemon.phase = "ready"  /\ ChildIs("Ready")
     \/ daemon.phase = "closed" /\ ChildIs("End")

\* The request is not read yet.
RequestSent ==
  /\ daemon.phase \in Ops
  /\ toDaemon = << >>
  /\ \E line \in Requests : toChild = <<line>> /\ line.action = daemon.phase
  /\ ChildIs(Before[daemon.phase])

\* The record processor is at work, or a line of the child got lost.
NoLine ==
  /\ daemon.phase \in Ops
  /\ toChild = << >> /\ toDaemon = << >>
  /\ \/ ChildIs(During[daemon.phase])
     \/ child.writeError /\ ChildIs(After[daemon.phase])
     \/ /\ child.writeError
        /\ daemon.phase # "initialize"
        /\ child.alive => /\ child.state = Asking[daemon.phase]
                          /\ child.callback # NoCallback

\* The status is on its way.
StatusSent ==
  /\ daemon.phase \in Ops
  /\ toChild = << >>
  /\ toDaemon = <<[action |-> "status", responseFor |-> daemon.phase]>>
  /\ ChildIs(After[daemon.phase])

\* A checkpoint request is on its way.
CheckpointSent ==
  /\ daemon.phase \in {"processRecords", "shutdown"}
  /\ toChild = << >>
  /\ \E line \in CheckpointCalls :
        /\ toDaemon = <<line>>
        /\ child.alive => /\ child.state = Asking[daemon.phase]
                          /\ child.callback = line.checkpoint

\* The answer to a checkpoint request is on its way.
AnswerSent ==
  /\ daemon.phase \in {"processRecords", "shutdown"}
  /\ toDaemon = << >>
  /\ \E line \in Responses :
        /\ toChild = <<line>>
        /\ ~line.error => checkpointed = line.checkpoint
        /\ child.alive => /\ child.state = Asking[daemon.phase]
                          /\ child.callback \in {Latest, line.checkpoint}

TakingTurns ==
  NoRequest \/ RequestSent \/ NoLine \/ StatusSent \/ CheckpointSent \/ AnswerSent

\* Only the records of a request that is not read yet are delivered and not
\* handed over, and no checkpoint can be asked for at that time.
HandedOver ==
  /\ checkpointed <= delivered
  /\ 1 .. checkpointed \subseteq handed
  /\ \A line \in Requests :
       toChild = <<line>> /\ line.action = "processRecords"
         => 1 .. line.first \subseteq handed /\ line.last = delivered
  /\ (\A line \in Requests : toChild = <<line>> => line.action # "processRecords")
       => 1 .. delivered \subseteq handed

\* The state of the child, the daemon's phase, the lines under way and the
\* records handed over fit together in every state.
Conversation == TypeOK /\ TakingTurns /\ HandedOver

----------------------------------------------------------------------------
\* The shard-level promise this implements.
Progress == INSTANCE ShardProgress
ShardProgressSpec == Progress!Spec
=============================================================================
