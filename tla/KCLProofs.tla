----------------------------- MODULE KCLProofs ------------------------------
(***************************************************************************)
(* Proofs about KCL, for every number of records and restarts, every set   *)
(* of faults, and every record processor.                                  *)
(***************************************************************************)
EXTENDS KCL, TLAPS

\* kcl_manager.js:37-149: which state accepts which input, and where it leads.
LEMMA Transitions ==
  ASSUME NEW s \in States
  PROVE  /\ Accepts(s, "beginInitialize")      <=> s = "Start"
         /\ Accepts(s, "finishInitialize")     <=> s = "Initializing"
         /\ Accepts(s, "beginProcessRecords")  <=> s = "Ready"
         /\ Accepts(s, "finishProcessRecords") <=> s = "Processing"
         /\ Accepts(s, "beginShutdown")        <=> s = "Ready"
         /\ Accepts(s, "finishShutdown")       <=> s = "ShuttingDown"
         /\ Accepts(s, "beginCheckpoint")      <=> s \in {"Processing", "ShuttingDown"}
         /\ Accepts(s, "finishCheckpoint")
              <=> s \in {"Checkpointing", "FinalCheckpointing"}
         /\ Accepts(s, "cleanup")              <=> s = "End"
         /\ ~Accepts(s, "error")
BY DEF States, Accepts, Handlers

LEMMA Targets ==
  /\ Target("Start", "beginInitialize") = "Initializing"
  /\ Target("Initializing", "finishInitialize") = "Ready"
  /\ Target("Ready", "beginProcessRecords") = "Processing"
  /\ Target("Processing", "finishProcessRecords") = "Ready"
  /\ Target("Ready", "beginShutdown") = "ShuttingDown"
  /\ Target("ShuttingDown", "finishShutdown") = "End"
  /\ Target("Processing", "beginCheckpoint") = "Checkpointing"
  /\ Target("ShuttingDown", "beginCheckpoint") = "FinalCheckpointing"
  /\ Target("Checkpointing", "finishCheckpoint") = "Processing"
  /\ Target("FinalCheckpointing", "finishCheckpoint") = "ShuttingDown"
  /\ Target("End", "cleanup") = "End"
BY DEF Target, Accepts, Handlers

LEMMA OneLine ==
  ASSUME NEW line
  PROVE  /\ <<line>> # << >>
         /\ Head(<<line>>) = line
         /\ Tail(<<line>>) = << >>
         /\ Len(<<line>>) = 1
         /\ Append(<< >>, line) = <<line>>
OBVIOUS

\* The machine stays within its states.
LEMMA TargetType ==
  ASSUME NEW s \in States, NEW input
  PROVE  Target(s, input) \in States
BY DEF Target, Accepts, States, Handlers

\* _handleStateInput on an input the state accepts, and on one it does not.
LEMMA StateInput ==
  ASSUME NEW c \in Children, NEW input
  PROVE  LET d == HandleStateInput(c, input)
         IN  /\ d \in Children
             /\ d.alive = (c.alive /\ Accepts(c.state, input))
             /\ d.state = Target(c.state, input)
             /\ d.callback = c.callback
             /\ d.writeError = c.writeError
<1>1. Target(c.state, input) \in States
  BY TargetType DEF Children
<1>. QED
  BY <1>1 DEF HandleStateInput, Children, Target, States

----------------------------------------------------------------------------
(* Type correctness.                                                       *)

LEMMA SendActionType ==
  ASSUME TypeOK, NEW c \in Children, NEW line \in Statuses \cup CheckpointCalls,
         SendAction(c, line)
  PROVE  child' \in Children /\ toDaemon' \in Seq(Statuses \cup CheckpointCalls)
<1>. DEFINE broken == [c EXCEPT !.writeError = TRUE]
<1>1. broken \in Children
  BY DEF Children
<1>2. HandleStateInput(broken, "error") \in Children
  BY <1>1, StateInput
<1>3. Append(toDaemon, line) \in Seq(Statuses \cup CheckpointCalls)
  BY DEF TypeOK
<1>. QED
  BY <1>1, <1>2, <1>3 DEF SendAction, TypeOK

LEMMA InitType == Init => TypeOK
BY LastRecordAssumption, MaxRestartsAssumption
   DEF Init, TypeOK, NewChild, NewDaemon, NewCompletion, Children, Daemons, States,
       SeqNumbers, NoCallback, Ops

LEMMA ManagerType ==
  ASSUME TypeOK, ManagerStep
  PROVE  TypeOK'
<1>. USE DEF TypeOK
<1>1. CASE OnRecordProcessorAction
  <2>. DEFINE line == Head(toChild)
              c    == HandleStateInput(child, Begin[line.action])
  <2>1. line \in Requests \cup Responses /\ toChild' \in Seq(Requests \cup Responses)
    BY <1>1 DEF OnRecordProcessorAction
  <2>2. c \in Children
    BY StateInput
  <2>3. line.action \in Ops /\ line \in Requests
    BY <1>1, <2>1 DEF OnRecordProcessorAction, Responses, Ops
  <2>4. completion' \in [Ops -> {"never", "open", "called"}]
    BY <1>1, <2>3 DEF OnRecordProcessorAction
  <2>5. line.action = "processRecords" => line.first + 1 .. line.last \subseteq 1 .. LastRecord
    BY <2>3, LastRecordAssumption DEF Requests, SeqNumbers
  <2>6. handed' \in SUBSET (1 .. LastRecord)
    BY <1>1, <2>5 DEF OnRecordProcessorAction
  <2>. QED
    BY <1>1, <2>1, <2>2, <2>4, <2>6 DEF OnRecordProcessorAction
<1>2. CASE OnCheckpointAction
  <2>. DEFINE c == HandleStateInput(child, "finishCheckpoint")
  <2>1. c \in Children
    BY StateInput
  <2>2. [c EXCEPT !.callback = NoCallback] \in Children
    BY <2>1 DEF Children
  <2>3. toChild' \in Seq(Requests \cup Responses)
    BY <1>2 DEF OnCheckpointAction
  <2>. QED
    BY <1>2, <2>1, <2>2, <2>3 DEF OnCheckpointAction
<1>3. CASE OnActionEnd
  <2>1. HandleStateInput(child, "cleanup") \in Children
    BY StateInput
  <2>2. [HandleStateInput(child, "cleanup") EXCEPT !.alive = FALSE] \in Children
    BY <2>1 DEF Children
  <2>. QED
    BY <1>3, <2>2 DEF OnActionEnd
<1>4. CASE OnWriteError
  BY <1>4, StateInput DEF OnWriteError
<1>. QED
  BY <1>1, <1>2, <1>3, <1>4 DEF ManagerStep

LEMMA ProcessorType ==
  ASSUME TypeOK, ProcessorStep
  PROVE  TypeOK'
<1>1. ASSUME NEW op \in Ops, Complete(op)
      PROVE  TypeOK'
  <2>1. HandleStateInput(child, Finish[op]) \in Children
    BY StateInput DEF TypeOK
  <2>2. [action |-> "status", responseFor |-> op] \in Statuses
    BY DEF Statuses
  <2>3. child' \in Children /\ toDaemon' \in Seq(Statuses \cup CheckpointCalls)
    BY <1>1, <2>1, <2>2, SendActionType DEF Complete
  <2>. QED
    BY <1>1, <2>3 DEF Complete, TypeOK
<1>2. ASSUME NEW seq \in SeqNumbers, Checkpoint(seq)
      PROVE  TypeOK'
  <2>. DEFINE asking == [child EXCEPT !.callback = seq]
  <2>1. HandleStateInput(asking, "beginCheckpoint") \in Children
    <3>1. asking \in Children
      BY DEF TypeOK, Children
    <3>. QED  BY <3>1, StateInput
  <2>2. [action |-> "checkpoint", checkpoint |-> seq] \in CheckpointCalls
    BY DEF CheckpointCalls
  <2>3. child' \in Children /\ toDaemon' \in Seq(Statuses \cup CheckpointCalls)
    <3>1. CASE child.callback # NoCallback
      BY <1>2, <3>1 DEF Checkpoint, TypeOK
    <3>2. CASE child.callback = NoCallback
      BY <1>2, <2>1, <2>2, <3>2, SendActionType DEF Checkpoint
    <3>. QED  BY <3>1, <3>2
  <2>. QED
    BY <1>2, <2>3 DEF Checkpoint, TypeOK
<1>. QED
  BY <1>1, <1>2 DEF ProcessorStep

LEMMA SendRequestType ==
  ASSUME TypeOK, NEW line \in Requests, SendRequest(line)
  PROVE  toChild' \in Seq(Requests \cup Responses) /\ daemon' \in Daemons
<1>1. line.action \in Ops
  BY DEF Requests, Ops
<1>2. daemon' \in Daemons
  BY <1>1 DEF SendRequest, TypeOK, Daemons
<1>. QED
  BY <1>2 DEF SendRequest, TypeOK

LEMMA DaemonType ==
  ASSUME TypeOK, DaemonStep
  PROVE  TypeOK'
<1>. USE DEF TypeOK
<1>1. CASE SendInitialize
  <2>1. [action |-> "initialize"] \in Requests
    BY DEF Requests
  <2>. QED
    BY <1>1, <2>1, SendRequestType DEF SendInitialize, SendRequest
<1>2. CASE SendRecords
  <2>1. PICK last \in delivered .. LastRecord :
          /\ SendRequest([action |-> "processRecords", first |-> delivered,
                          last |-> last])
          /\ delivered' = last
    BY <1>2 DEF SendRecords
  <2>2. last \in SeqNumbers
    BY LastRecordAssumption DEF SeqNumbers
  <2>3. [action |-> "processRecords", first |-> delivered, last |-> last] \in Requests
    BY <2>2 DEF Requests
  <2>. QED
    BY <1>2, <2>1, <2>2, <2>3, SendRequestType DEF SendRequest
<1>3. CASE SendShutdown
  <2>1. PICK reason \in Reasons : SendRequest([action |-> "shutdown", reason |-> reason])
    BY <1>3 DEF SendShutdown
  <2>2. [action |-> "shutdown", reason |-> reason] \in Requests
    BY DEF Requests
  <2>. QED
    BY <1>3, <2>1, <2>2, SendRequestType DEF SendShutdown, SendRequest
<1>4. CASE ReceiveStatus
  <2>1. toDaemon' \in Seq(Statuses \cup CheckpointCalls)
    BY <1>4 DEF ReceiveStatus
  <2>. QED
    BY <1>4, <2>1 DEF ReceiveStatus, Daemons
<1>5. CASE ReceiveCheckpoint
  <2>1. /\ Head(toDaemon) \in CheckpointCalls
        /\ toDaemon' \in Seq(Statuses \cup CheckpointCalls)
    BY <1>5 DEF ReceiveCheckpoint, Statuses
  <2>2. Head(toDaemon).checkpoint \in SeqNumbers
    BY <2>1 DEF CheckpointCalls
  <2>3. PICK answer \in Responses : toChild' = Append(toChild, answer)
    <3>1. \A n \in SeqNumbers, e \in BOOLEAN :
            [action |-> "checkpoint", checkpoint |-> n, error |-> e] \in Responses
      BY DEF Responses
    <3>. QED
      BY <1>5, <2>2, <3>1 DEF ReceiveCheckpoint
  <2>4. toChild' \in Seq(Requests \cup Responses)
    BY <2>3
  <2>5. checkpointed' \in SeqNumbers
    BY <1>5, <2>2 DEF ReceiveCheckpoint
  <2>. QED
    BY <1>5, <2>1, <2>4, <2>5 DEF ReceiveCheckpoint
<1>6. CASE NoticeChildDeath
  BY <1>6 DEF NoticeChildDeath, Daemons
<1>. QED
  BY <1>1, <1>2, <1>3, <1>4, <1>5, <1>6 DEF DaemonStep

LEMMA FailureType ==
  ASSUME TypeOK, Failure
  PROVE  TypeOK'
<1>1. CASE ChildDies
  BY <1>1 DEF ChildDies, TypeOK, Children
<1>2. CASE DaemonDies
  BY <1>2 DEF DaemonDies, TypeOK, Daemons
<1>3. CASE Restart
  BY <1>3, LastRecordAssumption, MaxRestartsAssumption
     DEF Restart, TypeOK, NewChild, NewDaemon, NewCompletion, Children, Daemons,
         States, SeqNumbers, NoCallback, Ops
<1>. QED
  BY <1>1, <1>2, <1>3 DEF Failure

LEMMA NextType ==
  ASSUME TypeOK, [Next]_vars
  PROVE  TypeOK'
<1>1. CASE Stop \/ UNCHANGED vars
  BY <1>1 DEF Stop, vars, TypeOK
<1>. QED
  BY <1>1, ManagerType, ProcessorType, DaemonType, FailureType DEF Next

\* Type correctness, for every record processor and every set of faults.
THEOREM TypeCorrect == Spec => []TypeOK
BY InitType, NextType, PTL DEF Spec

----------------------------------------------------------------------------
(* The conversation.                                                       *)

\* A line on the child's input that is a request, or an answer, tells whose
\* turn it is; so does a line on its output.
LEMMA ReadsRequest ==
  ASSUME Conversation, toChild # << >>, Head(toChild).action \in Ops
  PROVE  RequestSent
<1>1. \A line \in Responses : line.action \notin Ops
  BY DEF Responses, Ops
<1>2. ~AnswerSent
  BY <1>1, OneLine DEF AnswerSent
<1>. QED
  BY <1>2 DEF Conversation, TakingTurns, NoRequest, NoLine, StatusSent,
              CheckpointSent

LEMMA ReadsAnswer ==
  ASSUME Conversation, toChild # << >>, Head(toChild).action = "checkpoint"
  PROVE  AnswerSent
<1>1. \A line \in Requests : line.action # "checkpoint"
  BY DEF Requests
<1>2. ~RequestSent
  BY <1>1, OneLine DEF RequestSent
<1>. QED
  BY <1>2 DEF Conversation, TakingTurns, NoRequest, NoLine, StatusSent,
              CheckpointSent

LEMMA ReadsStatus ==
  ASSUME Conversation, toDaemon # << >>, Head(toDaemon).action = "status"
  PROVE  StatusSent
<1>1. \A line \in CheckpointCalls : line.action # "status"
  BY DEF CheckpointCalls
<1>2. ~CheckpointSent
  BY <1>1, OneLine DEF CheckpointSent
<1>. QED
  BY <1>2 DEF Conversation, TakingTurns, NoRequest, NoLine, RequestSent,
              AnswerSent

LEMMA ReadsCheckpoint ==
  ASSUME Conversation, toDaemon # << >>, Head(toDaemon).action = "checkpoint"
  PROVE  CheckpointSent
<1>1. ~StatusSent
  BY OneLine DEF StatusSent
<1>. QED
  BY <1>1 DEF Conversation, TakingTurns, NoRequest, NoLine, RequestSent,
              AnswerSent

\* The child is in one of the states of the record processor's work exactly
\* when that work has been asked for and no line is under way.
LEMMA AtWork ==
  ASSUME Conversation, child.alive, NEW op \in Ops, child.state = During[op]
  PROVE  /\ daemon.phase = op
         /\ toChild = << >> /\ toDaemon = << >>
         /\ child.callback = NoCallback
<1>1. child.state \in {"Initializing", "Processing", "ShuttingDown"}
  BY DEF During, Ops
<1>2. ~NoRequest
  BY <1>1 DEF NoRequest, ChildIs
<1>3. ~RequestSent
  BY <1>1 DEF RequestSent, ChildIs, Before, Ops
<1>4. ~StatusSent
  BY <1>1 DEF StatusSent, ChildIs, After, Ops
<1>5. ~CheckpointSent /\ ~AnswerSent
  BY <1>1 DEF CheckpointSent, AnswerSent, Asking
<1>6. NoLine
  BY <1>2, <1>3, <1>4, <1>5 DEF Conversation, TakingTurns
<1>7. ChildIs(During[daemon.phase])
  BY <1>1, <1>6 DEF NoLine, ChildIs, After, Asking, Ops
<1>. QED
  BY <1>6, <1>7 DEF NoLine, ChildIs, During, Ops

\* While no records wait to be read, all delivered ones are handed over.
LEMMA NothingUnread ==
  ASSUME HandedOver, \A line \in Requests : toChild = <<line>> => line.action # "processRecords"
  PROVE  1 .. delivered \subseteq handed
BY DEF HandedOver

\* The child's end disturbs nothing.
LEMMA ChildEnds ==
  ASSUME Conversation, ~child'.alive, child'.writeError = child.writeError,
         UNCHANGED <<toChild, toDaemon, daemon, delivered, handed, checkpointed>>
  PROVE  TakingTurns' /\ HandedOver'
<1>1. HandedOver'
  BY DEF Conversation, HandedOver
<1>2. CASE NoRequest
  BY <1>1, <1>2 DEF NoRequest, ChildIs, TakingTurns
<1>3. CASE RequestSent
  BY <1>1, <1>3 DEF RequestSent, ChildIs, TakingTurns
<1>4. CASE NoLine
  BY <1>1, <1>4 DEF NoLine, ChildIs, TakingTurns
<1>5. CASE StatusSent
  BY <1>1, <1>5 DEF StatusSent, ChildIs, TakingTurns
<1>6. CASE CheckpointSent
  BY <1>1, <1>6 DEF CheckpointSent, TakingTurns
<1>7. CASE AnswerSent
  BY <1>1, <1>7 DEF AnswerSent, TakingTurns
<1>. QED
  BY <1>2, <1>3, <1>4, <1>5, <1>6, <1>7 DEF Conversation, TakingTurns

\* The daemon's end disturbs nothing.
LEMMA DaemonEnds ==
  ASSUME Conversation, daemon'.phase = daemon.phase,
         UNCHANGED <<child, toChild, toDaemon, delivered, handed, checkpointed>>
  PROVE  TakingTurns' /\ HandedOver'
<1>1. HandedOver'
  BY DEF Conversation, HandedOver
<1>. QED
  BY <1>1 DEF Conversation, TakingTurns, NoRequest, RequestSent, NoLine, StatusSent,
              CheckpointSent, AnswerSent, ChildIs

LEMMA ReadRequestKeeps ==
  ASSUME Conversation, OnRecordProcessorAction
  PROVE  TakingTurns' /\ HandedOver'
<1>1. RequestSent
  BY ReadsRequest DEF OnRecordProcessorAction
<1>2. PICK line \in Requests : toChild = <<line>> /\ line.action = daemon.phase
  BY <1>1 DEF RequestSent
<1>3. Head(toChild) = line /\ toChild' = << >> /\ toDaemon' = << >> /\ daemon' = daemon
  BY <1>1, <1>2, OneLine DEF OnRecordProcessorAction, RequestSent
<1>. DEFINE c == HandleStateInput(child, Begin[daemon.phase])
<1>4. /\ child \in Children
      /\ child.alive
      /\ daemon.phase \in Ops
      /\ child.state = Before[daemon.phase]
      /\ child.callback = NoCallback
      /\ child' = c
  BY <1>1, <1>2, <1>3
     DEF OnRecordProcessorAction, RequestSent, ChildIs, Conversation, TypeOK
<1>5. child.state \in States
  BY <1>4 DEF Children
<1>6. /\ Accepts(child.state, Begin[daemon.phase])
      /\ Target(child.state, Begin[daemon.phase]) = During[daemon.phase]
  BY <1>4, <1>5, Transitions, Targets DEF Before, Begin, During, Ops
<1>7. child'.alive /\ child'.state = During[daemon.phase] /\ child'.callback = NoCallback
  BY <1>4, <1>6, StateInput
<1>8. NoLine'
  BY <1>3, <1>4, <1>7 DEF NoLine, ChildIs
<1>9. handed' = IF line.action = "processRecords"
                THEN handed \cup (line.first + 1 .. line.last)
                ELSE handed
  BY <1>2, <1>3, <1>4, <1>7 DEF OnRecordProcessorAction
<1>10. 1 .. delivered \subseteq handed'
  <2>1. CASE line.action = "processRecords"
    <3>1. line.first \in Nat /\ line.last \in Nat
      BY <2>1, LastRecordAssumption DEF Requests, SeqNumbers
    <3>2. 1 .. line.first \subseteq handed /\ line.last = delivered
      BY <1>2, <2>1 DEF Conversation, HandedOver
    <3>. QED
      BY <1>9, <2>1, <3>1, <3>2
  <2>2. CASE line.action # "processRecords"
    <3>1. \A l \in Requests : toChild = <<l>> => l = line
      BY <1>2, OneLine
    <3>2. 1 .. delivered \subseteq handed
      BY <2>2, <3>1, NothingUnread DEF Conversation
    <3>. QED
      BY <1>9, <2>2, <3>2
  <2>. QED
    BY <2>1, <2>2
<1>11. delivered' = delivered /\ checkpointed' = checkpointed
  BY DEF OnRecordProcessorAction
<1>12. HandedOver'
  BY <1>3, <1>9, <1>10, <1>11, OneLine DEF HandedOver, Conversation
<1>. QED
  BY <1>8, <1>12 DEF TakingTurns

LEMMA ReadAnswerKeeps ==
  ASSUME Conversation, OnCheckpointAction
  PROVE  TakingTurns' /\ HandedOver'
<1>1. AnswerSent
  BY ReadsAnswer DEF OnCheckpointAction
<1>2. PICK line \in Responses : toChild = <<line>>
  BY <1>1 DEF AnswerSent
<1>3. toChild' = << >> /\ toDaemon' = << >> /\ daemon' = daemon
  BY <1>1, <1>2, OneLine DEF OnCheckpointAction, AnswerSent
<1>. DEFINE c == HandleStateInput(child, "finishCheckpoint")
<1>4. /\ child \in Children
      /\ child.alive
      /\ daemon.phase \in {"processRecords", "shutdown"}
      /\ child.state = Asking[daemon.phase]
  BY <1>1 DEF OnCheckpointAction, AnswerSent, Conversation, TypeOK
<1>5. child.state \in States
  BY <1>4 DEF Children
<1>6. /\ Accepts(child.state, "finishCheckpoint")
      /\ Target(child.state, "finishCheckpoint") = During[daemon.phase]
  BY <1>4, <1>5, Transitions, Targets DEF Asking, During
<1>7. c \in Children /\ c.alive /\ c.state = During[daemon.phase]
  BY <1>4, <1>6, StateInput
<1>8. child' = [c EXCEPT !.callback = NoCallback]
  BY <1>7 DEF OnCheckpointAction
<1>9. child'.alive /\ child'.state = During[daemon.phase] /\ child'.callback = NoCallback
  BY <1>7, <1>8 DEF Children
<1>10. NoLine'
  BY <1>3, <1>4, <1>9 DEF NoLine, ChildIs, Ops
<1>11. 1 .. delivered \subseteq handed
  <2>1. \A l \in Requests : l.action # "checkpoint"
    BY DEF Requests
  <2>2. \A l \in Requests : toChild # <<l>>
    BY <1>2, <2>1, OneLine DEF Responses
  <2>. QED
    BY <2>2, NothingUnread DEF Conversation
<1>12. HandedOver'
  BY <1>3, <1>11, OneLine DEF OnCheckpointAction, HandedOver, Conversation
<1>. QED
  BY <1>10, <1>12 DEF TakingTurns

\* _sendAction and writeLine: the line is under way, or the child has ended,
\* or it will learn of the failure.
LEMMA Written ==
  ASSUME NEW c \in Children, c.alive, NEW line, toDaemon = << >>, SendAction(c, line)
  PROVE  \/ child' = c /\ toDaemon' = <<line>>
         \/ ~child'.alive /\ toDaemon' \in {<< >>, <<line>>}
         \/ /\ child'.writeError
            /\ child'.state = c.state
            /\ child'.callback = c.callback
            /\ toDaemon' = << >>
<1>. DEFINE broken == [c EXCEPT !.writeError = TRUE]
<1>1. /\ broken \in Children
      /\ broken.writeError
      /\ broken.state = c.state
      /\ broken.callback = c.callback
  BY DEF Children
<1>2. broken.state \in States
  BY <1>1 DEF Children
<1>3. ~HandleStateInput(broken, "error").alive
  BY <1>1, <1>2, StateInput, Transitions
<1>. QED
  BY <1>1, <1>3, OneLine DEF SendAction

\* A handler that has already thrown writes nothing.
LEMMA NotWritten ==
  ASSUME NEW c, ~c.alive, NEW line, SendAction(c, line)
  PROVE  child' = c /\ toDaemon' = toDaemon
BY DEF SendAction

LEMMA CompleteKeeps ==
  ASSUME Conversation, NEW op \in Ops, Complete(op)
  PROVE  TakingTurns' /\ HandedOver'
<1>. DEFINE c    == HandleStateInput(child, Finish[op])
            line == [action |-> "status", responseFor |-> op]
<1>1. child \in Children /\ child.alive /\ child.state \in States
  BY DEF Complete, Conversation, TypeOK, Children
<1>2. SendAction(c, line)
  BY DEF Complete
<1>3. UNCHANGED <<toChild, daemon, delivered, handed, checkpointed>>
  BY DEF Complete
<1>4. CASE ~Accepts(child.state, Finish[op])
  <2>1. ~c.alive /\ c.writeError = child.writeError
    BY <1>1, <1>4, StateInput
  <2>2. child' = c /\ toDaemon' = toDaemon
    BY <1>2, <2>1, NotWritten
  <2>. QED
    BY <1>3, <2>1, <2>2, ChildEnds
<1>5. CASE Accepts(child.state, Finish[op])
  <2>1. child.state = During[op] /\ Target(child.state, Finish[op]) = After[op]
    BY <1>1, <1>5, Transitions, Targets DEF Finish, During, After, Ops
  <2>2. /\ daemon.phase = op
        /\ toChild = << >> /\ toDaemon = << >>
        /\ child.callback = NoCallback
    BY <1>1, <2>1, AtWork
  <2>3. /\ c \in Children
        /\ c.alive
        /\ c.state = After[op]
        /\ c.callback = NoCallback
    BY <1>1, <1>5, <2>1, <2>2, StateInput
  <2>4. \/ child' = c /\ toDaemon' = <<line>>
        \/ ~child'.alive /\ toDaemon' \in {<< >>, <<line>>}
        \/ /\ child'.writeError
           /\ child'.state = c.state
           /\ child'.callback = c.callback
           /\ toDaemon' = << >>
    BY <1>2, <2>2, <2>3, Written
  <2>5. toDaemon' = <<line>> => StatusSent'
    BY <1>3, <2>2, <2>3, <2>4, OneLine DEF StatusSent, ChildIs
  <2>6. toDaemon' = << >> => NoLine'
    BY <1>3, <2>2, <2>3, <2>4, OneLine DEF NoLine, ChildIs
  <2>7. HandedOver'
    BY <1>3 DEF Conversation, HandedOver
  <2>. QED
    BY <2>4, <2>5, <2>6, <2>7 DEF TakingTurns
<1>. QED
  BY <1>4, <1>5

LEMMA CheckpointKeeps ==
  ASSUME Conversation, NEW seq \in SeqNumbers, Checkpoint(seq)
  PROVE  TakingTurns' /\ HandedOver'
<1>. DEFINE asking == [child EXCEPT !.callback = seq]
            c      == HandleStateInput(asking, "beginCheckpoint")
            line   == [action |-> "checkpoint", checkpoint |-> seq]
<1>1. /\ child \in Children /\ child.alive /\ child.state \in States
      /\ daemon.phase = daemon'.phase
  BY DEF Checkpoint, Conversation, TypeOK, Children
<1>2. UNCHANGED <<toChild, daemon, delivered, handed, checkpointed>>
  BY DEF Checkpoint
<1>3. CASE child.callback # NoCallback
  <2>1. UNCHANGED <<child, toDaemon>>
    BY <1>3 DEF Checkpoint
  <2>. QED
    BY <1>1, <1>2, <2>1, DaemonEnds
<1>4. CASE child.callback = NoCallback
  <2>1. SendAction(c, line)
    BY <1>4 DEF Checkpoint
  <2>2. /\ asking \in Children
        /\ asking.alive
        /\ asking.state = child.state
        /\ asking.callback = seq
        /\ asking.writeError = child.writeError
    BY <1>1 DEF Children
  <2>3. CASE ~Accepts(child.state, "beginCheckpoint")
    <3>1. ~c.alive /\ c.writeError = child.writeError
      BY <2>2, <2>3, StateInput
    <3>2. child' = c /\ toDaemon' = toDaemon
      BY <2>1, <3>1, NotWritten
    <3>. QED
      BY <1>2, <3>1, <3>2, ChildEnds
  <2>4. CASE Accepts(child.state, "beginCheckpoint")
    <3>1. PICK op \in {"processRecords", "shutdown"} :
            /\ child.state = During[op]
            /\ Target(child.state, "beginCheckpoint") = Asking[op]
      BY <1>1, <2>4, Transitions, Targets DEF During, Asking
    <3>2. daemon.phase = op /\ toChild = << >> /\ toDaemon = << >>
      BY <1>1, <3>1, AtWork DEF Ops
    <3>3. c \in Children /\ c.alive /\ c.state = Asking[op] /\ c.callback = seq
      BY <2>2, <2>4, <3>1, StateInput
    <3>4. \/ child' = c /\ toDaemon' = <<line>>
          \/ ~child'.alive /\ toDaemon' \in {<< >>, <<line>>}
          \/ /\ child'.writeError
             /\ child'.state = c.state
             /\ child'.callback = c.callback
             /\ toDaemon' = << >>
      BY <2>1, <3>2, <3>3, Written
    <3>5. line \in CheckpointCalls /\ line.checkpoint = seq
      BY DEF CheckpointCalls
    <3>6. seq # NoCallback
      BY LastRecordAssumption DEF SeqNumbers, NoCallback
    <3>7. toDaemon' = <<line>> => CheckpointSent'
      BY <1>2, <3>2, <3>3, <3>4, <3>5, OneLine DEF CheckpointSent
    <3>8. toDaemon' = << >> => NoLine'
      BY <1>2, <3>2, <3>3, <3>4, <3>6, OneLine DEF NoLine, ChildIs, Ops
    <3>9. HandedOver'
      BY <1>2 DEF Conversation, HandedOver
    <3>. QED
      BY <3>4, <3>7, <3>8, <3>9 DEF TakingTurns
  <2>. QED
    BY <2>3, <2>4
<1>. QED
  BY <1>3, <1>4

\* The daemon sends a request only when none is under way.
LEMMA SendRequestKeeps ==
  ASSUME Conversation, NEW line \in Requests, SendRequest(line),
         \/ daemon.phase = "start" /\ line.action = "initialize"
         \/ daemon.phase = "ready" /\ line.action \in {"processRecords", "shutdown"}
  PROVE  /\ RequestSent'
         /\ toChild' = <<line>>
         /\ 1 .. delivered \subseteq handed
<1>1. NoRequest
  BY DEF Conversation, TakingTurns, RequestSent, NoLine, StatusSent,
         CheckpointSent, AnswerSent, Ops
<1>2. toChild = << >> /\ toChild' = <<line>> /\ toDaemon' = << >> /\ child' = child
  BY <1>1, OneLine DEF NoRequest, SendRequest
<1>3. daemon'.phase = line.action
  BY DEF SendRequest, Conversation, TypeOK, Daemons
<1>4. ChildIs(Before[line.action])
  BY <1>1 DEF NoRequest, Before, ChildIs
<1>5. RequestSent'
  BY <1>2, <1>3, <1>4 DEF RequestSent, ChildIs, Ops
<1>6. 1 .. delivered \subseteq handed
  BY <1>2, OneLine, NothingUnread DEF Conversation
<1>. QED
  BY <1>2, <1>5, <1>6

LEMMA DaemonKeeps ==
  ASSUME Conversation, DaemonStep
  PROVE  TakingTurns' /\ HandedOver'
<1>1. CASE SendInitialize
  <2>1. PICK line \in Requests : /\ line.action = "initialize"
                                 /\ SendRequest(line)
                                 /\ daemon.phase = "start"
    <3>1. [action |-> "initialize"] \in Requests
      BY DEF Requests
    <3>. QED
      BY <1>1, <3>1 DEF SendInitialize
  <2>2. RequestSent' /\ toChild' = <<line>> /\ 1 .. delivered \subseteq handed
    BY <2>1, SendRequestKeeps
  <2>3. \A l \in Requests : toChild' = <<l>> => l.action # "processRecords"
    BY <2>1, <2>2, OneLine
  <2>4. HandedOver'
    BY <1>1, <2>2, <2>3 DEF SendInitialize, SendRequest, Conversation, HandedOver
  <2>. QED
    BY <2>2, <2>4 DEF TakingTurns
<1>2. CASE SendRecords
  <2>1. PICK last \in delivered .. LastRecord :
          /\ SendRequest([action |-> "processRecords", first |-> delivered,
                          last |-> last])
          /\ delivered' = last
    BY <1>2 DEF SendRecords
  <2>. DEFINE line == [action |-> "processRecords", first |-> delivered, last |-> last]
  <2>2. delivered \in Nat /\ checkpointed \in Nat /\ last \in Nat /\ delivered <= last
    BY LastRecordAssumption DEF Conversation, TypeOK, SeqNumbers
  <2>3. /\ line \in Requests
        /\ line.action = "processRecords"
        /\ line.first = delivered
        /\ line.last = last
    BY <2>2, LastRecordAssumption DEF Requests, SeqNumbers
  <2>4. RequestSent' /\ toChild' = <<line>> /\ 1 .. delivered \subseteq handed
    BY <1>2, <2>1, <2>3, SendRequestKeeps DEF SendRecords
  <2>5. \A l \in Requests : toChild' = <<l>> => l = line
    BY <2>4, OneLine
  <2>6. handed' = handed /\ checkpointed' = checkpointed
    BY <2>1 DEF SendRequest
  <2>7. checkpointed' <= delivered'
    BY <2>1, <2>2, <2>6 DEF Conversation, HandedOver
  <2>8. \A l \in Requests :
          toChild' = <<l>> /\ l.action = "processRecords"
            => 1 .. l.first \subseteq handed' /\ l.last = delivered'
    BY <2>1, <2>3, <2>4, <2>5, <2>6
  <2>9. HandedOver'
    BY <2>3, <2>4, <2>6, <2>7, <2>8 DEF Conversation, HandedOver
  <2>. QED
    BY <2>4, <2>9 DEF TakingTurns
<1>3. CASE SendShutdown
  <2>1. PICK reason \in Reasons : SendRequest([action |-> "shutdown", reason |-> reason])
    BY <1>3 DEF SendShutdown
  <2>. DEFINE line == [action |-> "shutdown", reason |-> reason]
  <2>2. line \in Requests /\ line.action = "shutdown"
    BY DEF Requests
  <2>3. RequestSent' /\ toChild' = <<line>> /\ 1 .. delivered \subseteq handed
    BY <1>3, <2>1, <2>2, SendRequestKeeps DEF SendShutdown
  <2>4. \A l \in Requests : toChild' = <<l>> => l.action # "processRecords"
    BY <2>2, <2>3, OneLine
  <2>5. HandedOver'
    BY <1>3, <2>1, <2>3, <2>4 DEF SendShutdown, SendRequest, Conversation, HandedOver
  <2>. QED
    BY <2>3, <2>5 DEF TakingTurns
<1>4. CASE ReceiveStatus
  <2>1. StatusSent
    BY <1>4, ReadsStatus DEF ReceiveStatus
  <2>2. Head(toDaemon).responseFor = daemon.phase /\ toDaemon' = << >>
    BY <1>4, <2>1, OneLine DEF ReceiveStatus, StatusSent
  <2>3. daemon'.phase = IF daemon.phase = "shutdown" THEN "closed" ELSE "ready"
    BY <1>4, <2>2 DEF ReceiveStatus, Conversation, TypeOK, Daemons
  <2>4. NoRequest'
    BY <1>4, <2>1, <2>2, <2>3
       DEF ReceiveStatus, StatusSent, NoRequest, ChildIs, After, Ops
  <2>5. HandedOver'
    BY <1>4 DEF ReceiveStatus, Conversation, HandedOver
  <2>. QED
    BY <2>4, <2>5 DEF TakingTurns
<1>5. CASE ReceiveCheckpoint
  <2>1. CheckpointSent
    BY <1>5, ReadsCheckpoint DEF ReceiveCheckpoint
  <2>2. PICK line \in CheckpointCalls :
          /\ toDaemon = <<line>>
          /\ child.alive => /\ child.state = Asking[daemon.phase]
                            /\ child.callback = line.checkpoint
    BY <2>1 DEF CheckpointSent
  <2>. DEFINE seq == IF line.checkpoint = Latest THEN delivered ELSE line.checkpoint
              answer(n, e) == [action |-> "checkpoint", checkpoint |-> n, error |-> e]
  <2>3. Head(toDaemon) = line /\ toDaemon' = << >> /\ toChild = << >>
    BY <1>5, <2>1, <2>2, OneLine DEF ReceiveCheckpoint, CheckpointSent
  <2>4. UNCHANGED <<child, daemon, delivered, handed>>
    BY <1>5 DEF ReceiveCheckpoint
  <2>5. line.checkpoint \in SeqNumbers /\ delivered \in SeqNumbers
    BY DEF CheckpointCalls, Conversation, TypeOK
  <2>6. \A n \in SeqNumbers, e \in BOOLEAN :
          /\ answer(n, e) \in Responses
          /\ answer(n, e).checkpoint = n
          /\ answer(n, e).error = e
    BY DEF Responses
  <2>7. 1 .. delivered \subseteq handed
    BY <2>3, OneLine, NothingUnread DEF Conversation
  <2>8. \A l \in Requests, a \in Responses : <<l>> # <<a>>
    <3>1. \A l \in Requests : l.action # "checkpoint"
      BY DEF Requests
    <3>2. \A a \in Responses : a.action = "checkpoint"
      BY DEF Responses
    <3>. QED
      BY <3>1, <3>2, OneLine
  <2>9. CASE toChild' = <<answer(line.checkpoint, TRUE)>> /\ checkpointed' = checkpointed
    <3>1. AnswerSent'
      BY <2>1, <2>2, <2>3, <2>4, <2>5, <2>6, <2>9 DEF AnswerSent, CheckpointSent
    <3>2. HandedOver'
      BY <2>4, <2>5, <2>6, <2>7, <2>8, <2>9 DEF Conversation, HandedOver
    <3>. QED
      BY <3>1, <3>2 DEF TakingTurns
  <2>10. CASE /\ toChild' = <<answer(seq, FALSE)>>
              /\ checkpointed' = seq
              /\ seq <= delivered
    <3>1. AnswerSent'
      BY <2>1, <2>2, <2>3, <2>4, <2>5, <2>6, <2>10 DEF AnswerSent, CheckpointSent
    <3>2. 1 .. seq \subseteq handed
      BY <2>5, <2>7, <2>10, LastRecordAssumption DEF SeqNumbers
    <3>3. HandedOver'
      BY <2>4, <2>5, <2>6, <2>7, <2>8, <2>10, <3>2 DEF HandedOver
    <3>. QED
      BY <3>1, <3>3 DEF TakingTurns
  <2>. QED
    BY <1>5, <2>3, <2>9, <2>10, OneLine DEF ReceiveCheckpoint
<1>6. CASE NoticeChildDeath
  BY <1>6, DaemonEnds DEF NoticeChildDeath, Conversation, TypeOK, Daemons
<1>. QED
  BY <1>1, <1>2, <1>3, <1>4, <1>5, <1>6 DEF DaemonStep

LEMMA FailureKeeps ==
  ASSUME Conversation, Failure
  PROVE  TakingTurns' /\ HandedOver'
<1>1. CASE ChildDies
  <2>1. ~child'.alive /\ child'.writeError = child.writeError
    BY <1>1 DEF ChildDies, Conversation, TypeOK, Children
  <2>. QED
    BY <1>1, <2>1, ChildEnds DEF ChildDies
<1>2. CASE DaemonDies
  BY <1>2, DaemonEnds DEF DaemonDies, Conversation, TypeOK, Daemons
<1>3. CASE Restart
  <2>1. NoRequest'
    BY <1>3 DEF Restart, NoRequest, NewChild, NewDaemon, ChildIs
  <2>2. checkpointed \in Nat
    BY LastRecordAssumption DEF Conversation, TypeOK, SeqNumbers
  <2>3. HandedOver'
    BY <1>3, <2>2, OneLine DEF Restart, Conversation, HandedOver
  <2>. QED
    BY <2>1, <2>3 DEF TakingTurns
<1>. QED
  BY <1>1, <1>2, <1>3 DEF Failure

LEMMA ManagerKeeps ==
  ASSUME Conversation, ManagerStep
  PROVE  TakingTurns' /\ HandedOver'
<1>1. child \in Children /\ child.state \in States
  BY DEF Conversation, TypeOK, Children
<1>2. CASE OnActionEnd
  <2>1. HandleStateInput(child, "cleanup") \in Children
    BY <1>1, StateInput
  <2>2. ~child'.alive /\ child'.writeError = child.writeError
    BY <1>1, <1>2, <2>1, StateInput DEF OnActionEnd, Children
  <2>. QED
    BY <1>2, <2>2, ChildEnds DEF OnActionEnd
<1>3. CASE OnWriteError
  <2>1. ~child'.alive /\ child'.writeError = child.writeError
    BY <1>1, <1>3, StateInput, Transitions DEF OnWriteError
  <2>. QED
    BY <1>3, <2>1, ChildEnds DEF OnWriteError
<1>. QED
  BY <1>2, <1>3, ReadRequestKeeps, ReadAnswerKeeps DEF ManagerStep

LEMMA InitConversation == Init => Conversation
<1>. SUFFICES ASSUME Init PROVE Conversation
  OBVIOUS
<1>1. NoRequest
  BY DEF Init, NoRequest, NewChild, NewDaemon, ChildIs
<1>2. HandedOver
  BY OneLine DEF Init, HandedOver
<1>. QED
  BY <1>1, <1>2, InitType DEF Conversation, TakingTurns

LEMMA NextConversation ==
  ASSUME Conversation, [Next]_vars
  PROVE  Conversation'
<1>1. TypeOK'
  BY NextType DEF Conversation
<1>2. CASE Stop \/ UNCHANGED vars
  BY <1>1, <1>2, DaemonEnds DEF Stop, vars, Conversation
<1>3. CASE ProcessorStep
  BY <1>1, <1>3, CompleteKeeps, CheckpointKeeps DEF ProcessorStep, Conversation
<1>. QED
  BY <1>1, <1>2, <1>3, ManagerKeeps, DaemonKeeps, FailureKeeps DEF Next, Conversation

\* The inductive invariant.
THEOREM ConversationInvariant == Spec => []Conversation
BY InitConversation, NextConversation, PTL DEF Spec

----------------------------------------------------------------------------
(* What follows from it.                                                   *)

\* Whatever the record processor does, the child's output follows the wire
\* protocol (kcl_manager.js:201-297).
THEOREM WireProtocolHolds == Spec => []WireProtocol
<1>1. Conversation => WireProtocol
  <2>. SUFFICES ASSUME Conversation PROVE WireProtocol
    OBVIOUS
  <2>1. Len(<< >>) = 0
    OBVIOUS
  <2>2. CASE NoRequest
    BY <2>1, <2>2 DEF NoRequest, WireProtocol
  <2>3. CASE RequestSent
    BY <2>1, <2>3, OneLine DEF RequestSent, WireProtocol
  <2>4. CASE NoLine
    BY <2>1, <2>4 DEF NoLine, WireProtocol
  <2>5. CASE StatusSent
    <3>1. Len(toChild) + Len(toDaemon) <= 1
      BY <2>1, <2>5, OneLine DEF StatusSent
    <3>2. /\ Head(toDaemon) \in Statuses
          /\ Head(toDaemon).responseFor = daemon.phase
      BY <2>5, OneLine DEF StatusSent, Statuses
    <3>. QED
      BY <3>1, <3>2 DEF WireProtocol
  <2>6. CASE CheckpointSent
    BY <2>1, <2>6, OneLine DEF CheckpointSent, WireProtocol
  <2>7. CASE AnswerSent
    BY <2>1, <2>7, OneLine DEF AnswerSent, WireProtocol
  <2>. QED
    BY <2>2, <2>3, <2>4, <2>5, <2>6, <2>7 DEF Conversation, TakingTurns
<1>. QED
  BY <1>1, ConversationInvariant, PTL

\* The Checkpointer holds a callback exactly while a checkpoint is under way
\* (checkpointer.js:48-73).
THEOREM CallbackMatchesStateHolds == Spec => []CallbackMatchesState
<1>1. Conversation => CallbackMatchesState
  <2>. SUFFICES ASSUME Conversation, child.alive
                PROVE  child.callback # NoCallback
                         <=> child.state \in {"Checkpointing", "FinalCheckpointing"}
    BY DEF CallbackMatchesState
  <2>1. \A n \in SeqNumbers : n # NoCallback
    BY LastRecordAssumption DEF SeqNumbers, NoCallback
  <2>2. CASE NoRequest
    BY <2>2 DEF NoRequest, ChildIs
  <2>3. CASE RequestSent
    BY <2>3 DEF RequestSent, ChildIs, Before, Ops
  <2>4. CASE NoLine
    BY <2>4 DEF NoLine, ChildIs, During, After, Asking, Ops
  <2>5. CASE StatusSent
    BY <2>5 DEF StatusSent, ChildIs, After, Ops
  <2>6. CASE CheckpointSent
    BY <2>1, <2>6 DEF CheckpointSent, CheckpointCalls, Asking
  <2>7. CASE AnswerSent
    BY <2>1, <2>7, LastRecordAssumption
       DEF AnswerSent, Responses, Asking, Latest, SeqNumbers
  <2>. QED
    BY <2>2, <2>3, <2>4, <2>5, <2>6, <2>7 DEF Conversation, TakingTurns
<1>. QED
  BY <1>1, ConversationInvariant, PTL

\* An answer on its way is for the call whose callback is pending, and a
\* success it reports is durable (checkpointer.js:48-73).
THEOREM AnswerIsForThisCallHolds == Spec => []AnswerIsForThisCall
<1>1. Conversation => AnswerIsForThisCall
  <2>. SUFFICES ASSUME Conversation, child.alive,
                       NEW i \in 1 .. Len(toChild), toChild[i].action = "checkpoint"
                PROVE  /\ child.callback # NoCallback
                       /\ child.callback \in {Latest, toChild[i].checkpoint}
                       /\ ~toChild[i].error => checkpointed = toChild[i].checkpoint
    BY DEF AnswerIsForThisCall
  <2>1. toChild # << >>
    OBVIOUS
  <2>2. \A line : toChild = <<line>> => toChild[i] = line
    OBVIOUS
  <2>3. \A line \in Requests : line.action # "checkpoint"
    BY DEF Requests
  <2>4. ~RequestSent
    BY <2>2, <2>3 DEF RequestSent
  <2>5. AnswerSent
    BY <2>1, <2>4 DEF Conversation, TakingTurns, NoRequest, NoLine, StatusSent,
                      CheckpointSent
  <2>6. Latest # NoCallback /\ \A line \in Responses : line.checkpoint # NoCallback
    BY LastRecordAssumption DEF Latest, NoCallback, Responses, SeqNumbers
  <2>. QED
    BY <2>2, <2>5, <2>6 DEF AnswerSent
<1>. QED
  BY <1>1, ConversationInvariant, PTL

\* checkpointer.js:21-23: every record up to the checkpoint was given to a
\* record processor, whatever fails and whatever the record processor does.
THEOREM NoRecordIsSkipped == Spec => []NoSkippedRecord
<1>1. Conversation => NoSkippedRecord
  BY DEF Conversation, HandedOver, NoSkippedRecord
<1>. QED
  BY <1>1, ConversationInvariant, PTL

\* The processes, pipes and failures of KCL implement the shard-level promise
\* of ShardProgress.
THEOREM ImplementsShardProgress == Spec => ShardProgressSpec
<1>1. Init => Progress!Init
  BY DEF Init, Progress!Init
<1>2. ASSUME Conversation, [Next]_vars
      PROVE  [Progress!Next]_<<handed, checkpointed>>
  <2>1. CASE OnRecordProcessorAction
    <3>1. PICK line \in Requests : toChild = <<line>> /\ line.action = daemon.phase
      BY <1>2, <2>1, ReadsRequest DEF OnRecordProcessorAction, RequestSent
    <3>2. Head(toChild) = line
      BY <3>1, OneLine
    <3>3. CASE line.action = "processRecords"
      <4>1. line.first \in 0 .. LastRecord /\ line.last \in 0 .. LastRecord
        BY <3>3 DEF Requests, SeqNumbers
      <4>2. 1 .. line.first \subseteq handed
        BY <1>2, <3>1, <3>3 DEF Conversation, HandedOver
      <4>3. /\ checkpointed' = checkpointed
            /\ \/ handed' = handed
               \/ handed' = handed \cup (line.first + 1 .. line.last)
        BY <2>1, <3>2 DEF OnRecordProcessorAction
      <4>. QED
        BY <4>1, <4>2, <4>3 DEF Progress!Next, Progress!Hand
    <3>4. CASE line.action # "processRecords"
      BY <2>1, <3>2, <3>4 DEF OnRecordProcessorAction
    <3>. QED
      BY <3>3, <3>4
  <2>2. CASE ReceiveCheckpoint
    <3>1. handed' = handed /\ checkpointed \in Nat /\ checkpointed' \in SeqNumbers
      BY <1>2, <2>2, NextType, LastRecordAssumption
         DEF ReceiveCheckpoint, Conversation, TypeOK, SeqNumbers
    <3>2. checkpointed' = checkpointed \/ checkpointed <= checkpointed'
      BY <2>2 DEF ReceiveCheckpoint
    <3>3. 1 .. checkpointed' \subseteq handed
      BY <1>2, <3>1, NextConversation DEF Conversation, HandedOver
    <3>4. CASE checkpointed' = checkpointed
      BY <3>1, <3>4
    <3>5. CASE checkpointed' # checkpointed
      <4>1. checkpointed' \in 0 .. LastRecord /\ checkpointed' > checkpointed
        BY <3>1, <3>2, <3>5, LastRecordAssumption DEF SeqNumbers
      <4>. QED
        BY <3>1, <3>3, <4>1 DEF Progress!Next, Progress!Commit
    <3>. QED
      BY <3>4, <3>5
  <2>3. CASE ManagerStep /\ ~OnRecordProcessorAction
    BY <2>3 DEF ManagerStep, OnCheckpointAction, OnActionEnd, OnWriteError
  <2>4. CASE ProcessorStep
    BY <2>4 DEF ProcessorStep, Complete, Checkpoint
  <2>5. CASE DaemonStep /\ ~ReceiveCheckpoint
    BY <2>5 DEF DaemonStep, SendInitialize, SendRecords, SendShutdown, SendRequest,
                ReceiveStatus, NoticeChildDeath
  <2>6. CASE Failure \/ Stop \/ UNCHANGED vars
    BY <2>6 DEF Failure, ChildDies, DaemonDies, Restart, Stop, vars
  <2>. QED
    BY <1>2, <2>1, <2>2, <2>3, <2>4, <2>5, <2>6 DEF Next
<1>. QED
  BY <1>1, <1>2, ConversationInvariant, PTL DEF Spec, ShardProgressSpec, Progress!Spec
=============================================================================
