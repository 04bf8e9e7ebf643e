------------------------- MODULE SampleKclAppProofs -------------------------
(***************************************************************************)
(* Proofs about SampleKclApp, for every number of records and restarts and *)
(* every set of faults: the application is one of the record processors of *)
(* module KCL, so that all that is proved there holds of it, and it keeps  *)
(* the contract of the manager and of the checkpoints.                     *)
(***************************************************************************)
EXTENDS SampleKclApp, KCLProofs

Todos ==
       [do : {"nothing"}]
  \cup [do : {"complete", "await"}, op : Ops]
  \cup [do : {"checkpoint"}, op : Ops, seq : SeqNumbers]

\* All that was delivered is checkpointed, unless the daemon refused.
Kept == ~refused => checkpointed = delivered

\* A number that asks for all that was delivered.
AsksForAll(seq) == seq \in {Latest, delivered}

\* The application only ever acts in the state that its next call belongs to.
ActsInTurn ==
  child.alive =>
    /\ todo.do \in {"complete", "checkpoint"} => child.state = During[todo.op]
    /\ todo.do = "complete" => Kept
    /\ todo.do = "checkpoint" => todo.op # "initialize" /\ AsksForAll(todo.seq)
    /\ \A op \in {"processRecords", "shutdown"} :
         child.state = Asking[op]
           => todo = AwaitCheckpoint(op) /\ AsksForAll(child.callback)

\* What the lines under way say about the checkpoint.
LinesKeepUp ==
  /\ \A line \in Requests : toChild = <<line>> =>
       IF line.action = "processRecords"
       THEN ~refused => checkpointed = line.first
       ELSE Kept
  /\ \A line \in Responses :
       toChild = <<line>> /\ child.alive /\ ~line.error => checkpointed = delivered
  /\ \A line \in Statuses : toDaemon = <<line>> => Kept
  /\ daemon.phase \in {"start", "ready", "closed"} => Kept

AppTypeOK == todo \in Todos /\ refused \in BOOLEAN

AppContract == AppTypeOK /\ ActsInTurn /\ LinesKeepUp /\ AppHonoursContract

AppInv == Conversation /\ AppContract

-----------------------------------------------------------------------------
\* The reactions are things to do.
LEMMA TodoTypes ==
  ASSUME NEW op \in Ops, NEW seq \in SeqNumbers
  PROVE  /\ Idle \in Todos /\ Idle.do = "nothing"
         /\ CompleteNext(op) \in Todos
         /\ CompleteNext(op).do = "complete" /\ CompleteNext(op).op = op
         /\ CheckpointNext(op, seq) \in Todos
         /\ CheckpointNext(op, seq).do = "checkpoint"
         /\ CheckpointNext(op, seq).op = op /\ CheckpointNext(op, seq).seq = seq
         /\ AwaitCheckpoint(op) \in Todos
         /\ AwaitCheckpoint(op).do = "await" /\ AwaitCheckpoint(op).op = op
BY DEF Todos, Idle, CompleteNext, CheckpointNext, AwaitCheckpoint

\* Every step of the application is one that module KCL allows a record
\* processor.
LEMMA AppStepIsKclStep ==
  ASSUME AppTypeOK, [AppNext]_appVars
  PROVE  [Next]_vars
<1>1. CASE AppCalled
  BY <1>1 DEF AppCalled, Next, ManagerStep
<1>2. CASE AppCheckpoint
  <2>1. todo.seq \in SeqNumbers
    BY <1>2 DEF AppCheckpoint, AppTypeOK, Todos
  <2>. QED
    BY <1>2, <2>1 DEF AppCheckpoint, Next, ProcessorStep
<1>3. CASE AppCheckpointed
  BY <1>3 DEF AppCheckpointed, Next, ManagerStep
<1>4. CASE AppComplete
  <2>1. todo.op \in Ops
    BY <1>4 DEF AppComplete, AppTypeOK, Todos
  <2>. QED
    BY <1>4, <2>1 DEF AppComplete, Next, ProcessorStep
<1>5. CASE AppRestart
  BY <1>5 DEF AppRestart, Next, Failure
<1>6. CASE Elsewhere(OnActionEnd) \/ Elsewhere(OnWriteError) \/ Elsewhere(DaemonStep)
  BY <1>6 DEF Elsewhere, Next, ManagerStep
<1>7. CASE Elsewhere(ChildDies \/ DaemonDies \/ Stop)
  BY <1>7 DEF Elsewhere, Next, Failure
<1>8. CASE UNCHANGED appVars
  BY <1>8 DEF appVars
<1>. QED
  BY <1>1, <1>2, <1>3, <1>4, <1>5, <1>6, <1>7, <1>8 DEF AppNext

\* With no line under way and a request not answered nothing is promised.
LEMMA NoLineSaysNothing ==
  ASSUME toChild' = << >>, toDaemon' = << >>, daemon'.phase \in Ops
  PROVE  LinesKeepUp'
BY OneLine DEF LinesKeepUp, Ops

\* A child that has ended does nothing, whatever it had to do.
LEMMA DeadDoesNothing ==
  ASSUME ~child'.alive
  PROVE  ActsInTurn'
BY DEF ActsInTurn

\* The invariant holds at first.
LEMMA AppStarts == AppInit => AppInv
<1>. SUFFICES ASSUME AppInit PROVE AppInv
  OBVIOUS
<1>1. Conversation
  BY InitConversation DEF AppInit
<1>2. /\ child = NewChild /\ toChild = << >> /\ toDaemon = << >> /\ daemon = NewDaemon
      /\ delivered = 0 /\ checkpointed = 0 /\ todo = Idle /\ refused = FALSE
  BY DEF AppInit, Init
<1>3. refused \in BOOLEAN
  BY <1>2
<1>4. AppTypeOK
  BY <1>2, <1>3 DEF AppTypeOK, Idle, Todos
<1>5. Kept
  BY <1>2 DEF Kept
<1>6. ActsInTurn
  BY <1>2 DEF ActsInTurn, Idle, NewChild, Asking
<1>7. LinesKeepUp
  BY <1>2, <1>5, OneLine DEF LinesKeepUp
<1>8. AppHonoursContract
  BY <1>2 DEF AppHonoursContract, NewChild
<1>. QED
  BY <1>1, <1>4, <1>6, <1>7, <1>8 DEF AppInv, AppContract

\* The manager calls the application (sample_kcl_app.js:46-120), which has
\* something to do in the state it is called in.
LEMMA AppCalledKeeps ==
  ASSUME AppInv, AppCalled
  PROVE  AppContract'
<1>1. RequestSent
  BY ReadsRequest DEF AppCalled, OnRecordProcessorAction, AppInv
<1>2. PICK line \in Requests : toChild = <<line>> /\ line.action = daemon.phase
  BY <1>1 DEF RequestSent
<1>3. /\ Head(toChild) = line /\ toChild' = << >> /\ toDaemon' = << >> /\ daemon' = daemon
      /\ UNCHANGED <<delivered, checkpointed, refused>>
  BY <1>1, <1>2, OneLine DEF AppCalled, OnRecordProcessorAction, RequestSent
<1>. DEFINE op == daemon.phase
            c == HandleStateInput(child, Begin[op])
<1>4. /\ child \in Children /\ child.alive /\ op \in Ops
      /\ child.state = Before[op] /\ child.callback = NoCallback
      /\ child' = c
  BY <1>1, <1>2, <1>3
     DEF AppCalled, OnRecordProcessorAction, RequestSent, ChildIs, AppInv, Conversation, TypeOK
<1>5. child.state \in States
  BY <1>4 DEF Children
<1>6. /\ Accepts(child.state, Begin[op])
      /\ Target(child.state, Begin[op]) = During[op]
  BY <1>4, <1>5, Transitions, Targets DEF Before, Begin, During, Ops
<1>7. child'.alive /\ child'.state = During[op]
  BY <1>4, <1>6, StateInput
<1>8. todo' = Reaction(line)
  BY <1>3, <1>7 DEF AppCalled
<1>9. \/ todo' = CompleteNext(op) /\ Kept'
      \/ op # "initialize" /\ \E seq \in SeqNumbers :
                                todo' = CheckpointNext(op, seq) /\ seq \in {Latest, delivered}
  <2>1. CASE line.action = "initialize"
    <3>1. Kept
      BY <1>2, <2>1 DEF AppInv, AppContract, LinesKeepUp
    <3>. QED
      BY <1>2, <1>3, <1>8, <2>1, <3>1 DEF Reaction, Kept
  <2>2. CASE line.action = "processRecords"
    <3>1. ~refused => checkpointed = line.first
      BY <1>2, <2>2 DEF AppInv, AppContract, LinesKeepUp
    <3>2. line.last = delivered /\ line.last \in SeqNumbers
      BY <1>2, <2>2 DEF AppInv, Conversation, HandedOver, TypeOK
    <3>3. CASE line.first = line.last
      BY <1>2, <1>3, <1>8, <2>2, <3>1, <3>2, <3>3 DEF Reaction, Kept
    <3>4. CASE line.first # line.last
      BY <1>2, <1>3, <1>8, <2>2, <3>2, <3>4 DEF Reaction
    <3>. QED
      BY <3>3, <3>4
  <2>3. CASE line.action = "shutdown"
    <3>1. Kept
      BY <1>2, <2>3 DEF AppInv, AppContract, LinesKeepUp
    <3>2. Latest \in SeqNumbers
      BY LastRecordAssumption DEF Latest, SeqNumbers
    <3>3. CASE line.reason # "TERMINATE"
      BY <1>2, <1>3, <1>8, <2>3, <3>1, <3>3 DEF Reaction, Kept
    <3>4. CASE line.reason = "TERMINATE"
      BY <1>2, <1>8, <2>3, <3>2, <3>4 DEF Reaction
    <3>. QED
      BY <3>3, <3>4
  <2>. QED
    BY <1>2, <1>4, <2>1, <2>2, <2>3 DEF Ops
<1>10. child'.state # "Error" /\ \A o \in {"processRecords", "shutdown"} : child'.state # Asking[o]
  BY <1>4, <1>7 DEF During, Asking, Ops
<1>11. AppTypeOK' /\ ActsInTurn'
  <2>1. refused' \in BOOLEAN
    BY <1>3 DEF AppInv, AppContract, AppTypeOK
  <2>2. CASE todo' = CompleteNext(op) /\ Kept'
    <3>1. todo' \in Todos /\ todo'.do = "complete" /\ todo'.op = op
      BY <1>4, <2>2 DEF CompleteNext, Todos
    <3>. QED
      BY <1>7, <1>10, <2>1, <2>2, <3>1 DEF AppTypeOK, ActsInTurn
  <2>3. ASSUME op # "initialize", NEW seq \in SeqNumbers,
               todo' = CheckpointNext(op, seq), seq \in {Latest, delivered}
        PROVE  AppTypeOK' /\ ActsInTurn'
    <3>1. todo' \in Todos /\ todo'.do = "checkpoint" /\ todo'.op = op /\ todo'.seq = seq
      BY <1>4, <2>3, TodoTypes
    <3>. QED
      BY <1>3, <1>7, <1>10, <2>1, <2>3, <3>1 DEF AppTypeOK, ActsInTurn, AsksForAll
  <2>. QED
    BY <1>9, <2>2, <2>3
<1>12. LinesKeepUp'
  BY <1>3, <1>4, NoLineSaysNothing
<1>13. AppHonoursContract'
  BY <1>10 DEF AppHonoursContract
<1>. QED
  BY <1>11, <1>12, <1>13 DEF AppContract

\* A line that did not leave the child as it should have is a known write error.
LEMMA WriteErrorIsKnown ==
  ASSUME NEW c \in Children, c.alive, NEW line, SendAction(c, line)
  PROVE  child' = c \/ child'.writeError
<1>. DEFINE broken == [c EXCEPT !.writeError = TRUE]
<1>1. broken \in Children /\ broken.writeError
  BY DEF Children
<1>2. HandleStateInput(broken, "error").writeError
  BY <1>1, StateInput
<1>3. \/ child' = c
      \/ child' = HandleStateInput(broken, "error")
      \/ child' = broken
  BY DEF SendAction
<1>. HIDE DEF broken
<1>. QED
  BY <1>1, <1>2, <1>3

\* The application completes the call it got, in the state that allows it.
LEMMA AppCompleteKeeps ==
  ASSUME AppInv, AppComplete
  PROVE  AppContract'
<1>. DEFINE op   == todo.op
            c    == HandleStateInput(child, Finish[op])
            line == [action |-> "status", responseFor |-> op]
<1>1. /\ todo.do = "complete" /\ todo \in Todos /\ refused \in BOOLEAN
      /\ child \in Children /\ child.alive /\ SendAction(c, line)
      /\ todo' = Idle /\ UNCHANGED <<toChild, daemon, delivered, checkpointed, refused>>
  BY DEF AppComplete, Complete, AppInv, AppContract, AppTypeOK, Conversation, TypeOK
<1>2. op \in Ops
  BY <1>1 DEF Todos
<1>3. child.state = During[op] /\ Kept
  BY <1>1 DEF AppInv, AppContract, ActsInTurn
<1>4. daemon.phase = op /\ toChild = << >> /\ toDaemon = << >>
  BY <1>1, <1>2, <1>3, AtWork DEF AppInv
<1>5. child.state \in States
  BY <1>1 DEF Children
<1>6. Accepts(child.state, Finish[op]) /\ Target(child.state, Finish[op]) = After[op]
  BY <1>2, <1>3, <1>5, Transitions, Targets DEF Finish, During, After, Ops
<1>7. c \in Children /\ c.alive /\ c.state = After[op] /\ c.writeError = child.writeError
  BY <1>1, <1>6, StateInput
<1>8. \/ child' = c /\ toDaemon' = <<line>>
      \/ ~child'.alive /\ toDaemon' \in {<< >>, <<line>>}
      \/ child'.writeError /\ child'.state = c.state /\ toDaemon' = << >>
  BY <1>1, <1>4, <1>7, Written
<1>. HIDE DEF c, line
<1>9. AppTypeOK'
  BY <1>1 DEF AppTypeOK, Idle, Todos
<1>10. ActsInTurn'
  <2>1. After[op] # "Error" /\ \A o \in {"processRecords", "shutdown"} : After[op] # Asking[o]
    BY <1>2 DEF After, Asking, Ops
  <2>2. todo'.do = "nothing"
    BY <1>1 DEF Idle
  <2>. QED
    BY <1>7, <1>8, <2>1, <2>2 DEF ActsInTurn
<1>11. LinesKeepUp'
  <2>1. Kept'
    BY <1>1, <1>3 DEF Kept
  <2>. QED
    BY <1>1, <1>2, <1>4, <2>1, OneLine DEF LinesKeepUp, Ops
<1>12. AppHonoursContract'
  <2>1. After[op] # "Error"
    BY <1>2 DEF After, Ops
  <2>2. child'.state = "Error" => child'.writeError
    <3>1. CASE child' = c
      BY <1>7, <2>1, <3>1
    <3>2. CASE child' # c
      BY <1>1, <1>7, <3>2, WriteErrorIsKnown
    <3>. QED
      BY <3>1, <3>2
  <2>. QED
    BY <2>2 DEF AppHonoursContract
<1>. QED
  BY <1>9, <1>10, <1>11, <1>12 DEF AppContract

\* The application checkpoints (sample_kcl_app.js:82-90, 110-113).
LEMMA AppCheckpointKeeps ==
  ASSUME AppInv, AppCheckpoint
  PROVE  AppContract'
<1>. DEFINE op     == todo.op
            seq    == todo.seq
            asking == [child EXCEPT !.callback = seq]
            c      == HandleStateInput(asking, "beginCheckpoint")
            line   == [action |-> "checkpoint", checkpoint |-> seq]
<1>1. /\ todo.do = "checkpoint" /\ todo \in Todos /\ refused \in BOOLEAN
      /\ child \in Children /\ child.alive
      /\ todo' = AwaitCheckpoint(op)
      /\ UNCHANGED <<toChild, daemon, delivered, checkpointed, refused>>
  BY DEF AppCheckpoint, Checkpoint, AppInv, AppContract, AppTypeOK, Conversation, TypeOK
<1>2. op \in Ops /\ seq \in SeqNumbers
  BY <1>1 DEF Todos
<1>3. child.state = During[op] /\ op # "initialize" /\ AsksForAll(seq)
  BY <1>1 DEF AppInv, AppContract, ActsInTurn
<1>4. /\ daemon.phase = op /\ toChild = << >> /\ toDaemon = << >>
      /\ child.callback = NoCallback
  BY <1>1, <1>2, <1>3, AtWork DEF AppInv
<1>5. SendAction(c, line)
  BY <1>4 DEF AppCheckpoint, Checkpoint
<1>6. /\ asking \in Children /\ asking.alive /\ asking.state = child.state
      /\ asking.callback = seq
  BY <1>1, <1>2 DEF Children
<1>7. asking.state \in States
  BY <1>6 DEF Children
<1>8. /\ Accepts(asking.state, "beginCheckpoint")
      /\ Target(asking.state, "beginCheckpoint") = Asking[op]
  BY <1>2, <1>3, <1>6, <1>7, Transitions, Targets DEF During, Asking, Ops
<1>9. c \in Children /\ c.alive /\ c.state = Asking[op] /\ c.callback = seq
  BY <1>6, <1>8, StateInput
<1>10. \/ child' = c /\ toDaemon' = <<line>>
       \/ ~child'.alive /\ toDaemon' \in {<< >>, <<line>>}
       \/ /\ child'.writeError /\ child'.state = c.state
          /\ child'.callback = c.callback /\ toDaemon' = << >>
  BY <1>4, <1>5, <1>9, Written
<1>11. line.action = "checkpoint"
  OBVIOUS
<1>. HIDE DEF c, asking, line
<1>12. AppTypeOK'
  BY <1>1, <1>2, TodoTypes DEF AppTypeOK
<1>13. ActsInTurn'
  <2>1. todo'.do = "await"
    BY <1>1, <1>2, TodoTypes
  <2>2. \A o \in {"processRecords", "shutdown"} : Asking[op] = Asking[o] => o = op
    BY <1>2, <1>3 DEF Asking, Ops
  <2>3. child'.alive => child'.state = Asking[op] /\ child'.callback = seq
    BY <1>9, <1>10
  <2>4. seq \in {Latest, delivered'}
    BY <1>1, <1>3 DEF AsksForAll
  <2>5. ASSUME child'.alive, NEW o \in {"processRecords", "shutdown"}, child'.state = Asking[o]
        PROVE  todo' = AwaitCheckpoint(o) /\ AsksForAll(child.callback)'
    <3>1. o = op /\ child'.callback = seq
      BY <2>2, <2>3, <2>5
    <3>. QED
      BY <1>1, <2>4, <3>1 DEF AsksForAll
  <2>. QED
    BY <2>1, <2>5 DEF ActsInTurn
<1>14. LinesKeepUp'
  <2>1. \A l \in Statuses : toDaemon' # <<l>>
    <3>1. \A l \in Statuses : l.action = "status"
      BY DEF Statuses
    <3>2. \A l \in Statuses : l # line
      BY <1>11, <3>1
    <3>3. toDaemon' \in {<< >>, <<line>>}
      BY <1>10
    <3>. QED
      BY <3>2, <3>3, OneLine
  <2>. QED
    BY <1>1, <1>2, <1>4, <2>1, OneLine DEF LinesKeepUp, Ops
<1>15. AppHonoursContract'
  <2>1. Asking[op] # "Error"
    BY <1>2, <1>3 DEF Asking, Ops
  <2>2. child'.state = "Error" => child'.writeError
    <3>1. CASE child' = c
      BY <1>9, <2>1, <3>1
    <3>2. CASE child' # c
      BY <1>5, <1>9, <3>2, WriteErrorIsKnown
    <3>. QED
      BY <3>1, <3>2
  <2>. QED
    BY <2>2 DEF AppHonoursContract
<1>. QED
  BY <1>12, <1>13, <1>14, <1>15 DEF AppContract

\* The answer to its checkpoint arrives, and says whether it was refused.
LEMMA AppCheckpointedKeeps ==
  ASSUME AppInv, AppCheckpointed
  PROVE  AppContract'
<1>1. AnswerSent
  BY ReadsAnswer DEF AppCheckpointed, OnCheckpointAction, AppInv
<1>2. PICK line \in Responses : toChild = <<line>>
  BY <1>1 DEF AnswerSent
<1>. DEFINE op == daemon.phase
            c  == HandleStateInput(child, "finishCheckpoint")
<1>3. /\ Head(toChild) = line /\ toChild' = << >> /\ toDaemon' = << >> /\ daemon' = daemon
      /\ UNCHANGED <<delivered, checkpointed>> /\ refused' = line.error
  BY <1>1, <1>2, OneLine DEF AppCheckpointed, OnCheckpointAction, AnswerSent
<1>4. /\ child \in Children /\ child.alive
      /\ op \in {"processRecords", "shutdown"} /\ op \in Ops
      /\ child.state = Asking[op]
  BY <1>1 DEF AppCheckpointed, OnCheckpointAction, AnswerSent, AppInv, Conversation, TypeOK, Ops
<1>5. child.state \in States
  BY <1>4 DEF Children
<1>6. /\ Accepts(child.state, "finishCheckpoint")
      /\ Target(child.state, "finishCheckpoint") = During[op]
  BY <1>4, <1>5, Transitions, Targets DEF Asking, During
<1>7. c \in Children /\ c.alive /\ c.state = During[op]
  BY <1>4, <1>6, StateInput
<1>8. child' = [c EXCEPT !.callback = NoCallback]
  BY <1>7 DEF AppCheckpointed, OnCheckpointAction
<1>9. child'.alive /\ child'.state = During[op]
  BY <1>7, <1>8 DEF Children
<1>10. todo' = CompleteNext(op)
  <2>1. todo = AwaitCheckpoint(op)
    BY <1>4 DEF AppInv, AppContract, ActsInTurn
  <2>2. todo.op = op
    BY <2>1 DEF AwaitCheckpoint
  <2>. QED
    BY <1>9, <2>2 DEF AppCheckpointed
<1>11. Kept'
  BY <1>2, <1>3, <1>4 DEF Kept, AppInv, AppContract, LinesKeepUp
<1>12. todo' \in Todos /\ todo'.do = "complete" /\ todo'.op = op
  BY <1>4, <1>10 DEF CompleteNext, Todos
<1>13. refused' \in BOOLEAN
  BY <1>3 DEF Responses
<1>14. child'.state # "Error" /\ \A o \in {"processRecords", "shutdown"} : child'.state # Asking[o]
  BY <1>4, <1>9 DEF During, Asking, Ops
<1>15. AppTypeOK' /\ ActsInTurn'
  BY <1>9, <1>11, <1>12, <1>13, <1>14 DEF AppTypeOK, ActsInTurn
<1>16. LinesKeepUp'
  BY <1>3, <1>4, NoLineSaysNothing
<1>17. AppHonoursContract'
  BY <1>14 DEF AppHonoursContract
<1>. QED
  BY <1>15, <1>16, <1>17 DEF AppContract

\* A new worker starts where the checkpoint is.
LEMMA AppRestartKeeps ==
  ASSUME AppInv, AppRestart
  PROVE  AppContract'
<1>1. /\ child' = NewChild /\ toChild' = << >> /\ toDaemon' = << >>
      /\ daemon' = NewDaemon /\ delivered' = checkpointed /\ checkpointed' = checkpointed
      /\ todo' = Idle /\ refused' = FALSE
  BY DEF AppRestart, Restart
<1>2. refused' \in BOOLEAN
  BY <1>1
<1>3. AppTypeOK'
  BY <1>1, <1>2 DEF AppTypeOK, Idle, Todos
<1>4. Kept'
  BY <1>1 DEF Kept
<1>5. child'.state = "Start" /\ todo'.do = "nothing"
  BY <1>1 DEF NewChild, Idle
<1>6. ActsInTurn'
  BY <1>5 DEF ActsInTurn, Asking
<1>7. LinesKeepUp'
  BY <1>1, <1>4, OneLine DEF LinesKeepUp
<1>8. AppHonoursContract'
  BY <1>5 DEF AppHonoursContract
<1>. QED
  BY <1>3, <1>6, <1>7, <1>8 DEF AppContract

\* A step that moves no line and no record keeps what the lines say.
LEMMA LinesStay ==
  ASSUME LinesKeepUp, daemon'.phase = daemon.phase, child'.alive => child.alive,
         UNCHANGED <<toChild, toDaemon, delivered, checkpointed, refused>>
  PROVE  LinesKeepUp'
BY DEF LinesKeepUp, Kept

\* The child ends: for a reason of its own, or for a write error.
LEMMA AppChildEnds ==
  ASSUME AppInv, ~child'.alive, child'.state = "Error" => child'.writeError \/ ~daemon.up,
         UNCHANGED <<toChild, toDaemon, daemon, delivered, checkpointed, todo, refused>>
  PROVE  AppContract'
<1>1. AppTypeOK'
  BY DEF AppInv, AppContract, AppTypeOK
<1>2. LinesKeepUp'
  BY LinesStay DEF AppInv, AppContract
<1>3. AppHonoursContract'
  BY DEF AppHonoursContract
<1>. QED
  BY <1>1, <1>2, <1>3, DeadDoesNothing DEF AppContract

\* The daemon ends.
LEMMA AppDaemonEnds ==
  ASSUME AppInv, daemon'.phase = daemon.phase, ~daemon'.up,
         UNCHANGED <<child, toChild, toDaemon, delivered, checkpointed, todo, refused>>
  PROVE  AppContract'
<1>1. AppTypeOK'
  BY DEF AppInv, AppContract, AppTypeOK
<1>2. ActsInTurn'
  BY DEF AppInv, AppContract, ActsInTurn, Kept, AsksForAll
<1>3. LinesKeepUp'
  BY LinesStay DEF AppInv, AppContract
<1>4. AppHonoursContract'
  BY DEF AppHonoursContract
<1>. QED
  BY <1>1, <1>2, <1>3, <1>4 DEF AppContract

\* The end of the input (kcl_manager.js:230-234): of a daemon that is gone, or
\* of one that closed it, and then the state machine is in its End state.
LEMMA AppEndKeeps ==
  ASSUME AppInv, Elsewhere(OnActionEnd)
  PROVE  AppContract'
<1>. DEFINE c == HandleStateInput(child, "cleanup")
<1>1. /\ child \in Children /\ child.alive
      /\ ~daemon.up \/ daemon.phase = "closed"
      /\ child' = [c EXCEPT !.alive = FALSE]
      /\ UNCHANGED <<toChild, toDaemon, daemon, delivered, checkpointed, todo, refused>>
  BY DEF Elsewhere, OnActionEnd, AppInv, Conversation, TypeOK
<1>2. c \in Children /\ c.state = Target(child.state, "cleanup")
  BY <1>1, StateInput
<1>. HIDE DEF c
<1>3. ~child'.alive /\ child'.state = c.state
  BY <1>1, <1>2 DEF Children
<1>4. CASE ~daemon.up
  BY <1>1, <1>3, <1>4, AppChildEnds
<1>5. CASE daemon.phase = "closed"
  <2>1. child.state = "End"
    BY <1>1, <1>5 DEF AppInv, Conversation, TakingTurns, NoRequest, RequestSent, NoLine,
                      StatusSent, CheckpointSent, AnswerSent, ChildIs, Ops
  <2>2. c.state = "End"
    BY <1>2, <2>1, Targets
  <2>. QED
    BY <1>1, <1>3, <2>2, AppChildEnds
<1>. QED
  BY <1>1, <1>4, <1>5

\* A late write error (kcl_manager.js:317-341).
LEMMA AppWriteErrorKeeps ==
  ASSUME AppInv, Elsewhere(OnWriteError)
  PROVE  AppContract'
<1>1. /\ child \in Children /\ child.writeError
      /\ child' = HandleStateInput(child, "error")
      /\ UNCHANGED <<toChild, toDaemon, daemon, delivered, checkpointed, todo, refused>>
  BY DEF Elsewhere, OnWriteError, AppInv, Conversation, TypeOK
<1>2. child.state \in States
  BY <1>1 DEF Children
<1>3. ~child'.alive /\ child'.writeError
  BY <1>1, <1>2, StateInput, Transitions
<1>. QED
  BY <1>1, <1>3, AppChildEnds

\* The failures of either process.
LEMMA AppFailureKeeps ==
  ASSUME AppInv, Elsewhere(ChildDies \/ DaemonDies \/ Stop)
  PROVE  AppContract'
<1>1. UNCHANGED <<todo, refused>> /\ child \in Children /\ daemon \in Daemons
  BY DEF Elsewhere, AppInv, Conversation, TypeOK
<1>2. CASE ChildDies
  <2>1. /\ child' = [child EXCEPT !.alive = FALSE]
        /\ UNCHANGED <<toChild, toDaemon, daemon, delivered, checkpointed>>
    BY <1>2 DEF ChildDies
  <2>2. ~child'.alive /\ child'.state = child.state /\ child'.writeError = child.writeError
    BY <1>1, <2>1 DEF Children
  <2>3. child'.state = "Error" => child'.writeError \/ ~daemon.up
    BY <2>2 DEF AppInv, AppContract, AppHonoursContract
  <2>. QED
    BY <1>1, <2>1, <2>2, <2>3, AppChildEnds
<1>3. CASE DaemonDies
  <2>1. /\ daemon' = [daemon EXCEPT !.up = FALSE]
        /\ UNCHANGED <<child, toChild, toDaemon, delivered, checkpointed>>
    BY <1>3 DEF DaemonDies
  <2>2. daemon'.phase = daemon.phase /\ ~daemon'.up
    BY <1>1, <2>1 DEF Daemons
  <2>. QED
    BY <1>1, <2>1, <2>2, AppDaemonEnds
<1>4. CASE Stop
  <2>1. UNCHANGED <<child, toChild, toDaemon, daemon, delivered, checkpointed, todo, refused>>
    BY <1>1, <1>4 DEF Stop, vars
  <2>. QED
    BY <2>1 DEF AppInv, AppContract, AppTypeOK, ActsInTurn, LinesKeepUp,
                AppHonoursContract, Kept, AsksForAll
<1>. QED
  BY <1>2, <1>3, <1>4 DEF Elsewhere

\* Between two calls the application has nothing to do.
LEMMA Resting ==
  ASSUME AppInv, child.alive => child.state \in {"Start", "Ready", "End"},
         UNCHANGED <<child, todo>>
  PROVE  ActsInTurn'
<1>1. todo \in Todos /\ ActsInTurn
  BY DEF AppInv, AppContract, AppTypeOK
<1>2. child.alive => todo.do \notin {"complete", "checkpoint"}
  <2>1. todo.do \in {"complete", "checkpoint"} => todo.op \in Ops
    BY <1>1 DEF Todos
  <2>2. \A op \in Ops : During[op] \notin {"Start", "Ready", "End"}
    BY DEF During, Ops
  <2>. QED
    BY <1>1, <2>1, <2>2 DEF ActsInTurn
<1>3. \A op \in {"processRecords", "shutdown"} : Asking[op] \notin {"Start", "Ready", "End"}
  BY DEF Asking
<1>. QED
  BY <1>2, <1>3 DEF ActsInTurn

\* The daemon sends a request only when all it delivered is checkpointed, or
\* the checkpoint was refused.
LEMMA AppRequestKeeps ==
  ASSUME AppInv, NEW line \in Requests, SendRequest(line), UNCHANGED <<todo, refused>>,
         \/ daemon.phase = "start" /\ line.action = "initialize"
         \/ daemon.phase = "ready" /\ line.action \in {"processRecords", "shutdown"},
         IF line.action = "processRecords" THEN line.first = delivered ELSE delivered' = delivered
  PROVE  AppContract'
<1>1. Conversation
  BY DEF AppInv
<1>2. RequestSent' /\ toChild' = <<line>>
  BY <1>1, SendRequestKeeps
<1>3. Kept
  BY DEF AppInv, AppContract, LinesKeepUp
<1>4. toDaemon' = << >> /\ daemon'.phase \in Ops
  BY <1>2 DEF RequestSent
<1>5. UNCHANGED <<child, checkpointed>>
  BY DEF SendRequest
<1>6. child.alive => child.state \in {"Start", "Ready"}
  BY <1>1 DEF Conversation, TakingTurns, NoRequest, RequestSent, NoLine, StatusSent,
              CheckpointSent, AnswerSent, ChildIs, Ops
<1>7. AppTypeOK'
  BY DEF AppInv, AppContract, AppTypeOK
<1>8. ActsInTurn'
  BY <1>5, <1>6, Resting
<1>9. LinesKeepUp'
  <2>1. \A l : toChild' = <<l>> => l = line
    BY <1>2, OneLine
  <2>2. line.action # "checkpoint"
    BY DEF Requests
  <2>3. \A l \in Responses : l.action = "checkpoint"
    BY DEF Responses
  <2>4. IF line.action = "processRecords" THEN ~refused' => checkpointed' = line.first ELSE Kept'
    BY <1>3, <1>5 DEF Kept
  <2>5. daemon'.phase \notin {"start", "ready", "closed"}
    BY <1>4 DEF Ops
  <2>. QED
    BY <1>4, <2>1, <2>2, <2>3, <2>4, <2>5, OneLine DEF LinesKeepUp
<1>10. AppHonoursContract'
  BY <1>5, <1>6 DEF AppHonoursContract, AppInv, AppContract, SendRequest, Conversation, TypeOK, Daemons
<1>. QED
  BY <1>7, <1>8, <1>9, <1>10 DEF AppContract

\* The daemon reads the status of the request it waits for.
LEMMA AppStatusKeeps ==
  ASSUME AppInv, ReceiveStatus, UNCHANGED <<todo, refused>>
  PROVE  AppContract'
<1>1. StatusSent
  BY ReadsStatus DEF ReceiveStatus, AppInv
<1>. DEFINE line == [action |-> "status", responseFor |-> daemon.phase]
<1>2. line \in Statuses /\ line.responseFor = daemon.phase
  BY <1>1 DEF StatusSent, Statuses
<1>3. /\ toDaemon = <<line>> /\ toDaemon' = << >> /\ toChild' = << >>
      /\ Head(toDaemon) = line
      /\ UNCHANGED <<child, delivered, checkpointed>>
  BY <1>1, OneLine DEF ReceiveStatus, StatusSent
<1>4. daemon'.up = daemon.up
  BY <1>2, <1>3 DEF ReceiveStatus, AppInv, Conversation, TypeOK, Daemons
<1>. HIDE DEF line
<1>5. Kept
  BY <1>2, <1>3 DEF AppInv, AppContract, LinesKeepUp
<1>6. child.alive => child.state \in {"Ready", "End"}
  BY <1>1 DEF StatusSent, ChildIs, After, Ops
<1>7. AppTypeOK'
  BY DEF AppInv, AppContract, AppTypeOK
<1>8. ActsInTurn'
  BY <1>3, <1>6, Resting
<1>9. Kept'
  BY <1>3, <1>5 DEF Kept
<1>10. LinesKeepUp'
  BY <1>3, <1>9, OneLine DEF LinesKeepUp
<1>11. AppHonoursContract'
  BY <1>3, <1>4 DEF AppHonoursContract, AppInv, AppContract
<1>. QED
  BY <1>7, <1>8, <1>10, <1>11 DEF AppContract

\* The daemon answers the application's checkpoint, which asked for all that
\* was delivered.
LEMMA AppAnswerKeeps ==
  ASSUME AppInv, ReceiveCheckpoint, UNCHANGED <<todo, refused>>
  PROVE  AppContract'
<1>1. CheckpointSent
  BY ReadsCheckpoint DEF ReceiveCheckpoint, AppInv
<1>2. PICK line \in CheckpointCalls :
        /\ toDaemon = <<line>>
        /\ child.alive => /\ child.state = Asking[daemon.phase]
                          /\ child.callback = line.checkpoint
  BY <1>1 DEF CheckpointSent
<1>3. /\ Head(toDaemon) = line /\ toDaemon' = << >> /\ toChild = << >>
      /\ daemon.phase \in {"processRecords", "shutdown"}
      /\ UNCHANGED <<child, daemon, delivered>>
  BY <1>1, <1>2, OneLine DEF ReceiveCheckpoint, CheckpointSent
<1>. DEFINE asked        == line.checkpoint
            seq          == IF asked = Latest THEN delivered ELSE asked
            answer(n, e) == [action |-> "checkpoint", checkpoint |-> n, error |-> e]
<1>4. \/ toChild' = <<answer(asked, TRUE)>>
      \/ toChild' = <<answer(seq, FALSE)>> /\ checkpointed' = seq
  BY <1>3, OneLine DEF ReceiveCheckpoint
<1>5. child.alive => todo.do = "await" /\ AsksForAll(asked)
  <2>. SUFFICES ASSUME child.alive PROVE todo.do = "await" /\ AsksForAll(asked)
    OBVIOUS
  <2>1. todo = AwaitCheckpoint(daemon.phase) /\ AsksForAll(child.callback)
    BY <1>2, <1>3 DEF AppInv, AppContract, ActsInTurn
  <2>. QED
    BY <1>2, <2>1 DEF AwaitCheckpoint
<1>6. child.alive => seq = delivered
  BY <1>5 DEF AsksForAll
<1>7. PICK a : /\ toChild' = <<a>> /\ a.action = "checkpoint"
               /\ child.alive /\ ~a.error => checkpointed' = delivered
  <2>1. \A n : answer(n, TRUE).action = "checkpoint" /\ answer(n, TRUE).error
    OBVIOUS
  <2>2. answer(seq, FALSE).action = "checkpoint"
    OBVIOUS
  <2>. HIDE DEF answer, seq, asked
  <2>3. CASE toChild' = <<answer(asked, TRUE)>>
    BY <2>1, <2>3
  <2>4. CASE toChild' = <<answer(seq, FALSE)>> /\ checkpointed' = seq
    BY <1>6, <2>2, <2>4
  <2>. QED
    BY <1>4, <2>3, <2>4
<1>8. AppTypeOK'
  BY DEF AppInv, AppContract, AppTypeOK
<1>9. ActsInTurn'
  BY <1>3, <1>5 DEF AppInv, AppContract, ActsInTurn, AsksForAll
<1>10. LinesKeepUp'
  <2>1. \A l : toChild' = <<l>> => l = a
    BY <1>7, OneLine
  <2>2. \A l \in Requests : l.action # "checkpoint"
    BY DEF Requests
  <2>. QED
    BY <1>3, <1>7, <2>1, <2>2, OneLine DEF LinesKeepUp
<1>11. AppHonoursContract'
  BY <1>3 DEF AppHonoursContract, AppInv, AppContract
<1>. QED
  BY <1>8, <1>9, <1>10, <1>11 DEF AppContract

\* Every step of the daemon.
LEMMA AppDaemonKeeps ==
  ASSUME AppInv, Elsewhere(DaemonStep)
  PROVE  AppContract'
<1>1. UNCHANGED <<todo, refused>>
  BY DEF Elsewhere
<1>2. CASE SendInitialize
  <2>. DEFINE line == [action |-> "initialize"]
  <2>1. line \in Requests /\ line.action = "initialize"
    BY DEF Requests
  <2>2. SendRequest(line) /\ daemon.phase = "start" /\ delivered' = delivered
    BY <1>2 DEF SendInitialize
  <2>. HIDE DEF line
  <2>. QED
    BY <1>1, <2>1, <2>2, AppRequestKeeps
<1>3. CASE SendRecords
  <2>1. PICK last \in delivered .. LastRecord :
          SendRequest([action |-> "processRecords", first |-> delivered, last |-> last])
    BY <1>3 DEF SendRecords
  <2>. DEFINE line == [action |-> "processRecords", first |-> delivered, last |-> last]
  <2>2. delivered \in SeqNumbers /\ last \in SeqNumbers
    BY LastRecordAssumption DEF AppInv, Conversation, TypeOK, SeqNumbers
  <2>3. line \in Requests /\ line.action = "processRecords" /\ line.first = delivered
    BY <2>2 DEF Requests
  <2>4. SendRequest(line) /\ daemon.phase = "ready"
    BY <1>3, <2>1 DEF SendRecords
  <2>. HIDE DEF line
  <2>. QED
    BY <1>1, <2>3, <2>4, AppRequestKeeps
<1>4. CASE SendShutdown
  <2>1. PICK reason \in Reasons : SendRequest([action |-> "shutdown", reason |-> reason])
    BY <1>4 DEF SendShutdown
  <2>. DEFINE line == [action |-> "shutdown", reason |-> reason]
  <2>2. line \in Requests /\ line.action = "shutdown"
    BY DEF Requests
  <2>3. SendRequest(line) /\ daemon.phase = "ready" /\ delivered' = delivered
    BY <1>4, <2>1 DEF SendShutdown
  <2>. HIDE DEF line
  <2>. QED
    BY <1>1, <2>2, <2>3, AppRequestKeeps
<1>5. CASE ReceiveStatus
  BY <1>1, <1>5, AppStatusKeeps
<1>6. CASE ReceiveCheckpoint
  BY <1>1, <1>6, AppAnswerKeeps
<1>7. CASE NoticeChildDeath
  <2>1. /\ daemon' = [daemon EXCEPT !.up = FALSE] /\ daemon \in Daemons
        /\ UNCHANGED <<child, toChild, toDaemon, delivered, checkpointed>>
    BY <1>7 DEF NoticeChildDeath, AppInv, Conversation, TypeOK
  <2>2. daemon'.phase = daemon.phase /\ ~daemon'.up
    BY <2>1 DEF Daemons
  <2>. QED
    BY <1>1, <2>1, <2>2, AppDaemonEnds
<1>. QED
  BY <1>2, <1>3, <1>4, <1>5, <1>6, <1>7 DEF Elsewhere, DaemonStep

\* Every step keeps the inductive invariant.
LEMMA AppStepKeeps ==
  ASSUME AppInv, [AppNext]_appVars
  PROVE  AppInv'
<1>1. [Next]_vars
  BY AppStepIsKclStep DEF AppInv, AppContract
<1>2. Conversation'
  BY <1>1, NextConversation DEF AppInv
<1>3. CASE UNCHANGED appVars
  <2>1. UNCHANGED <<child, toChild, toDaemon, daemon, delivered, checkpointed, todo, refused>>
    BY <1>3 DEF appVars, vars
  <2>. QED
    BY <1>2, <2>1 DEF AppInv, AppContract, AppTypeOK, ActsInTurn, LinesKeepUp,
                      AppHonoursContract, Kept, AsksForAll
<1>4. CASE AppNext
  BY <1>2, <1>4, AppCalledKeeps, AppCheckpointKeeps, AppCheckpointedKeeps, AppCompleteKeeps,
     AppRestartKeeps, AppEndKeeps, AppWriteErrorKeeps, AppDaemonKeeps, AppFailureKeeps
     DEF AppNext, AppInv
<1>. QED
  BY <1>3, <1>4

-----------------------------------------------------------------------------
\* The inductive invariant: the conversation of module KCL, the state the
\* application's next call belongs to, and what each line under way says
\* about the checkpoint.
THEOREM AppInvariant == AppSpec => []AppInv
BY AppStarts, AppStepKeeps, PTL DEF AppSpec

\* The application is one of the record processors of module KCL: every step
\* it takes is a step KCL allows, so what is proved of KCL holds of it.
THEOREM AppIsARecordProcessor == AppSpec => Spec
<1>1. AppInit => Init
  BY DEF AppInit
<1>2. AppInv /\ [AppNext]_appVars => [Next]_vars
  BY AppStepIsKclStep DEF AppInv, AppContract
<1>. QED
  BY <1>1, <1>2, AppInvariant, PTL DEF AppSpec, Spec

\* sample_kcl_app.js:46-120: none of the application's calls ends in the state
\* machine's Error state; only a write error or a daemon that is gone does.
THEOREM AppKeepsContract == AppSpec => []AppHonoursContract
<1>1. AppInv => AppHonoursContract
  BY DEF AppInv, AppContract
<1>. QED
  BY <1>1, AppInvariant, PTL

\* sample_kcl_app.js:82-90 and 101-104: whenever the daemon has the status of
\* its last request, all it delivered is checkpointed, unless the last
\* checkpoint was refused.
THEOREM AppCheckpointsKeepUp == AppSpec => []CheckpointKeepsUp
<1>1. AppInv => CheckpointKeepsUp
  BY DEF AppInv, AppContract, LinesKeepUp, Kept, CheckpointKeepsUp
<1>. QED
  BY <1>1, AppInvariant, PTL

=============================================================================
