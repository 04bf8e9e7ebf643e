-------------------------- MODULE KCLStateMachine --------------------------
(***************************************************************************)
(* The machina state machine of lib/kcl/kcl_manager.js: one row per state, *)
(* one column per input the state has a handler for.  Every other input    *)
(* falls to the state's '*' handler, which goes to Error and returns       *)
(* false.  The state Uninitialized is left out: kcl(...).run() moves the   *)
(* machine to Start in the event-loop turn that creates it, before a line  *)
(* of standard input can be read.                                          *)
(***************************************************************************)

States == {"Start", "Initializing", "Ready", "Processing", "Checkpointing",
           "ShuttingDown", "FinalCheckpointing", "End", "Error"}

\* Mutant: a checkpoint is accepted between batches.
HandlersCheckpointInReady ==
  [ Start              |-> [beginInitialize      |-> "Initializing"],
    Initializing       |-> [finishInitialize     |-> "Ready"],
    Ready              |-> [beginProcessRecords  |-> "Processing",
                            beginShutdown        |-> "ShuttingDown",
                            beginCheckpoint      |-> "Checkpointing"],
    Processing         |-> [beginCheckpoint      |-> "Checkpointing",
                            finishProcessRecords |-> "Ready"],
    Checkpointing      |-> [finishCheckpoint     |-> "Processing"],
    ShuttingDown       |-> [beginCheckpoint      |-> "FinalCheckpointing",
                            finishShutdown       |-> "End"],
    FinalCheckpointing |-> [finishCheckpoint     |-> "ShuttingDown"],
    End                |-> [cleanup              |-> "End"],
    Error              |-> << >> ]

Handlers ==
  [ Start              |-> [beginInitialize      |-> "Initializing"],
    Initializing       |-> [finishInitialize     |-> "Ready"],
    Ready              |-> [beginProcessRecords  |-> "Processing",
                            beginShutdown        |-> "ShuttingDown"],
    Processing         |-> [beginCheckpoint      |-> "Checkpointing",
                            finishProcessRecords |-> "Ready"],
    Checkpointing      |-> [finishCheckpoint     |-> "Processing"],
    ShuttingDown       |-> [beginCheckpoint      |-> "FinalCheckpointing",
                            finishShutdown       |-> "End"],
    FinalCheckpointing |-> [finishCheckpoint     |-> "ShuttingDown"],
    End                |-> [cleanup              |-> "End"],
    Error              |-> << >> ]

\* What handle() returns: whether the state has a handler for the input.
Accepts(s, input) == input \in DOMAIN Handlers[s]

\* The state after handle().
Target(s, input) == IF Accepts(s, input) THEN Handlers[s][input] ELSE "Error"

=============================================================================
