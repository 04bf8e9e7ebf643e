SPECIFICATION Spec
CONSTANTS
  LastRecord = 3
  MaxRestarts = 2
  Faults = {"childDies", "daemonDies", "pipeFull", "writeFails"}
INVARIANTS
  WireProtocol
  AnswerIsForThisCall
  NoSkippedRecord
PROPERTY
  ShardProgressSpec
