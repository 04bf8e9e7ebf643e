SPECIFICATION Spec
CONSTANTS
  Parts = {"replication", "persistence", "clients"}
  ReplSetups <- MCReplSetups
  BacklogSize = 2
  PersSetups <- MCPersSetups
  ClientSetups <- MCClientSetups
INVARIANTS
  StreamCompletesSlave
  WaitTellsTheTruth
  AofIsTheDataset
  AnsweredIsKept
  NobodyIsForgotten
  TransactionsAreSound
CHECK_DEADLOCK FALSE
