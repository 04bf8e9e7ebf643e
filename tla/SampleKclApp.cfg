SPECIFICATION AppSpec
CONSTANTS
  LastRecord = 2
  MaxRestarts = 1
  Faults = {"childDies", "daemonDies", "pipeFull", "writeFails"}
INVARIANTS
  CheckpointKeepsUp
  AppHonoursContract
PROPERTY
  NobodyWaitsForEver
