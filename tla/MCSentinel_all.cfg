SPECIFICATION Spec
CHECK_DEADLOCK FALSE
CONSTANTS
  Parts = {"election", "sentinel", "scripts", "links"}
  Sentinels = {s1, s2, s3}
  SentinelQuorum = 1
  Patient = {s3}
  MaxEpoch = 2
  Unstable = {s1}
  Punctual = TRUE
  Nil = Nil
  Group = {s1, s2, s3}
  Redis = {r1, r2, r3}
  FirstMaster = r1
  Priority <- MCPriority
  ParallelSyncs = 1
  Setups <- MCSetups
  SCRIPT_MAX_QUEUE = 3
  SCRIPT_MAX_RUNNING = 2
  SCRIPT_MAX_RETRY = 2
  MaxScripts = 5
  Masters = {m1, m2}
  Others = {o1, o2}
  Addresses = {a1, a2}
  Unreachable = a0
  MaxPending = 1
  NoEntry = NoEntry
INVARIANTS
  ElectionIsSafe
  ConfigurationsAgree
  AnswersFindTheirOwner
PROPERTIES
  ConfigNeverGetsOlder
