SPECIFICATION Spec
CONSTANTS
  LLONG_MAX = 2
  EmbstrLimit = 1
  MaxString = 4
  HashMaxZiplistEntries = 2
  HashMaxZiplistValue = 1
  SetMaxIntsetEntries = 1
  SpopMoveStrategyMul = 5
  ZsetMaxZiplistEntries = 2
  ZsetMaxZiplistValue = 2
  Names = {"a", "b"}
  Repertoires <- MCRepertoires
  MaxTime = 2
  Lag = 1
  LoadTime = 9
  MsPerSecond = 1
  ItemsPerCmd = 2
  MaxSize = 3
  MaxScore = 2
INVARIANTS
  ValuesAreSound
  CopiesHaveTheMastersValues
  CopiesNeverExpireEarly
  ChangesAreSignalled
CHECK_DEADLOCK FALSE
