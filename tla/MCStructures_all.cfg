SPECIFICATION Spec
CONSTANTS
  Structures = {"dict", "ziplist", "intset", "quicklist", "skiplist", "adlist", "bitops"}
  DictKeys = {0, 1, 3}
  InitialSize = 1
  ForceRatio = 1
  Bits = 3
  MaxTable = 4
  NoKey = NoKey
  ZIP_BIGLEN = 8
  ZIPLIST_HEADER_SIZE = 10
  UINT16_MAX = 3
  PayloadLens = {0, 5, 6}
  MaxEntries = 5
  Reach <- MCReach
  Integers3 <- MCIntegers
  Fill = 2
  Depths = {0, 1, 2}
  ListValues = {a, b}
  Packable = {a}
  MaxItems = 5
  LeavesOpen = FALSE
  Elements = {1, 2, 3, 4}
  ZSKIPLIST_MAXLEVEL = 3
  Cells = {c1, c2, c3}
  NoCell = NoCell
  BYTE_BITS = 2
  LONG_BYTES = 2
  INT_BITS = 4
  FullShift = {0, 15}
  BITOP_LONGS = 1
  BITOP_KEYS = 2
  POP_BYTES = 3
  POP_ALIGN = 2
  POP_BITS = 3
  Sources <- MCSources
  MaxBits = 8
  BitCommands <- MCBitCommands
INVARIANTS
  DictIsSound
  CompactEncodingsAreSound
  LinkedStructuresAreSound
  BitCommandsAreExact
  ScanReturnsWhatStayed
PROPERTIES
  ScanAdvances
  QuicklistIsAList
CHECK_DEADLOCK FALSE
