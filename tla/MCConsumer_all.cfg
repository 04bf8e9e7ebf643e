SPECIFICATION WorldSpec
CONSTANTS
  tmp = tmp  hum = hum  k1 = k1  k2 = k2
  Sensors <- AllSensors
  Records = 2
  Contents <- AllContents
  Rows <- AllRows
  MaxUpdates = 1
  MaxCrashes = 1
  PgPool = 2
  RsPool = 1
  Faults = {"pgConnect", "pgQuery", "rsConnect", "rsQuery", "post"}
INVARIANTS
  MemoryIsSound
  MetadataIsFresh
  EveryRecordAccountedFor
CHECK_DEADLOCK FALSE
PROPERTY
  EveryRecordSettles
