SPECIFICATION Spec
CHECK_DEADLOCK FALSE
SYMMETRY Symmetry
CONSTANTS
  Parts = {"cluster", "reshard"}
  Setups <- MCSetups
  SlotKeys = {k1, k2}
  MaxWrites = 1
  ReshardSetups <- MCReshardSetups
INVARIANTS
  ElectionsAreSound
  ConfigurationsSettle
  FailIsAgreed
  MovingKeysAreSafe
