\* The scheduled job and the route start a rotation at the same time.
SPECIFICATION Spec
CONSTANTS
  Rows = {"s1", "k1"}
  TableOf <- TwoRows
  ENCRYPTED_TABLES <- TwoTables
  Values = {"v", "w"}
  BatchSize = 1
  NumVersions = 3
  MaxKeys = 3
  Rotators = {"scheduled", "manual"}
  CancelRotation = FALSE
  SlowOperations = FALSE
  MaxWrites = 1
  MaxFaults = 0
INVARIANTS
  OneRotation
CHECK_DEADLOCK FALSE
