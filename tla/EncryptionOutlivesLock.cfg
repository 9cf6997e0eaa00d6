\* A value is written while the keys are swapped.
SPECIFICATION Spec
CONSTANTS
  Rows = {"s1", "k1"}
  TableOf <- TwoRows
  ENCRYPTED_TABLES <- TwoTables
  Values = {"v", "w"}
  BatchSize = 1
  NumVersions = 3
  MaxKeys = 2
  Rotators = {"scheduled"}
  CancelRotation = FALSE
  SlowOperations = TRUE
  MaxWrites = 1
  MaxFaults = 0
PROPERTIES
  KeysChangeAtRest
CHECK_DEADLOCK FALSE
