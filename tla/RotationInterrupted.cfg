\* The job is cancelled at any point, calls fail or the process dies twice, and writes and
\* imports outlive the change of keys.
SPECIFICATION Spec
CONSTANTS
  Rows = {"s1", "k1"}
  TableOf <- TwoRows
  ENCRYPTED_TABLES <- TwoTables
  Values = {v, w}
  BatchSize = 1
  NumVersions = 2
  MaxKeys = 3
  Rotators = {"scheduled"}
  CancelRotation = TRUE
  SlowOperations = TRUE
  MaxWrites = 2
  MaxFaults = 2
SYMMETRY Plaintexts
INVARIANTS
  ReadsLastWrite
  PendingReadable
  TablesBehindClean
PROPERTIES
  PlaintextsSurvive
  LossOnlyAtCompletion
CHECK_DEADLOCK FALSE
