\* Two secrets and an API key, batches of two, two rotations and one failure,
\* under the fairness of the schedule.
SPECIFICATION FairSpec
CONSTANTS
  Rows = {"s1", "s2", "k1"}
  TableOf <- TwoSecrets
  ENCRYPTED_TABLES <- TwoTables
  Values = {"v", "w"}
  BatchSize = 2
  NumVersions = 2
  MaxKeys = 3
  Rotators = {"scheduled"}
  CancelRotation = FALSE
  SlowOperations = FALSE
  MaxWrites = 3
  MaxFaults = 1
INVARIANTS
  TypeOK
PROPERTIES
  ReadersSeeStore
  RotationEnds
CHECK_DEADLOCK FALSE
