\* A job is cancelled while it runs, and the process dies.
SPECIFICATION FairSpec
CONSTANTS
  MaxJobs = 1
  NewJobs <- SyncOnly
  NoRef = "none"
  HandledTypes = {"sync"}
  MaxInstances = 2
  MaxConsecutiveFailures = 2
  MaxDbErrors = 0
  PayloadEncryption = FALSE
  StopTimeout = TRUE
PROPERTIES
  CancelledJobEnds
CHECK_DEADLOCK FALSE
