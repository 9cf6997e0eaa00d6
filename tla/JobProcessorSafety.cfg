\* Three processes in a row and two jobs of every kind; no database call fails.
SPECIFICATION Spec
CONSTANTS
  MaxJobs = 2
  NewJobs <- AllKinds
  NoRef = "none"
  HandledTypes = {"sync"}
  MaxInstances = 3
  MaxConsecutiveFailures = 2
  MaxDbErrors = 0
  PayloadEncryption = FALSE
  StopTimeout = TRUE
INVARIANTS
  SequentialExclusive
  HandlerStartsBounded
  RunningIsCurrent
  NoLostWakeup
  CancellationReachesHandler
PROPERTIES
  CancelledNeverClaimed
  ImplementsLifecycle
CHECK_DEADLOCK FALSE
