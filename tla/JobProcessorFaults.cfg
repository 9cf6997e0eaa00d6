\* One failing database call, two processes and two jobs that can be retried once,
\* under the fairness of the event loop.
SPECIFICATION FairSpec
CONSTANTS
  MaxJobs = 2
  NewJobs <- RetryOnly
  NoRef = "none"
  HandledTypes = {"sync"}
  MaxInstances = 2
  MaxConsecutiveFailures = 2
  MaxDbErrors = 1
  PayloadEncryption = TRUE
  StopTimeout = FALSE
PROPERTY PendingServed
CHECK_DEADLOCK FALSE
