SPECIFICATION MCSpec
CONSTANTS
  Schedules = {"sync"}
  Type <- TypeOf
  Ref <- RefOf
  Transient = {}
  Owned = {"sync"}
  Updatable = {}
  MaxFailures = 2
  MaxRetries = 1
  ForeignRefs = {"source"}
  NoRef = "none"
  MaxJobs = 2
  MaxInstances = 2
  MaxStrays = 1
  MaxCalls = 2
  Manual = TRUE
  Prompt = TRUE
  StopTimeout = TRUE
INVARIANT ActiveHasNextRun
CHECK_DEADLOCK FALSE
