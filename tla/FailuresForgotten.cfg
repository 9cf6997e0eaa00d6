\* One interval schedule without disturbance; its jobs may fail.
SPECIFICATION MCFairSpec
CONSTANTS
  Schedules = {"trimming"}
  Type <- TypeOf
  Ref <- RefOf
  Transient = {"trimming"}
  Owned = {}
  Updatable = {}
  MaxFailures = 2
  MaxRetries = 1
  ForeignRefs = {}
  NoRef = "none"
  MaxJobs = 2
  MaxInstances = 1
  MaxStrays = 1
  MaxCalls = 2
  Manual = FALSE
  Prompt = TRUE
  StopTimeout = FALSE
PROPERTY FailuresReachError
CHECK_DEADLOCK FALSE
