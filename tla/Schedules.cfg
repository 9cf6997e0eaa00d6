SPECIFICATION MCFairSpec
CONSTANTS
  Schedules = {"sync", "rotation", "trimming"}
  Type <- TypeOf
  Ref <- RefOf
  Transient = {"trimming"}
  Owned = {"sync"}
  Updatable = {"rotation"}
  MaxFailures = 2
  MaxRetries = 1
  ForeignRefs = {"source"}
  NoRef = "none"
  MaxJobs = 2
  MaxInstances = 2
  MaxStrays = 1
  MaxCalls = 2
  Manual = TRUE
  Prompt = FALSE
  StopTimeout = TRUE
INVARIANTS
  NextTriggerArmed
  WaitingIsSubscribed
  IntervalHasNextRun
PROPERTIES
  TriggersInTurn
  ActiveScheduleTriggers
CHECK_DEADLOCK FALSE
