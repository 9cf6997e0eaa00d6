\* One service at a time, with one kind of disturbance.
INIT MCInit
NEXT MCNext
CONSTANTS
  Users = {"u1", "u2"}
  Conns = {1, 2, 3}
  Children = {1, 2, 3, 4}
  MaxRestartAttempts = 2
  FailureThreshold = 2
  Versions = {0, 1, 2}
  Sources = {1, 2}
  Changeable = {2}
  Requests = {"r1", "r2"}
  Functions = {"f", "g"}
  Paths = {"a"}
  MaxWrites = 2
  MaxFileWrites = 2
  maxBatchSize = 2
  maxLogsPerRoute = 2
  MaxEntries = 4
  Timestamps = {1, 2}
  limit = 1
  Width <- ShortDays
  maxMinutesPerRun = 2
  Retention = 4
  MaxTime = 5
  MaxExecutions = 2
  MaxBreaks = 1
  Groups = {"g"}
  ApiKeys = {"k"}
  KeyValues = {"v"}
  SettingNames <- SettingsOrder
  Intervals = {1, 2}
  DefaultInterval = 1
  Savers = {"s1", "s2"}
INVARIANTS
  ServicesTypeOK
  IdleCloseSparesUsers
  UnusedConnectionHasCloser
  DeadProcessNoticed
  MigrationsOnceInOrder
  GateHasJob
  SyncedMeansWhole
  ScheduleHasSource
  RequestSeesWrites
  HandlerIsCurrent
  LogsKept
  BufferedIsScheduled
  PagesAreWhole
  ExecutionsCounted
  ChartCountsOnce
  SpecificSecretWins
  KeysHaveGroups
  OrphansCameLate
  IntervalsFollow
CHECK_DEADLOCK FALSE
