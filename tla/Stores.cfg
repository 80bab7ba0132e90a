SPECIFICATION Spec
CONSTANTS
  CycleBindings = {b1, b2}
  CycleConfigs = {c1, c2}
  Receipts <- MCReceipts
  Scans <- MCScans
  CycleLists <- MCCycleLists
  MaxTime = 3
  MaxAuthority = 3
  MaxObservations = 2
  MaxFaults = 2
  Closes = {1, 2, 4}
  MaxDay = 2
  SyncJobs = {"sync"}
  RevisionJobs = {"first", "second"}
  MaxMoves = 3
  MaxRuns = 4
  FactAccounts = {"a1", "a2"}
  PaperAccounts = {}
  NoPhysical = "none"
  FactConfigs <- MCFactConfigs
  FactSnapshots <- MCFactSnapshots
  DayLength = 2
  FactWindow = 2
  FactSkew = 1
  KeptDays = 2
  MaxFactTime = 4
  MaxReports = 3
  NativeReports <- MCNativeReports
  NativeConfigs <- MCNativeConfigs
  NativeFresh = 2
  MaxNativeTime = 4
  MaxNatives = 3
  FlowBindings <- MCFlowBindings
  FlowReports <- MCFlowReports
  ExecutionReports <- MCExecutionReports
  FlowRetention = 3
  MaxFlowReports = 4
  EvFeeds = {"candidates", "tasks", "deployments", "targets", "selections"}
  EvSources = {"s1", "s2"}
  EvSnapshots <- MCEvSnapshots
  ValidationSource = "s2"
  EvReports <- MCEvReports
  EvReportAge = 2
  EvReceiptWindow = 2
  EvTtl = 1
  EvSkew = 1
  EvRuns = {2, 6, 9}
  EvGrace = 1
  MaxEvTime = 4
  MaxPublications = 2
  M0Snapshots <- MCM0Snapshots
  M0Runs = {r1, r2}
  M0Week = 2
  M0Retention = 3
  M0Skew = 1
  MaxM0Time = 4
  MaxM0Syncs = 2
  MaxM0Envelopes = 2
  DailyReports <- MCDailyReports
  DailyConfigs <- MCDailyConfigs
  DailyAccounts = {"a1","a2","a3","a4","a5","a6"}
  IbkrAccounts = {"a1","a2"}
  StrictTargets = {"st"}
  DailyLength = 2
  DailyGrace = 1
  DailyStale = 1
  DailySkew = 1
  MaxDailyTime = 4
  MaxDailyWrites = 2
  RecoverySources = {"s1","s2"}
  RecoverySnapshots <- MCRecoverySnapshots
  RecoveryTtl = 1
  RecoverySkew = 1
  SampleWindow = 1
  EnrolledAccounts = {"a1","a2"}
  MaxRecoveryTime = 3
  MaxRecoverySteps = 3
  IndexedKeys = {1, 2, 3}
  Callers = {c1, c2}
  PageSize = 1
  Budget = 1
  MaxKeys = 2
  DayTicks = 1
  MaxClock = 2
  MaxLate = 1
  NoDirectory = NoDirectory
SYMMETRY StoresSymmetry
INVARIANTS FactsAreTrue PublishedIsTrue DirectoryHolds
PROPERTIES NothingGoesBack PublishedGoesForward DirectoryServes
CHECK_DEADLOCK FALSE
