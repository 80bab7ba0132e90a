SPECIFICATION Spec
CONSTANTS
  MaxTime = 3
  MaxRootSpan = 3
  MaxPolicySpan = 3
  GateStages = {"shadow", "live"}
  GateTargets = {"t1", "t2"}
  SigningKeys = {"k1", "k2"}
  PinnedKey = "k1"
  PaperWindows <- MCWindows
  Symbols = {"s1", "s2"}
  Strategies = {"a1", "a2"}
  Limits <- MCLimits
  Unit = 2
  Equities = {1, 2}
  RiskAmounts = {1, 2}
  MaxLoss = 2
  MaxDecisions = 3
  One = 4
  Horizon = 3
  Scales = {2, 3, 4}
  Multiples = {4, 6}
  Kinds = {"forward", "bootstrap", "stress"}
  ObservedPaths <- MCPaths
  AuditDays = {1, 2}
  AuditRuns = {x1, x2}
  Stored <- MCStored
  Written <- MCWritten
  History <- MCHistory
  Posts = {x1, x2}
  DigestTargets = {t1, t2}
  Shelves = {"present"}
  Rows <- MCRows
  Expected = {"t1", "t2"}
  MaxCopies = 2
  MaxRows = 3
  WriterJobs = {x1, x2}
  Own = "own"
  Profiles = {"p1", "p2"}
  Layouts <- MCLayouts
  SingleUseIds = {"m1"}
  RunResults <- MCResults
  MaxEdits = 1
  MaxPolls = 2
  Absent = Absent
  Catalogue <- MCCatalogue
  SwitchRequests <- MCRequests
  LocalTargets <- MCLocals
  Inventories <- MCInventories
  LivePlatforms = {"ibkr", "longbridge"}
  Nobody = Nobody
SYMMETRY AuditSymmetry
INVARIANTS GatesHold FiguresAreSound
PROPERTIES NothingIsForgiven
CHECK_DEADLOCK FALSE
