SPECIFICATION PromotionSpec
CONSTANTS
  Kind = "promotion"
  t1 = t1
  t2 = t2
  m1 = m1
  m2 = m2
  base = base
  p1 = p1
  p2 = base
  Subjects = {t1, t2}
  Sources = {producer}
  Materials = {m1, m2}
  RequestIds = {k1, k2}
  Targets = {accountA}
  Legacy <- NoLegacy
  Ttl = 1
  MaxTime = 1
  MaxRevision = 2
  MaxRequests = 2
  Applications = {x1, x2}
  Runs = {r1, r2}
  Profiles = {base, p1}
  ProfileOf <- Candidate
  Bindings = {paper, other}
  Paper = paper
  NoRow = NoRow
  NoExpiry = NoExpiry
  NoRevision = NoRevision
  NoMaterial = NoMaterial
  NoRun = NoRun
  NoApplication = NoApplication
  Isolates = {i1}
  Loads = {l1, l2}
  Failures = {"read_failed"}
  Sites <- TwoSites
  MemoTtl = 1
  Bump = 1
  KvFresh = 1
  StaleTtl = 2
  MaxClock = 2
  MaxEdits = 1
  MaxSent = 1
  Unset = Unset
SYMMETRY Interchangeable
INVARIANTS OneAppliedPerRevision OneOpenApplication DispatchIsTrue ConsoleHolds ResumesHold
PROPERTIES KeepsPromise OutcomeIsFinal DecidedAsSeen
CHECK_DEADLOCK FALSE
