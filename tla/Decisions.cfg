SPECIFICATION MCSpec
CONSTANTS
  Kind = "owner"
  s1 = s1
  s2 = s2
  m1 = m1
  m2 = m2
  accountA = accountA
  Subjects = {s1}
  Sources = {snapshot, scanner}
  Materials = {m1, m2}
  RequestIds = {k1, k2}
  Targets = {accountA}
  Legacy <- OneLegacy
  Ttl = 1
  MaxTime = 2
  MaxRevision = 0
  MaxRequests = 2
  NoRow = NoRow
  NoExpiry = NoExpiry
  NoRevision = NoRevision
  NoMaterial = NoMaterial
  Requests = {q1, q2}
  Identities = {i1, i2}
  Runs = {u1, u2}
  Window = 1
  Skew = 0
  MaxStopTime = 2
  NoStop = NoStop
  NoRun = NoRun
SYMMETRY Interchangeable
INVARIANTS OneTerminalPerMaterial EligibleHasSoleWitness UnexplainedLegacyIsInert OneStopAtATime
PROPERTIES StoppedIsFinal ConfirmedWhereItWasRequested
CHECK_DEADLOCK FALSE
