SPECIFICATION Each
CONSTANTS
  Existing = {"hk"}
  DraftKey = {"new"}
  FixedHk = "hk"
  Target = {"t1", "t2"}
  Profile = {"p1", "p2"}
  Preference = {"growth", "balanced"}
  Request = {r1, r2}
  Run = {w1}
  Page = {p1, p2}
  Field = {"strategy_profile"}
  Value = {"p1", "p2"}
  Declaration = {"cash"}
  Change <- Changes
  LegacyStates <- LegacyValid
  TargetOf <- HkTarget
  MaxRegistry = 3
  MaxDraft = 2
  MaxRisk = 1
  None = None
  Tab = {h1, h2}
  Attempt = {u1, u2}
  Draft <- Drafts
  Config <- Configs
  Raw <- RawResults
  MaxRevision = 2
  MaxJob = 2
  Nothing = Nothing
  Handler = {h1, h2}
  MaxTask = 2
  WorkerAttempt = {c1}
  Output = {"succeeded"}
  Nil = Nil
SYMMETRY Interchangeable
INVARIANTS SettingsHold WorkHolds
PROPERTIES SettingsMoveOn WorkMovesOn
CHECK_DEADLOCK FALSE
