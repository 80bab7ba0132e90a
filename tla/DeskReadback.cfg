SPECIFICATION Spec
CONSTANTS
  Actors = {a1, a2}
  Jobs = {1, 2}
  Fresh = {f1}
  Keys = {k1, k2}
  Targets = 2
  Refresh = 1
  TTL = 1
  MaxTime = 1
  MaxCrashes = 1
  None = None
  Gone = Gone
INVARIANTS TurnsAreHeld AlarmIsArmed
PROPERTIES OneJobPerKey EveryJobEnds
CHECK_DEADLOCK FALSE
