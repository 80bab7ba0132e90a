SPECIFICATION ControlSpec
CONSTANTS
  Requests = {q1, q2}
  Operations = {"disable"}
  Checks = {c1}
  Pollers = {p1, p2}
  Identities = {"first", "second"}
  Moves <- MovesOnce
  Reports = {"applied", "partial"}
  NoRow = NoRow
  None = None
SYMMETRY Interchangeable
INVARIANTS RequestsAreTheirOwn
PROPERTIES ClosedIsFinal NeverResent
CHECK_DEADLOCK FALSE
