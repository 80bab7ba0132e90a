SPECIFICATION Spec
CONSTANTS
  Requests = {q1, q2}
  Operations = {"enable", "disable"}
  Checks = {}
  Pollers = {p1, p2}
  Identities = {"first"}
  Moves <- MovesNever
  Reports = {"applied", "partial"}
  NoRow = NoRow
  None = None
SYMMETRY Interchangeable
INVARIANTS OutcomeIsItsOwn
CHECK_DEADLOCK FALSE
