SPECIFICATION MCSpec
CONSTANTS
  Ops = {1, 2}
  MaxOps = 2
  MaxSaves = 1
  Requests = {r1, r2, r3}
  Readers = {g1}
  Versions = {v1, v2, v3}
  First = v1
  None = None
SYMMETRY Interchangeable
INVARIANTS ConsoleIsTrue NeverWithoutCredential OneOperation
PROPERTIES OwnerDecides EndsAsRecorded EndedIsFinal
CHECK_DEADLOCK FALSE
