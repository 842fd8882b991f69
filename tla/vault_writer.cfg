SPECIFICATION Spec
CONSTANTS
  p1 = p1
  p2 = p2
  None = None
  Procs = {p1, p2}
  MaxOps = 2
  MaxSaves = 2
  MaxAppends = 1
  MaxFaults = 1
  MaxCrashes = 1
SYMMETRY Symmetry
INVARIANTS TypeOK NothingSavedIsLost TaskOrCard RetryIsRefused
