SPECIFICATION Spec
CONSTANTS
  p1 = p1
  p2 = p2
  None = None
  Procs = {p1, p2}
  MaxOps = 1
  MaxSaves = 0
  MaxAppends = 1
  MaxFaults = 0
  MaxCrashes = 0
SYMMETRY Symmetry
INVARIANTS AppendsKept
