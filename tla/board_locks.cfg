SPECIFICATION Spec
CONSTANTS
  t1 = t1
  t2 = t2
  t3 = t3
  s1 = s1
  s2 = s2
  Boards <- TwoBoards
  Existing <- TwoBoards
  Threads = {t1, t2, t3}
  Stores = {s1, s2}
  StoreOf <- TwoInOne
  None = None
  MaxOps = 3
  MaxMishaps = 2
  MaxGenerations = 2
INVARIANTS TypeOK Exclusion JournalsSettled
PROPERTIES OverwritesOnlyOrphaned EveryoneReturns
CHECK_DEADLOCK FALSE
