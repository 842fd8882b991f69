SPECIFICATION Spec
CONSTANTS
  t1 = t1
  t2 = t2
  t3 = t3
  s1 = s1
  s2 = s2
  Boards <- TwoBoards
  Existing <- TwoBoards
  Threads = {t1, t2}
  Stores = {s1, s2}
  StoreOf <- OneThreadEach
  None = None
  MaxOps = 3
  MaxMishaps = 0
  MaxGenerations = 2
PROPERTIES NeverOverwrites
CHECK_DEADLOCK FALSE
