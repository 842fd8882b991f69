SPECIFICATION Spec
CONSTANTS
  b1 = b1
  b2 = b2
  b3 = b3
  p1 = p1
  p2 = p2
  c1 = c1
  c2 = c2
  a1 = a1
  a2 = a2
  None = None
  Boards = {b1, b2, b3}
  Cards = {c1, c2}
  Seeded = {c1}
  Attachments = {}
  MaxAttachmentsPerCard = 10
  Procs = {p1, p2}
  MaxOps = 3
  MaxFaults = 1
  MaxCrashes = 1
  SyncMayFail = TRUE
SYMMETRY Symmetry
INVARIANTS TypeOK OneHome FocusIsActive JournalExclusion LockDiscipline NoLostUpdate SuccessIsInstalled
PROPERTIES Implements ArchivedTakesNoCard
