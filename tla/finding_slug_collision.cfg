SPECIFICATION Spec
CONSTANTS
  c1 = c1
  c2 = c2
  None = None
  Paths <- Two
  Slug <- OneSlug
  Links <- NoneOfTwo
  Embeds <- NoneOfTwo
  Existing = {1, 2}
  Uploads = {}
  Clients = {c1}
  MaxEvents = 0
  MaxMishaps = 0
INVARIANTS LaterNoteWins
CHECK_DEADLOCK FALSE
