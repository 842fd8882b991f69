SPECIFICATION Spec
CONSTANTS
  c1 = c1
  c2 = c2
  None = None
  Paths <- Two
  Slug <- OwnSlugs
  Links <- OneToTwo
  Embeds <- NoneOfTwo
  Existing = {1}
  Uploads = {}
  Clients = {c1}
  MaxEvents = 2
  MaxMishaps = 0
PROPERTIES EventuallyFresh
CHECK_DEADLOCK FALSE
