SPECIFICATION Spec
CONSTANTS
  c1 = c1
  c2 = c2
  None = None
  Paths <- Two
  Slug <- OwnSlugs
  Links <- OneToTwo
  Embeds <- TwoHoldsOne
  Existing = {1}
  Uploads = {2}
  Clients = {c1, c2}
  MaxEvents = 3
  MaxMishaps = 1
INVARIANTS TypeOK StaleIsNoticed AcknowledgedIsIndexed UploadStaysPublished ServedIsCurrent
PROPERTIES EventuallyCurrent
CHECK_DEADLOCK FALSE
