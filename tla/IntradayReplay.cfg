CONSTANTS
  c1 = c1
  c2 = c2
  Call = {c1, c2}
  Identity = {"p"}
  Scope = "scope"
  NoSha = NoSha
  EventId <- MCEventId
  Sha <- MCSha
  Record <- MCRecord
  Delivery <- OneDelivery
  MaxCrashes = 0
  MidWrite = TRUE
SYMMETRY CallSymmetry
SPECIFICATION Spec
CHECK_DEADLOCK FALSE
PROPERTIES
  DraftOnce
