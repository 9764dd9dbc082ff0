CONSTANTS
  c1 = c1
  c2 = c2
  Call = {c1, c2}
  Identity = {"p", "q"}
  Scope = "scope"
  NoSha = NoSha
  EventId <- MCEventId
  Sha <- MCSha
  Record <- MCRecord
  Delivery <- OneDelivery
  MaxCrashes = 1
  MidWrite = FALSE
SPECIFICATION LiveSpec
CHECK_DEADLOCK FALSE
PROPERTIES
  HandoffCompletes
