CONSTANTS
  c1 = c1
  c2 = c2
  Call = {c1, c2}
  Identity = {"p", "q", "r"}
  Scope = "scope"
  NoSha = NoSha
  EventId <- MCEventId
  Sha <- MCSha
  Record <- MCRecord
  Delivery <- OneDelivery
  MaxCrashes = 1
  MidWrite = TRUE
SYMMETRY CallSymmetry
SPECIFICATION Spec
CHECK_DEADLOCK FALSE
INVARIANTS
  NeverSelfBlocked
  OneLiveIdentity
  ProtectionsSurvive
  RetiredTruth
