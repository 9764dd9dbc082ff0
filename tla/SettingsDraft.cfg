CONSTANTS
  c1 = c1
  c2 = c2
  k1 = k1
  Call = {c1, c2}
  Reader = {k1}
  Identity = {"p"}
  Scope = "scope"
  NoSha = NoSha
  EventId <- MCEventId
  Sha <- MCSha
  Record <- MCRecord
  Delivery <- AllDeliveries
  MaxCrashes = 1
  MidWrite = TRUE
SYMMETRY CallSymmetry
SPECIFICATION DraftSpec
CHECK_DEADLOCK FALSE
INVARIANTS
  DraftTypeOK
  DraftFollowsState
  ReceiptHonoured
PROPERTIES
  NoStaleDraft
  OpenBlocksOldDrafts
