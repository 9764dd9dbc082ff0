CONSTANTS
  w1 = w1
  w2 = w2
  Writer = {w1, w2}
  MaxSnapshots = 1
  Bound <- Heads
  LiveRecord <- Strays
  Restorer = w1
  Absent = Absent
  Torn = Torn
  Scope = "scope"
  NoSha = "none"
  Record <- Records
  Identity <- Identities
  Sha <- Shas
  EventId <- EventIds
  Terminal <- Terminals
SPECIFICATION SnapshotSpec
INVARIANTS
  SavedIsHistory
  PartialNeverVerifies
PROPERTIES
  RestoredExactly
CHECK_DEADLOCK FALSE
