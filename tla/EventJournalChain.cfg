CONSTANTS
  w1 = w1
  w2 = w2
  Writer = {w1, w2}
  Absent = Absent
  Torn = Torn
  Scope = "scope"
  NoSha = "none"
  Record <- ChainRecord
  Identity <- ChainIdentity
  Sha <- ChainSha
  EventId <- ChainEventId
SYMMETRY WriterSymmetry
SPECIFICATION HSpec
INVARIANTS
  TypeOK
  LoadsNeverDiverge
  SealIsFinal
  AcknowledgedStays
  
PROPERTIES
  CreateOnly
  
