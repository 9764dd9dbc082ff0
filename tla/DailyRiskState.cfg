CONSTANTS
  Caller = {a, b}
  Delivery <- ThreeSessions
  NoDelivery = NoDelivery
  Day = {1, 3}
  MaxCrashes = 1
SPECIFICATION LiveSpec
INVARIANTS
  TypeOK
  OneTransitionPerSession
  TripsAreKept
  ReportedIsPersisted
PROPERTIES
  NoStaleDraft
  SomeoneIsCurrent
