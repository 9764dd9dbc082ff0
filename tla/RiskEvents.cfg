CONSTANTS
  Unit <- MCUnit
  Cycle = {"a"}
  Policy = {"p", "q"}
  Level = {"conservative", "growth"}
  Thresholds <- MCThresholds
  Override <- MCOverride
  Observation <- AllObservations
  Row <- QuietOnly
  Initial <- BothScopes
  MaxSession = 2
  None = None
SPECIFICATION Spec
INVARIANTS
  TypeOK
  EvaluationIsAccepted
  RequestNeverHidesTrip
