CONSTANTS
  Unit <- MCUnit
  Cycle = {"a"}
  Policy = {"q"}
  Level = {"conservative", "growth"}
  Thresholds <- MCThresholds
  Override <- OneOverride
  Observation <- CalmAndStruck
  Row <- AllRows
  Initial <- NewScopeOnly
  MaxSession = 7
  None = None
SPECIFICATION Spec
INVARIANTS
  NoNewAnomaly
