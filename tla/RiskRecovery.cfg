CONSTANTS
  Unit <- MCUnit
  Cycle = {"a"}
  Policy = {"q"}
  Level = {"conservative", "growth"}
  Thresholds <- MCThresholds
  Override <- OneOverride
  Observation <- CalmAndPlunge
  Row <- QuietAndRough
  Initial <- NewScopeOnly
  MaxSession = 7
  None = None
SPECIFICATION Spec
INVARIANTS
  RecoveryIsEarned
  RequestNeverEasesRecovery
