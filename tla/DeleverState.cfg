SPECIFICATION Spec
CONSTANTS
  CooldownSessions = 2
  MaxSession = 4
  Snapshot <- Accounts
  Event = {"doubling", "halving"}
  Factor <- SplitFactor
  Basis = {b1, b2}
  MaxSplits = 2
  None = None
INVARIANTS CooldownExact NeverSelfBlocked NoRearm
CHECK_DEADLOCK FALSE
