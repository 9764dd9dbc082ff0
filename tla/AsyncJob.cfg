CONSTANTS
  PipeSize = 1
  Payload = 2
  StdoutLimit = 1
  MaxNoise = 1
  Run <- Runs
  Plan <- Objects
  Generation = {1, 2}
  SizeOf <- Sizing
  Expected <- Sized
  MaxOverwrites = 1
  FrozenPolicy = 1
  CountLimit = 3
  BytesLimit = 4
  None = None
SPECIFICATION Spec
INVARIANTS
  OneCalculation
  ResultTruth
  ExitTruth
  StagedAsAgreed
  NeverStuckTogether
PROPERTIES
  EveryRunEnds
CHECK_DEADLOCK FALSE
