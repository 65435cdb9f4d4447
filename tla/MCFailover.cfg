CONSTANTS
  NumPools = 3
  Up = {2}
  Flaky = {0, 1}
  FailTime <- Quick
  SessionTime <- Quick
  MaxFailures = 3
  PrimaryRetryInterval = 300
  InitialBackoff = 5
  MaxBackoff = 60
  FailureBound = 5
SPECIFICATION LossySpec
INVARIANTS
  WaitsAreShort
PROPERTIES
  RotatesFairly
  ReachesAPool
  StopEndsTheThread
