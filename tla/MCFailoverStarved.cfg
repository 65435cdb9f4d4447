CONSTANTS
  NumPools = 3
  Up = {2}
  Flaky <- NoPool
  FailTime <- SlowTimeouts
  SessionTime <- Quick
  MaxFailures = 3
  PrimaryRetryInterval = 300
  InitialBackoff = 5
  MaxBackoff = 60
  FailureBound = 5
SPECIFICATION LossySpec
PROPERTIES
  ReachesAPool
