CONSTANTS
  p1 = p1
  p2 = p2
  Pools <- OnlyP1
  ArrayPools <- OnlyP1
  TargetPools <- OnlyP1
  AuthVerdicts = {"true"}
  ShareRefusals <- Refused
  XnForms <- None
  Noise <- None
  IdsRestart = TRUE
  MaxAuthLines = 3
  MaxSessions = 2
  MaxJobs = 1
  MaxLevels = 1
  MaxShares = 1
  t1 = t1
  t2 = t2
  Threads <- TwoThreads
  Nobody = Nobody
SPECIFICATION MinerFairSpec
PROPERTIES
  ThreadsSettle
CHECK_DEADLOCK FALSE
