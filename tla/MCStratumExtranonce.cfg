CONSTANTS
  p1 = p1
  p2 = p2
  Pools <- OnlyP1
  ArrayPools <- None
  TargetPools <- OnlyP1
  AuthVerdicts = {"true", "error"}
  ShareRefusals <- Refused
  XnForms <- None
  Noise <- None
  IdsRestart = FALSE
  MaxAuthLines = 3
  MaxSessions = 2
  MaxJobs = 1
  MaxLevels = 1
  MaxShares = 0
SPECIFICATION Spec
INVARIANTS
  JobsCarryPoolExtranonce
CHECK_DEADLOCK FALSE
