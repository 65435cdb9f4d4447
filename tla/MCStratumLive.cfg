CONSTANTS
  p1 = p1
  p2 = p2
  Pools <- OnlyP1
  ArrayPools <- OnlyP1
  TargetPools <- OnlyP1
  AuthVerdicts = {"true", "false", "error"}
  ShareRefusals <- Refused
  XnForms = {"odd", "positional"}
  Noise = {"blank", "malformed", "overlong"}
  IdsRestart = FALSE
  MaxAuthLines = 3
  MaxSessions = 1
  MaxJobs = 2
  MaxLevels = 1
  MaxShares = 1
SPECIFICATION FairSpec
PROPERTIES
  HandshakeEnds
CHECK_DEADLOCK FALSE
