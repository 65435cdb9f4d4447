CONSTANTS
  p1 = p1
  p2 = p2
  Pools <- TwoPools
  ArrayPools <- OnlyP1
  TargetPools <- TwoPools
  AuthVerdicts = {"true", "error", "other"}
  ShareRefusals = {"error", "false"}
  XnForms = {"keyed", "positional"}
  Noise = {}
  IdsRestart = FALSE
  MaxAuthLines = 3
  MaxSessions = 2
  MaxJobs = 2
  MaxLevels = 1
  MaxShares = 1
SPECIFICATION Spec
INVARIANTS
  TypeOK
  NoJobLost
  JobsCarryExtranonce
  JobsCarryTarget
  RunsAuthorized
  ReportsAnswers
PROPERTIES
  JobsInOrder
CHECK_DEADLOCK FALSE
