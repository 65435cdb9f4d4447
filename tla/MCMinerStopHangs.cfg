CONSTANTS
  MaxFd = 4
  NoFd = NoFd
SPECIFICATION StopFairSpec
PROPERTIES
  StopReturns
