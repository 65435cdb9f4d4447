CONSTANTS
  MaxFd = 4
  NoFd = NoFd
SPECIFICATION StopFairSpec
INVARIANTS
  OwnDescriptorsOnly
