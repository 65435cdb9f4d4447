CONSTANTS
  MaxFd = 3
  NoFd = NoFd
SPECIFICATION StopFairSpec
INVARIANTS
  OneConnection
  NothingLeftOpen
  ApiKeepsItsFiles
  ApiClosesItsFiles
PROPERTIES
  StopOutsideConnect
  ApiServerStops
