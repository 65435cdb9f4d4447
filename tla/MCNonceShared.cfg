CONSTANTS
  N = 3
  Words = 32
  Batch = 4
  MaxJobs = 1
SPECIFICATION NonceSpec
INVARIANTS
  NoNonceShared
