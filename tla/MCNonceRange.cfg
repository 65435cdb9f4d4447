CONSTANTS
  N = 4
  Words = 16
  Batch = 7
  MaxJobs = 2
SPECIFICATION NonceFairSpec
INVARIANTS
  NoNonceShared
PROPERTIES
  SweepsLane
  JobIsHashed
