CONSTANTS
  N = 2
  Words = 16
  Batch = 4
  MaxJobs = 1
SPECIFICATION NonceFairSpec
PROPERTIES
  KeepsHashing
