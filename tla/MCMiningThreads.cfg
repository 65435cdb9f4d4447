CONSTANTS
  Threads = {1, 2}
  Jobs <- NumberedJobs
  NoJob <- EmptyJob
  Nobody = Nobody
  MaxFound = 2
SPECIFICATION FairSpec
INVARIANTS
  LockHeld
  ShareIsOfItsJob
PROPERTIES
  ThreadsFollow
  StopEndsThreads
