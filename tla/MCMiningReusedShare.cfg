CONSTANTS
  Threads = {1, 2}
  Jobs <- ReusedIds
  NoJob <- EmptyJob
  Nobody = Nobody
  MaxFound = 2
SPECIFICATION FairSpec
INVARIANTS
  ShareIsOfItsJob
