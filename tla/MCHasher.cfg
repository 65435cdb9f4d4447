CONSTANTS
  e1 = e1
  e2 = e2
  w1 = w1
  w2 = w2
  Entries <- TwoEntries
  Words <- TwoWords
  Rounds = 2
  Legacy = FALSE
  Block = 8
  Messages <- SomeMessages
  JobBlocks <- TwoBlocks
  NonceSpaces <- TwoSpaces
SPECIFICATION HasherSpec
INVARIANTS
  StartsPristine
  ReuseIsSafe
  TwoStagesAgree
