CONSTANTS
  Readers = {stats, api}
  Range = 13
  Draws = {2, 3}
  MinInterval = 2
  Sane = 4
  Words = 100
  Leftovers = {}
  Horizon = 4
SPECIFICATION Spec
SYMMETRY Interchangeable
INVARIANTS
  PowerAlwaysReal
CHECK_DEADLOCK FALSE
