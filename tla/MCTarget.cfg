CONSTANTS
  Base = 3
  Len = 4
  Shift = 1
  Targets <- MCTargets
  Difficulties <- MCDifficulties
  Leftovers <- MCLeftovers
SPECIFICATION Spec
INVARIANTS
  TypeOK
  TargetSharesFound
  DifficultyWritten
