\* Three modules that import each other, of two input files.
CONSTANTS
  Core <- MCCore
  Names <- MCNames
  MaxAnswers = 3
  Worlds <- MCWorlds
SPECIFICATION Spec
INVARIANT
  LookupsAreStable
  ImportsAreComplete
CHECK_DEADLOCK FALSE
