\* Four operations on an integer that starts as a literal.
CONSTANTS
  Bits <- MCBits
  Literals <- MCLiterals
  MaxSteps = 4
SPECIFICATION Spec
INVARIANT
  UnreportedKeepsValue
  ConversionsAgree
CHECK_DEADLOCK FALSE
