\* Two parameters, literals and integer types, candidates that exclude each other.
CONSTANTS
  a = a
  b = b
  c = c
  NoType = NoType
  Type <- MCType
  Literal <- MCLiteral
  Sub <- MCSub
  Base <- MCBase
  SizeOf <- MCSizeOf
  Params = 2
  Candidate = {a, b, c}
  Owner <- MCOwner
  Rival <- MCRival
  Offers <- MCOffers
  MaxBindings = 3
  MaxAttempts = 2
SPECIFICATION Spec
INVARIANT
  MergingKeepsMeaning
  SolutionTakesBindings
PROPERTY
  FailedAttemptLeavesNothing
  SimplificationEnds
CHECK_DEADLOCK FALSE
