\* Every program of three classes: layout, tables and termination.
CONSTANTS
  B = B
  C = C
  T = T
  b1 = b1
  b2 = b2
  c1 = c1
  cs = cs
  t1 = t1
  NoClass = NoClass
  Class <- MCClass
  Attr = {T}
  Static = {cs}
  FieldsOf <- MCFieldsOf
  MethodsOf <- MCMethodsOf
  Programs <- MCPrograms
SPECIFICATION Spec
INVARIANT
  OnlyErrorsAbandonPasses
  CircularBasesAreRejected
  FieldsDoNotOverlap
  MethodTablesExtend
  CompletionIsTransitive
  AttributeFieldsAreKnown
PROPERTY
  AnalysisEnds
CHECK_DEADLOCK FALSE
