\* Maps and sets of six keys that grow twice, with an iterator open.
CONSTANTS
  k1 = k1
  k2 = k2
  k3 = k3
  k4 = k4
  k5 = k5
  k6 = k6
  v1 = v1
  v2 = v2
  Key = {k1, k2, k3, k4, k5, k6}
  Value = {v1, v2}
  Small = 2
  Absent = Absent
  MaxLength = 32
  MaxChanges = 1
  MaxIterated = 3
  Given <- MCGiven
  Hashes <- MCHashes
SPECIFICATION Spec
INVARIANT
  ItemsAreFound
  IterationIsFaithful
PROPERTY
  GrowthEnds
  ImplementsMap
CHECK_DEADLOCK FALSE
