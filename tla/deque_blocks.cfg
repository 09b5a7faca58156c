SPECIFICATION Spec
CONSTANTS
    b1 = b1
    b2 = b2
    b3 = b3
    b4 = b4
    Block <- FourBlocks
    Value <- Letters
    BlockSize = 2
    Nil = Nil
    Junk = Junk
    IndexError = IndexError
    Nothing = Nothing
    MaxSize = 4
    MaxMutations = 6
SYMMETRY Symmetric
INVARIANTS
    WellLinked
    SizeIsExact
    IterationIsFaithful
    CopyOfRestIsExact
PROPERTY
    ImplementsDeque
