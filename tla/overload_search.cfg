CONSTANTS
    NumSites = 2
    NumCandidates <- Nested2x2
    ArgSites <- InnerIsArgument
    Problems <- MCProblems
    Contradictable <- AllButOne
    Ununifiable <- FirstSite
    ErrorSites = {}
    Strict = TRUE
    NoCandidate = NoCandidate
    OwnRanks = {2, 8}
    ConvRanks = {0, 8}
    OuterRanks = {8}
SPECIFICATION FairSpec
CHECK_DEADLOCK FALSE
INVARIANTS
    EliminationIsExhaustive
    CullsAreUndoable
    Balanced
    OnlyContradictionEmptiesSite
    AcceptedIsCoherent
PROPERTY
    Terminates
