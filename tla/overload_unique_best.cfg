CONSTANTS
    NumSites = 2
    NumCandidates <- Nested2x2
    ArgSites <- InnerIsArgument
    Problems <- MCProblems
    Contradictable <- None
    Ununifiable <- None
    ErrorSites = {}
    Strict = TRUE
    NoCandidate = NoCandidate
    OwnRanks = {2, 7, 8}
    ConvRanks = {0, 8}
    OuterRanks = {0, 8}
SPECIFICATION Spec
CHECK_DEADLOCK FALSE
INVARIANT
    UniqueBestIsChosen
