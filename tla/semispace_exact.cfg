SPECIFICATION FairSpec
CONSTANTS
    frame = frame
    global = global
    StackRoot <- OneStackRoot
    StaticRoot <- OneStaticRoot
    SpaceCells = 4
    FieldCounts <- SmallObjects
    Id <- Ids
    LateInit = FALSE
    MaxLive = 4
INVARIANTS
    AllocatedInToSpace
    TracesObjectsOnly
    CollectionIsExact
PROPERTIES
    ImplementsHeap
    CollectionEnds
CHECK_DEADLOCK FALSE
