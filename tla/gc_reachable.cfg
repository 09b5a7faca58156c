SPECIFICATION FairSpec
CONSTANTS
    o1 = o1
    o2 = o2
    o3 = o3
    Object <- ThreeObjects
    Deferring <- OneDeferring
    CycleMod = 3
    MaxSweeps = 2
INVARIANTS
    NoDangling
    TraceIsExact
PROPERTIES
    GarbageIsReclaimed
    SweepEnds
CHECK_DEADLOCK FALSE
