SPECIFICATION Spec
CONSTANTS
    o1 = o1
    o2 = o2
    o3 = o3
    Object <- ThreeObjects
    Deferring <- OneDeferring
    CycleMod = 3
    MaxSweeps = 3
SYMMETRY Symmetric
INVARIANT
    InUseSurvives
CHECK_DEADLOCK FALSE
