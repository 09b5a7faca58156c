SPECIFICATION Spec
CONSTANTS
    frame = frame
    global = global
    StackRoot <- OneStackRoot
    StaticRoot <- NoRoot
    SpaceCells = 3
    FieldCounts <- Objects
    Id <- NoIds
    LateInit = TRUE
    MaxLive = 3
INVARIANT
    SetReferencesAreSound
CHECK_DEADLOCK FALSE
