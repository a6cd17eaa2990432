CONSTANTS
    StartCount = 2
    DeltaCount = 2
    MaxCount = 5
    KeepFree = 1
    MaxLate = 1
    MaxQueued = 3
SPECIFICATION Spec
INVARIANTS
    TypeOK
    Conservation
    AllocationBound
    GrowthJustified
    
    NoBlockLeft
PROPERTIES
    FullPoolGrows
CHECK_DEADLOCK FALSE
