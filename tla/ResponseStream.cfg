SPECIFICATION Spec
CONSTANTS
    BufferSize = 2
    Writes = {1, 3}
    MaxLength = 5
    MaxContinues = 2
    Kinds <- MCKinds
CHECK_DEADLOCK FALSE
INVARIANTS TypeOK Intact 
PROPERTY Answered
