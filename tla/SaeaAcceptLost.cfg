CONSTANT
    MaxTails = 2
SPECIFICATION Spec
INVARIANTS
    AcceptRetried
CHECK_DEADLOCK FALSE
