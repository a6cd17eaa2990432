CONSTANTS
    Threads = {t1, t2, t3}
    AppOps = {"flush", "disconnect", "fault"}
    MaxAccepts = 2
    MaxRequests = 2
    MaxStrays = 1
SYMMETRY Symmetry
SPECIFICATION Spec
INVARIANTS
    TypeOK
    Lawful
    AppsExclusive
    ReceivingExact
    BufferStill
    FreshSlot
PROPERTIES
    Uncut
CHECK_DEADLOCK FALSE
