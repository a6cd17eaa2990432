CONSTANTS
    Threads = {t1, t2, t3}
    AppOps = {"disconnect"}
    MaxAccepts = 2
    MaxRequests = 3
    MaxStrays = 1
SYMMETRY Symmetry
SPECIFICATION Spec
INVARIANTS
    AppsNeverOverlap
CHECK_DEADLOCK FALSE
