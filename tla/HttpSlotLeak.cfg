CONSTANTS
    Threads = {t1, t2, t3}
    AppOps = {}
    MaxAccepts = 1
    MaxRequests = 1
    MaxStrays = 1
SPECIFICATION Spec
PROPERTIES
    GoneIsReused
CHECK_DEADLOCK FALSE
