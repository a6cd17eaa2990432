CONSTANTS
    Threads = {t1, t2, t3}
    AppOps = {"flush", "disconnect"}
    MaxAccepts = 1
    MaxRequests = 2
    MaxStrays = 0
SPECIFICATION Spec
PROPERTIES
    ClosedIsReused
    GoneIsClosed
    PipelinedIsTaken
CHECK_DEADLOCK FALSE
