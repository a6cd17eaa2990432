SPECIFICATION Spec
CONSTANTS
    IntMax = 2
    App = app
    Receivers = {r1, r2}
    Bodies <- MCBodies
    Counts = {1, 3}
    BufferSize = 2
    ULongMax = 20
    ResetRaces = FALSE
CHECK_DEADLOCK FALSE
INVARIANTS TypeOK  OneServes 
  
