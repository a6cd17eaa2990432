SPECIFICATION Spec
CONSTANTS
    Receivers = {i1, i2}
    Senders = {s1, s2}
    Plans <- MCPlans
    HeaderSize = 2
    BufferSize = 3
    Segments = {1}
    Sizes = {1, 3}
    SendLimit = 2
    MaxDepth = 4
CHECK_DEADLOCK FALSE
INVARIANTS TypeOK  WellFormed LeftClean
  
