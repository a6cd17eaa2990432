CONSTANT
    MaxTails = 2
SPECIFICATION Spec
INVARIANTS
    TypeOK
    FlagsExact
    
    CountExact
    SocketPresent
PROPERTIES
    ImplementsSlot
    SlotReused
CHECK_DEADLOCK FALSE
