SPECIFICATION FairSpec
CONSTANT MaxPoints = 3
INVARIANTS
    TypeOK
    BufferOutlivesLogging
    OnlyUnreservedFaults
    LogSound
PROPERTY WaitingIsSignalled
CHECK_DEADLOCK FALSE
