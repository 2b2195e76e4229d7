SPECIFICATION Spec
CONSTANTS
    c1 = c1
    c2 = c2
    c3 = c3
    Conns <- MCConns
    origin <- MCOrigin
    Paired <- MCPaired
    Gate = 1
    MaxMessages <- MCMessages
    MaxFrames <- MCFrames
INVARIANTS
    TypeOK
    GateCounts
    OnlyTheProven
    
    NeverTwice
PROPERTIES
    SilenceCloses
CHECK_DEADLOCK FALSE
