SPECIFICATION Spec
CONSTANTS
    p1 = p1
    p2 = p2
    p3 = p3
    Rogue = Rogue
    None = None
    Procs <- MCProcs
    Platforms <- MCPlatforms
    MaxFaults = 2
INVARIANTS
    TypeOK
    ElectedHolds
    ServingIsReachable
    JoinedToTheHolder
PROPERTIES
    Converges
CHECK_DEADLOCK FALSE
