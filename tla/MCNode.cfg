SPECIFICATION Spec
CONSTANTS
    k1 = k1
    k2 = k2
    p = p
    Zapd = Zapd
    None = None
    Calls <- MCCalls
    Peers <- MCPeers
    MaxCuts = 2
INVARIANTS
    TypeOK
    NoneStranded
PROPERTIES
    DropEndsTheCall
    StaysJoined
    
CHECK_DEADLOCK FALSE
