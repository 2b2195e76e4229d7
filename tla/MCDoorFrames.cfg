SPECIFICATION Spec
CONSTANTS
    c1 = c1
    c2 = c2
    c3 = c3
    Conns <- MCOne
    origin <- MCOneOrigin
    Paired <- MCPaired
    Gate = 1
    MaxMessages <- MCTwoEach
    MaxFrames <- MCTwoEach
INVARIANTS
    SameFrames
CHECK_DEADLOCK FALSE
