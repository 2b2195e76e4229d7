SPECIFICATION Spec
CONSTANTS
    u1 = u1
    u2 = u2
    b = b
    x = x
    y = y
    None = None
    Conns <- MCTalkers
    Door <- MCNoDoor
    Ids <- MCIds
    MaxFrames = 1

    
PROPERTIES
    OverIsForgotten
    NoRouteIsTrue
CHECK_DEADLOCK FALSE
