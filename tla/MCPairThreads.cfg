SPECIFICATION Spec
CONSTANTS
    l1 = l1
    l2 = l2
    r1 = r1
    r2 = r2
    p1 = p1
    p2 = p2
    p3 = p3
    None = None
    Half = Half
    Loads <- MCBrowsers
    Resets <- MCNoResets
    Procs <- MCRouter
    pid <- MCTogether
    MaxDeletes = 0
INVARIANTS
    NeverHalf
CHECK_DEADLOCK FALSE
