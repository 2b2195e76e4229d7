SPECIFICATION Spec
CONSTANTS
    l1 = l1
    l2 = l2
    r1 = r1
    r2 = r2
    p1 = p1
    p2 = p2
    p3 = p3
    None = None
    Half = Half
    Loads <- MCLoads
    Resets <- MCResets
    Procs <- MCProcs
    pid <- MCApart
    MaxDeletes = 1
INVARIANTS
    NeverHalf
    NobodyFails
PROPERTIES
    ResetRenews
    KeepsSecret
CHECK_DEADLOCK FALSE
