SPECIFICATION Spec
CONSTANTS
    u1 = u1
    u2 = u2
    b = b
    x = x
    y = y
    None = None
    Conns <- MCConns
    Door <- MCDoor
    Ids <- MCIds
    MaxFrames = 0
SYMMETRY MCSymmetry
INVARIANTS
    TypeOK
    EntryIsServed
    LosesSeatOnlyByEviction
    PresenceSettles
    EveryPairIsIntroduced
PROPERTIES
    KeepsSeats
CHECK_DEADLOCK FALSE
