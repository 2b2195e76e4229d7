SPECIFICATION Spec
CONSTANTS
    Base = 4
    MAX_FRAME = 39
    MaxSize = 39
    Bad = 3
    Repl <- MCRepl
    Id <- MCId
    Proposed <- MCProposed
    Asker <- MCAsker
    Zapd <- MCZapd
    Descs <- MCDescs
    Envelopes <- MCEnvelopes
    Filters <- MCFilters
    None = None
    MaxFrames = 2
    MaxLists = 1
INVARIANTS
    TypeOK
    
    
    
    DoorAgrees
CHECK_DEADLOCK FALSE
