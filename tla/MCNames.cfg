SPECIFICATION Spec
CONSTANTS
    n1 = n1
    b1 = b1
    None = None
    Conns <- MCConns
    Door <- MCDoor
    Lower <- MCLower
    Upper <- MCUpper
    lowercase <- MCLowercase
    Others <- MCOthers
    MAX = 2
    KINDS <- MCKinds
    BROWSER <- MCBrowser
    LOCAL_HOST <- MCLocal
    Hostnames <- MCHostnames
    Proposals <- MCProposals
INVARIANTS
    OnlyBrowsersThroughTheDoor
    OneSeatPerName
PROPERTIES
    StaysItself
CHECK_DEADLOCK FALSE
