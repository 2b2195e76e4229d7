SPECIFICATION Spec
CONSTANTS
    r1 = r1
    r2 = r2
    b1 = b1
    None = None
    Squatter = Squatter
    Routers <- MCRouters
    Browsers <- MCBrowsers
    Ports <- MCPorts
    WELL_KNOWN <- MCWellKnown
    MaxKeys = 3
    MaxSquats = 2
INVARIANTS
    OldCodesStayOut
    NextRouterBindsTheNewPort
PROPERTIES
    DoorComesUp
CHECK_DEADLOCK FALSE
