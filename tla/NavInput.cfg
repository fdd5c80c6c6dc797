SPECIFICATION Spec
CONSTANTS
    p1 = p1
    p2 = p2
    Pads <- MCPads
    Machines <- MCMachines
    ChannelSize = 1
    MaxHappenings = 2
INVARIANTS
    TypeOK
    ScreenSettles
PROPERTIES
    PadIsHeard
CHECK_DEADLOCK FALSE
