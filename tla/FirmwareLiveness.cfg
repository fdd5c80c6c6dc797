SPECIFICATION Spec
CONSTANTS
    Starters = {s1}
    Confirmers = {t1}
    Cancellers = {c1}
    Subscribers = {}
    Images = {good}
    ChunksTotal = 2
    EnterCommands = 1
    Capacity = 3
CHECK_DEADLOCK FALSE
PROPERTIES
    TransferEnds
    ImplementsUpdate
