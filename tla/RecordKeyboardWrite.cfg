SPECIFICATION Spec
CONSTANTS
    Keys = {1, 2}
    Slots = {1, 2}
    Values = {0, 1, 2, 3}
    Garbage = 3
    InitialProfiles <- MCOddProfiles
    Requests <- MCRequests
    MaxCalls = 2
CHECK_DEADLOCK FALSE
INVARIANTS
    TypeOK
    KeepsPromise
