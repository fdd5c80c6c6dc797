SPECIFICATION Spec
CONSTANTS
    Keys = {1, 2}
    MacroKeys = {1, 2}
    MacroSlots = 1
    Values = {0, 1, 2}
    InitialProfiles <- MCProfiles
    Requests <- MCRequests
    MaxCalls = 2
CHECK_DEADLOCK FALSE
INVARIANTS
    TypeOK
    AppliedIsHeld
    OthersUntouched
PROPERTIES
    CallEnds
    ImplementsPromise
