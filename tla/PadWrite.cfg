SPECIFICATION Spec
CONSTANTS
    Platforms = {switch, xinput}
    Slots = {1, 2}
    MacroIds = {1, 2, 3}
    SlotOf <- MCSlotOf
    Values = {0, 1, 2, 3}
    Garbage = 3
    InitialProfiles <- MCProfiles
    Requests <- MCRequests
    MaxCalls = 2
SYMMETRY PlatformSymmetry
CHECK_DEADLOCK FALSE
INVARIANTS
    TypeOK
    KeepsPromise
