SPECIFICATION Spec
CONSTANTS
    Buttons = {1, 2}
    Stages = {0, 1}
    Values = {0, 1, 2, 3, 4}
    Garbage = 3
    Plays = 4
    EnabledIn <- MCEnabledIn
    DpiIn <- MCDpiIn
    Defaults <- MCDefaults
    InitialProfiles <- MCProfiles
    Requests <- MCRequests
    MaxCalls = 3
CHECK_DEADLOCK FALSE
INVARIANTS
    TypeOK
    KeepsPromise
    StageFollows
