SPECIFICATION FairShell
CONSTANTS
    K = K
    P = P
    Q = Q
    C = C
    S = S
    NoDevice = NoDevice
    Devices <- MCDevices
    Arranged <- MCArranged
    Kind <- MCKind
    Visits <- MCVisits
INVARIANTS ShellTypeOK ScreenIsTrue
PROPERTIES LockHolds EditorSettles
CHECK_DEADLOCK FALSE
