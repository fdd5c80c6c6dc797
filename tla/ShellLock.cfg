SPECIFICATION ShellSpec
CONSTANTS
    K = K
    P = P
    Q = Q
    C = C
    S = S
    NoDevice = NoDevice
    Devices <- MCDevices
    Arranged <- MCArranged
    Kind <- MCKind
    Visits <- MCVisits
PROPERTIES WritesStayOff
CHECK_DEADLOCK FALSE
