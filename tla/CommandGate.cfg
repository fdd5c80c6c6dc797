SPECIFICATION Spec
CONSTANTS
    Devices <- MCDevices
    TierOf <- MCTierOf
    Followed <- MCFollowed
    NoDevice = NoDevice
CHECK_DEADLOCK FALSE
INVARIANTS
    TypeOK
    UnconfirmedIsReadOnly
    OwnCommandsOnly
    ListedIsAllOrNothing
