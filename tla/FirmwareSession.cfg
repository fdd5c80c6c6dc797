SPECIFICATION Spec
CONSTANTS
    Starters = {s1}
    Confirmers = {t1, t2}
    Cancellers = {c1, c2}
    Subscribers = {l1}
    Images = {good, other}
    ChunksTotal = 2
    EnterCommands = 2
    Capacity = 4
SYMMETRY Symmetry
CONSTRAINT SubscriberAlone
INVARIANTS
    TypeOK
    ReportIsTrue
    OnlyPlannedBytes
    CancelStopsTransfer
    SubscriberIsTold
PROPERTIES
    ReportIsFinal
