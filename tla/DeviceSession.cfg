SPECIFICATION Spec
CONSTANTS
    get = get
    getAlt = getAlt
    set = set
    idle = idle
    quiet = quiet
    v0 = v0
    v1 = v1
    None = None
    Reads = {get, getAlt, idle, quiet}
    Writes = {set}
    Mute = {quiet}
    Split = {getAlt}
    Answers <- MCAnswers
    Accepts <- MCAccepts
    Unasked = {4}
    Suffices <- MCSuffices
    Values = {v0, v1}
    Sessions <- MCSessions
    MaxAttempts = 2
    MaxDrained = 2
    MaxQueued = 2
INVARIANTS
    TypeOK
    NothingStaleAnswers
    WrittenOnce
    OwnReply
    VerifiedIsHeld
PROPERTIES
    CommandEnds
CHECK_DEADLOCK FALSE
