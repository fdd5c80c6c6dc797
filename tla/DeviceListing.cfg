SPECIFICATION ListingSpec
CONSTANTS
    a = a
    b = b
    U2 = U2
    Pro3 = Pro3
    Receiver = Receiver
    Other = Other
    NoProduct = NoProduct
    SharedPid = "shared"
    Units <- MCUnits
    Sites <- MCSites
    Aliases <- MCAliases
    MaxLoads = 2
INVARIANTS ListingTypeOK ListingIsTrue
PROPERTIES EveryRowIsProbed
CHECK_DEADLOCK FALSE
