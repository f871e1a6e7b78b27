CONSTANTS
    NONE = NONE
    p1 = p1
    p2 = p2
    Clients <- Pages
    MaxQueue = 1
    MaxEvents = 2
SPECIFICATION FairSpec
PROPERTIES ComesUpToDate
INVARIANTS RegistrySound CurrentUnlessDropped NewestKept
