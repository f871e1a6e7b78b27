CONSTANTS
    Clients = {c1, c2}
    Socks = {s1, s2}
    NONE = NONE
SPECIFICATION FairSpec
INVARIANTS TypeOK SingleConnection AssertionsHold ReadyMeansAccepted
PROPERTIES ImplementsLifecycle BrokenLinkNoticed ServiceReturns
