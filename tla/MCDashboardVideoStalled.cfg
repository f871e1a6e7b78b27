CONSTANTS
    p1 = p1
    p2 = p2
    Clients <- Pages
    MaxLosses = 0
    MaxSets = 1
SPECIFICATION FairSpec
PROPERTIES PlaysBeside
