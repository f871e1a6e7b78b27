CONSTANTS
    p1 = p1
    p2 = p2
    Clients <- One
    MaxLosses = 0
    MaxSets = 1
SPECIFICATION PatientSpec
PROPERTIES ConfigSent
