CONSTANTS
    p1 = p1
    p2 = p2
    Clients <- Pages
    MaxLosses = 1
    MaxSets = 2
SPECIFICATION PagesOrSetsSpec
PROPERTIES Plays
INVARIANTS CacheSound RegistrySound KeysStandAlone
