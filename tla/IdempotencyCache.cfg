\* Three keys compete for two entries; the clock runs past the ttl.
CONSTANTS
    Keys = {k1, k2, k3}
    Values = {v1, v2}
    TTL = 1
    MaxEntries = 2
    MaxTime = 3
    None = None
SPECIFICATION Spec
INVARIANTS
    Coherent
    RecentSurvives
    HitIsFresh
PROPERTIES
    ImplementsMap
