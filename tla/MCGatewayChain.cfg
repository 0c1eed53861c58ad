SPECIFICATION Spec
CONSTANTS
    r1 = r1
    r2 = r2
    r3 = r3
    Requests = {r1, r2, r3}
    Calls <- MCSameCall
    Providers <- MCProviders
    Active <- MCActive
    Capable <- MCCapable
    Override <- MCOverride
    CacheSettings = {TRUE}
    None = None
    MaxAge = 1
    Retention = 1
    MaxClock = 2
    MaxCrashes = 0
INVARIANTS
    HitIsFresh
SYMMETRY Symmetry
CHECK_DEADLOCK FALSE
