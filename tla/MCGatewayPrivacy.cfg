SPECIFICATION Spec
CONSTANTS
    r1 = r1
    r2 = r2
    r3 = r3
    Requests = {r1, r2}
    Calls <- MCCalls
    Providers <- MCProviders
    Active <- MCActive
    Capable <- MCCapable
    Override <- MCOverride
    CacheSettings = {TRUE, FALSE}
    None = None
    MaxAge = 1
    Retention = 0
    MaxClock = 1
    MaxCrashes = 1
INVARIANT BodyOnlyWhenLogged
SYMMETRY Symmetry
CHECK_DEADLOCK FALSE
