SPECIFICATION Spec
CONSTANTS
    s1 = s1
    s2 = s2
    Requests = {r1}
    Sensors = {s1, s2}
    Providers = {p1, p2}
    Updates <- MCUpdates
    MaxUpdates = 3
INVARIANTS
    TypeOK
    ServedWasShown
    OkOnlyIfNoneFound
    FailsOnlyOnUnknown
