SPECIFICATION Spec
CONSTANTS
    s1 = s1
    s2 = s2
    Requests = {r1, r2}
    Sensors = {s1}
    Providers = {p1}
    Updates <- FewUpdates
    MaxUpdates = 1
INVARIANTS
    OkOnlyIfNoneFound
