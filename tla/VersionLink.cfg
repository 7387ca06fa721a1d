SPECIFICATION Spec
CONSTANTS
    r1 = r1
    r2 = r2
    Requests = {r1, r2}
    Images <- MCImages
    Purpose <- MCPurpose
    MaxSignals = 1
SYMMETRY RequestSymmetry
INVARIANTS
    ServedWasShown
    LastWinsIfCalm
