SPECIFICATION Spec
CONSTANTS
    Objects = {o1, o2}
    Workers = {w1, w2}
    NoWorker = NoWorker
    Periods = {TRUE}
    MaxVersion = 4
    MaxFails = 1
INVARIANTS
    TypeOK
    StaleOnlyIfMissed
    ServedIsBound
PROPERTIES
    NeverBackwards
SYMMETRY Symmetric
