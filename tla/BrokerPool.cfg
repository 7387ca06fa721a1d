SPECIFICATION Spec
CONSTANTS
    Workers = {w1, w2, w3}
    Observers = {o1}
    NoThread = NoThread
    NBrokers = 2
    Timeout <- MCTimeout
    Watch <- MCWatch
    Epoch = 1
    MaxTime = 4
    ClockJumps <- NoJumps
    MaxJumps = 0
INVARIANTS
    TypeOK
    MutexMatchesProgress
    SingleShotOnce
    QuietAfterJoin
PROPERTIES
    RefreshInterval
    ImplementsSchedule
SYMMETRY WorkerSymmetry
