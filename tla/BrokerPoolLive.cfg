SPECIFICATION FairSpec
CONSTANTS
    Workers = {w1, w2}
    Observers = {o1}
    NoThread = NoThread
    NBrokers = 2
    Timeout <- MCTimeout
    Watch <- MCWatch
    Epoch = 1
    MaxTime = 2
    ClockJumps <- SomeJumps
    MaxJumps = 1
PROPERTIES
    DueIsRefreshed
    TerminateReturns
