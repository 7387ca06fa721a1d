SPECIFICATION FairSpec
CONSTANTS
    t1 = t1
    long = long
    None = None
    Tokens = {t1, long}
    WellSized = {t1}
    Second = 1
    DefaultTimeout = 1
    Start = 2
    Threads = {r1, r2}
    Files <- MCFiles
    InitFile <- NoUuid
    Requests <- MCRequests
    MaxNow = 4
    MaxWrites = 1
INVARIANTS
    TypeOK
    OwnSession
PROPERTIES
    RevokedFadesOut
    FailureReadsAll
    RequestEnds
