SPECIFICATION FairSpec
CONSTANTS
    Objects = {o1, o2}
    Workers = {w1, w2}
    NoWorker = NoWorker
    Periods = {TRUE, FALSE}
    MaxVersion = 3
    MaxFails = 1
PROPERTIES
    Converges
    SettlesUnlessMissed
