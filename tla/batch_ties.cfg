\* One slot for three requests of one priority, one preemption.
CONSTANTS
    critical = critical
    normal1 = normal1
    normal2 = normal2
    normal3 = normal3
    Requests = {normal1, normal2, normal3}
    Pri <- Priorities
    Prompt <- AllShort
    Need <- OneBlockEach
    MaxNew = 2
    MaxBatch = 1
    Budget = 8
    MaxPrefill = 2
    MaxPending = 3
    MaxPreempted = 1
    Policy = TRUE
    Blocks = {b1}
SPECIFICATION FairSpec
PROPERTY FutureResolves
