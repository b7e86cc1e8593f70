\* Two slots, one block and one preemption for four requests, three of them of one
\* priority.
CONSTANTS
    critical = critical
    normal1 = normal1
    normal2 = normal2
    normal3 = normal3
    Requests = {critical, normal1, normal2, normal3}
    Pri <- Priorities
    Prompt <- Mixed
    Need <- OneBlockEach
    MaxNew = 2
    MaxBatch = 2
    Budget = 10
    MaxPrefill = 3
    MaxPending = 3
    MaxPreempted = 1
    Policy = TRUE
    Blocks = {b1}
SPECIFICATION FairSpec
INVARIANTS
    TypeOK
    NoRequestLost
    TiesNeedPreemption
    SlotsRespected
    BlocksReturned
    DecodesWithCache
PROPERTY EveryRequestAnswered
