\* Coordinator 1 is not configured with 3. One crash, cut link or late heartbeat.
SPECIFICATION FairSpec
CONSTANTS
    Coordinator = {1, 2, 3}
    Config <- PartialMesh
    Booted = {1, 2, 3}
    None = None
    TermInReply = TRUE
    MaxTerm = 5
    MaxCutTerm = 2
    MaxFaults = 1
INVARIANTS
    TypeOK
    LeaderHasQuorum
    LeaderOutranksOnline
PROPERTIES
    TenureIsOneTerm
    LeadershipSettles
