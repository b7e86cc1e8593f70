SPECIFICATION Spec
CONSTANTS
    Coordinator = {1, 2, 3}
    Config <- FullMesh
    Booted = {1, 2, 3}
    None = None
    TermInReply = FALSE
    MaxTerm = 2
    MaxCutTerm = 2
    MaxFaults = 1
INVARIANTS
    ElectionSafety
