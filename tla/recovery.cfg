\* Three workers: one outage, one straggler and one node registered again, in any
\* order and interleaving.
CONSTANTS
    Node = {1, 2, 3}
    Layout <- ThreeNodes
    Topology <- ThreeNodes
    Request = {}
    Synthetic = Synthetic
    None = None
    FailureThreshold = 2
    OfflineThreshold = 3
    RecoveryThreshold = 2
    ProbesNodes = TRUE
    MaxOutages = 1
    MaxReports = 1
    MaxJoins = 1
    MaxSweeps = 0
SPECIFICATION Spec
INVARIANTS
    TypeOK
    DeadIsOut
    PipelineMatchesTopology
    PipelineServesModel
PROPERTY OwnershipSpec
