\* Two workers and a request being checkpointed: one outage and one straggler.
CONSTANTS
    Node = {1, 2}
    Layout <- TwoNodes
    Topology <- TwoNodes
    Request = {r1}
    Synthetic = Synthetic
    None = None
    FailureThreshold = 2
    OfflineThreshold = 3
    RecoveryThreshold = 1
    ProbesNodes = TRUE
    MaxOutages = 1
    MaxReports = 1
    MaxJoins = 0
    MaxSweeps = 1
SPECIFICATION FairSpec
PROPERTY FailedNodeLeaves
