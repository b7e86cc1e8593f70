\* A worker fails while a drill is run.
CONSTANTS
    Node = {1, 2}
    Layout <- TwoNodes
    Topology <- TwoNodes
    Request = {}
    Synthetic = Synthetic
    None = None
    FailureThreshold = 2
    OfflineThreshold = 3
    RecoveryThreshold = 1
    ProbesNodes = TRUE
    MaxOutages = 1
    MaxReports = 1
    MaxJoins = 0
    MaxSweeps = 0
    MaxDrills = 1
SPECIFICATION DrillSpec
INVARIANT DeadIsOut
