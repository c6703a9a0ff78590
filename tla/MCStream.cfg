SPECIFICATION FairSpec
CONSTANTS
    Parts = {"manager"}
    Values = {0, 1}
    MaxRevision = 2
    None = None
    Buffer = 1
    MaxWire = 1
    Loaders = {l1}
INVARIANTS
    NothingMissed
    ConfigurationHeard
PROPERTIES
    DeadStreamEnds
    DashboardConverges
CHECK_DEADLOCK FALSE
