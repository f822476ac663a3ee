SPECIFICATION Spec
CONSTANTS
    d1 = d1
    p1 = p1
    Devices = {d1}
    Ports = {p1}
    PortOf <- OnePort
    MaxSample = 2
    MaxSync = 1
    QueueMax = 1
    MaxOps = 3
    MaxRestart = 1
INVARIANTS
    RowsBelongToActive
    RemovedNotShown
    SyncAnsweredOnce
    ShownIsNewest
PROPERTIES
    OnlyAddRestores

CHECK_DEADLOCK FALSE
