CONSTANTS
    Events = {e1, e2, e3}
    Publishers = {p1, p2}
    BatchSize = 1
    MaxBatchesPerRun = 2
    FaultKinds = {"rollback"}
    MaxFaults = 1
SPECIFICATION FairSpec
PROPERTIES ImplementsRelay
CHECK_DEADLOCK FALSE
