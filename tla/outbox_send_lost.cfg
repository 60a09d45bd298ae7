CONSTANTS
    Events = {e1, e2}
    Publishers = {p1}
    BatchSize = 2
    MaxBatchesPerRun = 2
    FaultKinds = {"sendFails"}
    MaxFaults = 1
SPECIFICATION Spec
INVARIANTS PublishedIsSent
CHECK_DEADLOCK FALSE
