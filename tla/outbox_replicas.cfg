CONSTANTS
    Events = {e1, e2, e3}
    Publishers = {p1, p2}
    BatchSize = 2
    MaxBatchesPerRun = 2
    FaultKinds = {"rollback", "crash", "sendFails", "ackLost"}
    MaxFaults = 1
SPECIFICATION Spec
INVARIANTS CopiesHaveCause LossNeedsFailedSend
SYMMETRY Symmetry
CHECK_DEADLOCK FALSE
