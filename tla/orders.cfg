CONSTANTS
    Orders = {o1, o2, o3}
    Unreadable = {o3}
    Processors = {p1, p2}
    WorkerCounts = {1, 2}
    BatchSizes = {2, 100}
    MaxReceive = 10
    RetryDelay = 1
    Visibility = 4
    Payment = 1
    Slack = 1
    MaxFaults = 1
SPECIFICATION FairSpec
INVARIANTS TypeOK LeavesOnlyPaid PaymentsHaveCause
PROPERTIES EveryOrderLeaves
CHECK_DEADLOCK FALSE
