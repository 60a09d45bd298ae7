CONSTANTS
    Notifications = {n1, n2}
    Instances = {i1, i2}
    MaxTries = 2
    MaxRecords = 2
    FaultKinds = {"rebalance", "crash", "providerFails", "databaseFails"}
    MaxFaults = 2
SPECIFICATION FairSpec
INVARIANTS CommittedIsSettled SummaryIsTrue ResendsHaveCause AttemptsNumbered
PROPERTIES EveryMessageSettled
CHECK_DEADLOCK FALSE
