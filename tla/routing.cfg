CONSTANTS
    n1 = n1
    n2 = n2
    email = email
    inapp = inapp
    sms = sms
    Notifications = {n1, n2}
    ChannelsOf <- GoodAndBad
    Supported = {email, inapp}
    Instances = {i1, i2}
    MaxTries = 2
    MaxRecords = 2
    Partitions <- UnroutableFirst
    FaultKinds = {"rebalance", "crash", "publishFails", "sendFails", "ackLost"}
    MaxFaults = 2
SPECIFICATION FairSpec
INVARIANTS CommittedIsRouted DuplicatesBounded
PROPERTIES EveryRequestPassed
CHECK_DEADLOCK FALSE
