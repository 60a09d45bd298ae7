CONSTANTS
    n1 = n1  n2 = n2  n3 = n3
    k1 = k1  w1 = w1  w2 = w2  g1 = g1
    NoValue = NoValue
    Keys = {k1}
    AllNodes <- ThreeNodes
    Leader = n2
    Sets = {w1, w2}
    Gets = {g1}
    KeyOf <- OneKey
    NodeOf <- AtFollower
    W = 1
    R = 3
    MaxConcurrentSets = 2
    MaxFaults = 1
SPECIFICATION LoadFairSpec
INVARIANTS SameVersionSameValue AllReplicasAgree NoFalseAlarms MissedOnlyOutOfOrder SummaryCountsReads
PROPERTIES EveryWritePropagates
CHECK_DEADLOCK FALSE
