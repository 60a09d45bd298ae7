CONSTANTS
    n1 = n1  n2 = n2  n3 = n3  n4 = n4  n5 = n5
    k1 = k1  k2 = k2  w1 = w1  w2 = w2  w3 = w3  g1 = g1
    NoValue = NoValue
    Keys = {k1, k2}
    AllNodes <- FiveNodes
    Leader = n1
    Sets = {w1, w2}
    Gets = {g1}
    KeyOf <- OneKey
    NodeOf <- AtFollower
    W = 5
    R = 1
    MaxConcurrentSets = 2
    MaxFaults = 0
SPECIFICATION Spec
INVARIANTS ReadsSeeAckedWrites
CHECK_DEADLOCK FALSE
