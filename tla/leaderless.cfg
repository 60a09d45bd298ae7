CONSTANTS
    n1 = n1
    n2 = n2
    n3 = n3
    w1 = w1
    w2 = w2
    w3 = w3
    AllNodes <- ThreeNodes
    Sets = {w1, w2, w3}
    CoordinatorOf <- Coordinators
    Skew <- ClockAhead
    MaxFaults = 1
    NoValue = NoValue
SPECIFICATION Spec
INVARIANTS AckedIsEverywhere
PROPERTIES OnlyOwnPutGoesBack
CHECK_DEADLOCK FALSE
