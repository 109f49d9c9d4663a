SPECIFICATION Spec
CONSTANTS
    v1 = v1  v2 = v2
    NoLimit = NoLimit
    Visitor = {v1, v2}
    MaxShares = 1
    MaxGiven = 2
    Form <- Forms
    Budget <- EachOnce
    Mix = 1
CHECK_DEADLOCK FALSE
INVARIANTS TypeOK Overshoot ErrorIsFinal NoLateUrl ListCurrent
SYMMETRY Visitors
