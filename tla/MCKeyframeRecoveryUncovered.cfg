SPECIFICATION Spec
CONSTANTS
    ReorderDepth = 1
    WireLength = 2
    MaxRequests = 1
    MaxLosses = 2
INVARIANT LossIsCovered
CHECK_DEADLOCK FALSE
