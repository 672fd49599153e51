SPECIFICATION FairSpec
CONSTANTS
    ReorderDepth = 1
    WireLength = 2
    MaxRequests = 1
    MaxLosses = 2
INVARIANTS NoCorruptionWithoutLoss
PROPERTIES HostResumes WindowResumes HealsIfReported
CHECK_DEADLOCK FALSE
