CONSTANTS
    h1 = h1
    h2 = h2
    v1 = v1
    v2 = v2
    Hosts = {h1, h2}
    Viewers = {v1, v2}
    None = None
    MaxLog = 2
    Sole = TRUE
SPECIFICATION MCSpec
INVARIANTS SecureMeansAgreed SpentOnce AppliedInOrder
PROPERTIES Promise Settles NoHalfOpen
CHECK_DEADLOCK FALSE
