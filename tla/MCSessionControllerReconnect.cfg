SPECIFICATION Spec
CONSTANTS
    Inst = {i1, i2, i3}
    Devices = {d1, d2}
    RemoteIds = {r1}
    None = None
    MaxRequests = 1
    Features = {"view", "remote"}
SYMMETRY Symmetry
INVARIANTS
    ReconnectKeepsTrying
CHECK_DEADLOCK FALSE
