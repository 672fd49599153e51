SPECIFICATION FairSpec
CONSTANTS
    Inst = {i1, i2, i3}
    Devices = {d1}
    RemoteIds = {r1}
    None = None
    MaxRequests = 1
    Features = {"share", "remote"}
PROPERTIES
    RemoteListensAgain
CHECK_DEADLOCK FALSE
