SPECIFICATION Spec
CONSTANTS
    Inst = {i1, i2, i3}
    Devices = {d1}
    RemoteIds = {r1, r2}
    None = None
    MaxRequests = 1
    Features = {"share", "view", "remote", "badcode"}
SYMMETRY Symmetry
INVARIANTS
    NoOrphanInstance
    ConsentIsForTheCurrentAttempt
    RemoteNeverDeaf
    ListenerStepsAside
    OldCodesAreDead
    ListenerHasFreshSettings
    GuestWasAllowed
    PausedShareIsLent
PROPERTIES
    LiveSessionIsNotTaken
CHECK_DEADLOCK FALSE
