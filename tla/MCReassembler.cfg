SPECIFICATION Spec
CONSTANTS
    ReorderDepth = 2
    ResyncGap = 2
    MaxFrames = 5
    MaxChunks = 2
INVARIANTS EmitsForward PartialFramesAreRecent Accounted NoFalseAlarm
CHECK_DEADLOCK FALSE
