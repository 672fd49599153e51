SPECIFICATION Spec
CONSTANTS
    ReorderDepth = 3
    ResyncGap = 4
    MaxFrames = 6
    MaxChunks = 1
INVARIANT LostIfNeverCompleted
CHECK_DEADLOCK FALSE
