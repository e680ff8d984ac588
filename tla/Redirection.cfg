SPECIFICATION FairSpec
CONSTANTS
    Header = 2
    MaxSize = 3
    MaxFrames = 2
INVARIANT StreamIntact
INVARIANT ServesWhenAccepted
PROPERTY ConnectEnds
PROPERTY FramesArrive
CHECK_DEADLOCK FALSE
