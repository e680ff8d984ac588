SPECIFICATION FairSpec
CONSTANTS
    Blocks <- SmallImages
    Data = {0, 1}
    ReadBuffers = {1, 2}
    SixLimit = 2
    LengthMod = 8
    SequenceMod = 2
    None = None
INVARIANT TornDownForCause
INVARIANT AckedIsStored
INVARIANT CompletedReadIsWhole
PROPERTY WritesStayInTheirCommand
PROPERTY PumpEnds
CHECK_DEADLOCK FALSE
