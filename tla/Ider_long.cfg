SPECIFICATION Spec
CONSTANTS
    Blocks <- SmallImages
    Data = {0, 1}
    ReadBuffers = {1, 2}
    SixLimit = 2
    LengthMod = 2
    SequenceMod = 2
    None = None
INVARIANT AsksForAll
CHECK_DEADLOCK FALSE
