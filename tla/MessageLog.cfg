SPECIFICATION FairSpec
CONSTANTS
    e1 = e1
    e2 = e2
    e3 = e3
    Empty = Empty
    Event = {e1, e2, e3}
    InitialLogs <- SmallLogs
    max_records = 3
INVARIANT CompleteIsWhole
 
 
PROPERTY ModuleEnds
