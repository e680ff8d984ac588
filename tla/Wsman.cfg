SPECIFICATION FairSpec
CONSTANTS
    i1 = i1
    i2 = i2
    i3 = i3
    Instance = {i1, i2, i3}
    Instances <- ThreeInstances
    PageSize = 2
    MaxRetries = 2
INVARIANT PeerIsTrusted
INVARIANT EnumerateIsComplete
PROPERTY CallEnds
PROPERTY ImplementsContract
