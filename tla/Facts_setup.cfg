SPECIFICATION Spec
CONSTANTS
    Typical <- Ordinary1
    Unusual <- ThreeUnusual
    Enumerations <- SomeEnumerations
    GatherSubsets <- SomeSubsets
    MaxDeviations = 0
INVARIANT FollowsSetup
