SPECIFICATION Spec
CONSTANTS
    Typical <- Ordinary1
    Unusual <- ThreeUnusual
    Enumerations <- SomeEnumerations
    GatherSubsets <- SomeSubsets
    MaxDeviations = 2
INVARIANT ReportsWhatWasAsked
INVARIANT ReadFitsAnswer
INVARIANT DegradesAlone
