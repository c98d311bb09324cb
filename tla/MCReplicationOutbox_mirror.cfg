SPECIFICATION FairSpec
CONSTANTS
    NumKeys = 2
    Workers = {w1, w2}
    PageSize = 2
    MaxWrites = 1
    MaxCrashes = 1
INVARIANTS
    CleanMeansMirrored
PROPERTIES
    MirrorNeverGoesBack
    EventuallyMirrored
