CONSTANTS
    NumGroups = 4
    Size <- mcSize
    BatchSizes = {4, 6}
    InitDivisor = 2
    Divisors = {1, 2}
    OversizedChoices = {TRUE, FALSE}
    MaxEpoch = 1
    ShuffleOf <- mcShuffleOf
    Iters = {i1, i2}
    NoIter = NoIter
    NoState = NoState
    NoBatch = NoBatch
SPECIFICATION Spec
CHECK_DEADLOCK FALSE
INVARIANTS
    DeliveredIsPrefix
    SavedResumesExactly
    BatchBounded
    Aligned
PROPERTIES
    StopMeansDrained
    LenCountsYields
    ImplementsDelivery
