CONSTANTS
    NumGroups = 4
    Size <- mcSize
    BatchSizes = {4}
    InitDivisor = 2
    Divisors = {3}
    OversizedChoices = {TRUE}
    MaxEpoch = 1
    ShuffleOf <- mcShuffleOf
    Iters = {i1, i2}
    NoIter = NoIter
    NoState = NoState
    NoBatch = NoBatch
SPECIFICATION Spec
CHECK_DEADLOCK FALSE
INVARIANTS
    Aligned
