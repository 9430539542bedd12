CONSTANTS
    NumSamples = 2
    StepsOf <- TwoSamples
    TopK = 2
    TrainBatch = 2
    Divisor = 2
    CriticWarmup = 1
    SaveFreq = 2
    TotalEpochs = 2
    MaxRuns = 2
SPECIFICATION Spec
CHECK_DEADLOCK FALSE
INVARIANTS
    EpochsWithinTotal
