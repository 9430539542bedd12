CONSTANTS
    NumSamples = 3
    StepsOf <- ThreeSamples
    TopK = 2
    TrainBatch = 2
    Divisor = 2
    CriticWarmup = 1
    SaveFreq = 2
    TotalEpochs = 2
    MaxRuns = 2
SPECIFICATION Spec
CHECK_DEADLOCK FALSE
INVARIANTS
    CurriculumOrder
    EveryKeyStepOnce
    BatchesSplit
    WeightsMatchCounter
PROPERTIES
    EpochEnds
