CONSTANTS
    MaxSteps = 3
    TopKs = {1, 2, 4}
SPECIFICATION SelectionSpec
CHECK_DEADLOCK FALSE
INVARIANTS
    EnoughSteps
    LargestFirst
    SolvedStepsLast
