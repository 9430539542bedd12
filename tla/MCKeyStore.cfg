CONSTANTS
    Samples = {s1, s2}
    Words = {w1, w2}
    EmptyWord = EmptyWord
    Null = Null
    Absent = Absent
    Torn = Torn
    MaxEpochs = 3
    MaxCrashes = 2
    MaxFails = 2
SPECIFICATION Spec
CHECK_DEADLOCK FALSE
INVARIANTS
    NothingLost
    OneKeyword
    OrderIsCurrent
    FailsOnlyAfterCut
