CONSTANTS
    Ranks = {r0, r1}
    Leader = r0
    UseCritic = TRUE
    MaxKeep = 2
    SaveFreq = 2
    MaxStep = 4
    MaxRuns = 3
    Absent = Absent
    Torn = Torn
SPECIFICATION Spec
CHECK_DEADLOCK FALSE
INVARIANTS
    TrackedIsComplete
    FailsOnlyOnTornTracker
PROPERTIES
    RotationWithinRun
    TrackerAdvances
    SaveCompletes
