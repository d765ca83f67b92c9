SPECIFICATION Spec
CONSTANTS
    MaxTime = 5
    MaxStep = 3
    Intervals <- MCIntervals
    MaxIntervals = 4
    Runs <- MCRuns
    BatchesPerStep = 2
    UnitsPerBatch = 1
    MinimumWarmup = 1
    MinimumActive = 1
    MaximumInterval = 2
    MaximumActive = 3
    MaximumCheckpoint = 1
    MaximumSetup = 1
    MaximumObserved = 6
    MaximumUnits = 4
    RateScale = 5
    Lower = 7
    Upper = 10
INVARIANTS
    TimeAccounted
    StepsCountedOnce
    DecisionIsExact
