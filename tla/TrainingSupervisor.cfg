SPECIFICATION FairSpec
CONSTANTS
    Digests = {d1, d2}
    NoDigest = NoDigest
    MaxSteps = 3
    Interval = 2
    MaxRuntime = 2
    MaxLogBytes = 1
    MaxEvents = 4
    GraceFrames = 2
INVARIANTS
    CompletionEarned
    ProcessLeftOnlyByEscape
    CheckpointsAtCadence
PROPERTIES
    ProgressIsMonotonic
    RunEnds
