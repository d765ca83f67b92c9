\* One verification, which ends.
SPECIFICATION FairSpec
CONSTANTS
    Kinds = {1, 2}
    Digests = {"a", "b"}
    Inputs <- MCInputs
    Modulus = 8
    MaxValuesPerProbe = 3
    MaxProbes = 6
    MaxLeaves = 8
    LeastFull = 10
    Weights = {1, 10, 100}
    Tolerances <- MCTolerances
INVARIANTS
    RootIdentifiesCheckpoint
    SampleIsFair
    ChallengeIsComplete
    AcceptedIsSound
PROPERTIES SamplingEnds
CHECK_DEADLOCK FALSE
