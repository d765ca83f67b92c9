SPECIFICATION FairSpec
CONSTANTS
    short = short
    long = long
    huge = huge
    References = {short, long, huge}
    Size <- MCSize
    MaxBytes = 2
    MaxAttempts = 2
    MaxChunk = 2
    Missing = Missing
INVARIANTS
    DestinationVerified
    StalePartialHarmless
    StoredIsServed
PROPERTIES
    FetchEnds
