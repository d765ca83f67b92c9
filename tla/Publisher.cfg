\* Each publisher packages once.
SPECIFICATION PublisherSpec
CONSTANTS
    p1 = p1
    p2 = p2
    Publishers = {p1, p2}
    Paths = {1, 2}
    Entrypoint = 1
    Requests <- MCRequests
    Chunks = {"a", "b"}
    Contents <- MCContents
    MaxInputs = 2
    MaxInputBytes = 2
    Initially <- MCInitially
    MaxChanges = 1
    Blocks = 2
    None = None
INVARIANTS
    PackageIsFaithful
    DestinationIsWhole
SYMMETRY Publishing
CHECK_DEADLOCK FALSE
