SPECIFICATION Spec
CONSTANTS
    Leases = {l1, l2, l3}
    Manifests = {m1}
    Codes = {c1, c2}
    NoCode = NoCode
    NoRecord = NoRecord
    MaxBlock = 1
    MaxRevision = 7
    MaxRecords = 2
    MaxStateBytes = 592
    FixedBytes = 271
    CodeBytes = 9
SYMMETRY Symmetry
INVARIANTS
    MapIsDurable
    SnapshotLoadable
    ExecutionClaimedOnce
    EvidenceClaimedOnce
PROPERTIES
    LeaseHistory
    DeadlineHolds
    ImplementsContract
