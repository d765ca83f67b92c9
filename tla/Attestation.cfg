SPECIFICATION Spec
CONSTANTS
    Requests = {q1, q2}
    H100Requests = {q1}
    Devices <- MCDevices
    Bundles <- MCBundles
    Lifetime = 3
    MaxAge = 2
    CollateralMaxAge = 1
    Timeout = 1
    ReferenceExpiry = 2
    MinimumTier = "B"
    MaxTime = 4
    MaxRevocations = 1
    Idle = Idle
PROPERTIES
    RevocationNoticed
    FreshWhenAccepted
INVARIANTS
    EvidenceBoundToRequest
