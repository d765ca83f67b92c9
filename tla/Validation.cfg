SPECIFICATION ValidationSpec
CONSTANTS
    Commitments <- MCCommitments
    Guess = Guess
    MaxConsumed = 1
    MaxBlock = 2
    Evidences <- MCEvidences
    Start = 0
    Deadline = 2
    Expires = 2
    MaximumAge = 1
    MinimumTier = "B"
    NoEvidence = NoEvidence
INVARIANTS
    AcceptedOncePerLease
    RevealInOrder
PROPERTIES
    ChallengeNotWasted
