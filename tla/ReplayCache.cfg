SPECIFICATION Spec
CONSTANTS
    Keys = {k1, k2, k3}
    Scopes = {s1, s2}
    MaxBlock = 2
    MaxExpiry = 2
    MaxSequence = 1
    MaxEntries = 2
    MaxSequences = 1
    EntryBytes = 75
    MaxStateBytes = 225
SYMMETRY Symmetry
INVARIANTS
    ActiveTokenOnce
PROPERTIES
    SequencesIncrease
    DecisionsKept
