SPECIFICATION AuthSpec
CONSTANTS
    Messages <- MCMessages
    Keys <- MCKeys
    Scopes <- MCScopes
    MaxAge = 2
    MaxFuture = 1
    MaxBlock = 5
    MaxExpiry = 5
    MaxSequence = 2
    MaxEntries = 3
    MaxSequences = 1
    EntryBytes = 75
    MaxStateBytes = 300
INVARIANTS
    MessageOnce
    EvidenceFiledWhole
PROPERTIES
    EvidenceInOrder
