\* The system may stop: a name is used once, and an idle backend has no more
\* work when both are used.
SPECIFICATION FairSpec
CONSTANTS
    n1 = n1
    n2 = n2
    Names = {n1, n2}
    NoName = NoName
    Calls <- MCCalls
    MaxRuntime = 2
    RemoveTimeout = 1
    MaxArguments = 2
INVARIANTS NoRunawayContainer
PROPERTIES RunReturns
CHECK_DEADLOCK FALSE
