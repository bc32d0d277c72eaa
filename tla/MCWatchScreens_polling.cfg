CONSTANTS
    MaxJobs = 2
    MaxEvents = 1
    ListCap = 1
    MaxCalls = 2
    MaxFaults = 1
SPECIFICATION Spec
INVARIANTS ConsoleKeepsAsking FreezesAreKnown TruncationIsTold
PROPERTIES RunIsReattached ListCatchesUp
CHECK_DEADLOCK FALSE
