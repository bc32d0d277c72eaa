SPECIFICATION FairSpec
CONSTANTS
    Reqs = {r1, r2}
    MaxRows = 2
    Starts = {0, 1}
    Configs <- OneConfig
    OwnTimes = {}
    MaxFaults = 1
INVARIANTS TypeOK StaleEventsExplained
PROPERTIES KeepsDiary HoldIsResolved
