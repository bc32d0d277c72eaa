SPECIFICATION Spec
CONSTANTS
    Reqs = {r1}
    MaxRows = 2
    Starts = {0, 1}
    Configs <- TwoConfigs
    OwnTimes <- Lunch
    MaxFaults = 1
INVARIANTS OwnersTimeRespected OfferedCanBeClaimed
