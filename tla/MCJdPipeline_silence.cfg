CONSTANTS
    Subs = {s1}
    Reqs = {q1}
    MaxRuns = 1
    Slots = 1
    Limit = 1
    MaxFaults = 0
    MaxCrashes = 1
SPECIFICATION JdSpec
PROPERTY RestartIsMailed
CHECK_DEADLOCK FALSE
