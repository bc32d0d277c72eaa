CONSTANTS
    Subs = {s1}
    Reqs = {q1, q2}
    MaxRuns = 2
    Slots = 1
    Limit = 1
    MaxFaults = 1
    MaxCrashes = 1
SPECIFICATION JdSpec
INVARIANTS JdTypeOK SlotsHeldByWorkers ScoreIsExplained LastMailIsTrue RunRecordsAreTrue
PROPERTIES ReviewsEnd RunsTakeTurns
CHECK_DEADLOCK FALSE
