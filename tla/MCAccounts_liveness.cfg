SPECIFICATION FairSpec
CONSTANTS
    Users = {u1}
    Sids = {s1}
    Reqs = {r1}
    Never = Never
    Nobody = Nobody
    NoGrant = NoGrant
    Calls <- SessionCalls
    AcceptTTL = 1
    PendingTTL = 0
    WarnWindow = 1
    Extensions = {1}
    Dates = {}
    Grants = {}
    MaxNow = 2
    MaxTokens = 1
    MaxResets = 1
    MaxExpiry = 2
    MaxFaults = 1
INVARIANTS OneWarningPerPeriod
PROPERTIES NoEarlyCut PendingIsResolved OverdueIsCut OverdueSessionsEnd
CHECK_DEADLOCK FALSE
