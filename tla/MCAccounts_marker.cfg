SPECIFICATION Spec
CONSTANTS
    Users = {u1}
    Sids = {}
    Reqs = {r1, r2}
    Never = Never
    Nobody = Nobody
    NoGrant = NoGrant
    Calls <- WarningCalls
    AcceptTTL = 1
    PendingTTL = 0
    WarnWindow = 1
    Extensions = {1}

    Dates = {}
    Grants = {Never}
    MaxNow = 2
    MaxTokens = 2
    MaxResets = 1
    MaxExpiry = 2
    MaxFaults = 0
PROPERTIES ExpiryChangeClearsMarker
CHECK_DEADLOCK FALSE
