SPECIFICATION Spec
CONSTANTS
    Users = {u1}
    Sids = {}
    Reqs = {r1, r2}
    Never = Never
    Nobody = Nobody
    NoGrant = NoGrant
    Calls <- LifecycleCalls
    AcceptTTL = 1
    PendingTTL = 0
    WarnWindow = 1
    Extensions = {1}

    Dates = {}
    Grants = {Never}
    MaxNow = 1
    MaxTokens = 2
    MaxResets = 2
    MaxExpiry = 2
    MaxFaults = 1
SYMMETRY ReqSymmetry
INVARIANTS TypeOK DecisionPerVerification PasswordChangeSpendsToken

CHECK_DEADLOCK FALSE
