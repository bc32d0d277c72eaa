CONSTANTS
    Starts = {1, 2}
    Lengths = {1, 2}
    Default = 1
    Close = 3
    MaxRows = 2
    MaxCalls = 2
    MaxFaults = 1
SPECIFICATION Spec
INVARIANTS TakenIsNotOffered HeldIsListed
CHECK_DEADLOCK FALSE
