SPECIFICATION Spec
CONSTANTS
    Sessions = {s1, s2, s3}
    Played = {s2}
    Visitors = {v1}
    Arrivals <- MCArrivals
    Items = {a1, a2}
    FamilyOf <- OneFamily
    Slots <- OneSlot
    BlockCount = 1
    Choices = {"correct"}
    Strategies = {"encode"}
    MaxTries = 1
    MaxFaults = 1
    NoVisitor = NoVisitor
    NoItem = NoItem
    s1 = s1 s2 = s2 s3 = s3 v1 = v1 a1 = a1 a2 = a2
SYMMETRY ItemSymmetry
INVARIANTS TypeOK GradedOnOwnItem RepeatDrawsUnseen NoSilentLoss
PROPERTIES FirstAnswerStands FinishKeepsFirst
CHECK_DEADLOCK FALSE
