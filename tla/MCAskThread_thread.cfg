CONSTANTS
    AskHistoryTurns = 1
    MaxMounts = 2
    MaxAsked = 3
    MaxFaults = 1
SPECIFICATION Spec
INVARIANTS FollowUpsAreInformed QuestionsStay WaitIsTimed
PROPERTIES LeavingIsTold QuestionsSettle
CHECK_DEADLOCK FALSE
