SPECIFICATION FairSpec
CONSTANTS
    MaxCalls = 6
    MaxLines = 5
INVARIANTS
    TypeOK
    EachYesConfirmsOnce
    AnswersLeaveNoThread
    AnswersInTimeCount
    JoinWaitsForNoLock
PROPERTIES
    WaitsEnd
    AnsweredPromptReturns
CHECK_DEADLOCK FALSE
