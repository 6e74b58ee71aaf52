SPECIFICATION Spec
CONSTANTS
    MaxCalls = 6
    MaxLines = 6
INVARIANT
    PaymentPromptReturns
CHECK_DEADLOCK FALSE
