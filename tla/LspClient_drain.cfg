SPECIFICATION FairSpec
CONSTANTS
    Script <- MCTwoRequests
    PipeCap = 8
    MaxEdits = 0
    CanFail = TRUE
    CanCancel = TRUE
PROPERTY CancelledReturns
CHECK_DEADLOCK FALSE
