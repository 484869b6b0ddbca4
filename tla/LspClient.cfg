SPECIFICATION FairSpec
CONSTANTS
    Script <- MCMove
    PipeCap = 2
    MaxEdits = 2
    CanFail = TRUE
    CanCancel = TRUE
INVARIANTS
    OwnAnswer
    
    ServerReaped
PROPERTY Terminates
CHECK_DEADLOCK FALSE
