SPECIFICATION Spec
CONSTANTS
    Names <- MCNames
    Batches <- MCBatches
    Start <- MCStart
    MaxFaults = 0
    MaxOps = 2
    WithDirectories = TRUE
INVARIANT BackupsDiscarded
CHECK_DEADLOCK FALSE
