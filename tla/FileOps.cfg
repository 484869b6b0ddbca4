SPECIFICATION FairSpec
CONSTANTS
    Names <- MCNames
    Batches <- MCBatches
    Start <- MCStart
    MaxFaults = 2
    MaxOps = 3
    WithDirectories = TRUE
INVARIANTS
    SuccessMeansBatch
    OneFaultRollsBack
    ContentKept
    FileBackupsDiscarded
PROPERTIES
    Returns
CHECK_DEADLOCK FALSE
