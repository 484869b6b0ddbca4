SPECIFICATION Spec
CONSTANTS
    N = 2
    MaxFaults = 2
    MaxSaves = 0
INVARIANT RestoreBackupRemains
CHECK_DEADLOCK FALSE
