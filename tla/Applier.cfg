SPECIFICATION Spec
CONSTANTS
    N = 3
    MaxFaults = 3
    MaxSaves = 1
INVARIANTS
    OriginalKept
    NamedBackupRemains
    NoSilentLitter
PROPERTIES
    MovedVersionReturns
    AtomicSpec
CHECK_DEADLOCK FALSE
