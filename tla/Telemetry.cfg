SPECIFICATION Spec
CONSTANTS
    Recorders = {r1, r2}
    MaxDirs = 2
    MaxBytes = 4
    MaxLog = 2
    Sizes = {1, 3}
    Earlier = {o1, o2}
    MaxKills = 1
SYMMETRY Symmetry
INVARIANTS
    RetentionHolds
    
    UndisturbedIsRecorded
