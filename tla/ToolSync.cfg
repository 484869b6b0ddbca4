SPECIFICATION FairSpec
CONSTANTS
    Procs = {p1}
    Versions = {v1, v2}
    MaxSyncs = 4
    MaxFaults = 1
INVARIANTS
    CurrentIsGenuine
    LeftoversDoNotFail
PROPERTIES
    SuccessInstalls
    StaysRunnable
    Ends
CHECK_DEADLOCK FALSE
