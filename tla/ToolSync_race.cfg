SPECIFICATION Spec
CONSTANTS
    Procs = {p1, p2}
    Versions = {v1}
    MaxSyncs = 2
    MaxFaults = 0
INVARIANT CurrentIsGenuine
CHECK_DEADLOCK FALSE
