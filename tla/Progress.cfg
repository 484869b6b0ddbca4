SPECIFICATION FairSpec
CONSTANTS
    Tokens = {t1, t2}
    Quiesce = 2
    Settle = 2
    MaxBegins = 5
INVARIANTS
    NoLostWakeup
PROPERTY Returns
