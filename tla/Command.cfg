SPECIFICATION Spec
CONSTANTS
    Requests <- MCRequests
    Selections <- MCSelections
    RenameTries = 3
    FindTries = 2
    ActionTries = 2
INVARIANTS
    
    WritesAreMeantAndTold
    SameExitInBothModes
    ServerIsStopped
    UnsettledIsNoAnswer
    OpenedBeforeAsked
