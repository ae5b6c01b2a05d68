SPECIFICATION ListsSpec
CONSTANTS
    Views = {v1, v2}
    Users = {u1, u2}
    MaxListed = 1
    MaxSet = 1
SYMMETRY Symmetry
INVARIANTS
    ViewsInv
    ReadyShownUnlessLate
    CrashedOnlyIfLost
    
CHECK_DEADLOCK FALSE
