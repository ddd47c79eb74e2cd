CONSTANTS
    w1 = w1
    w2 = w2
    p1 = p1
    p2 = p2
    none = none
    Workers <- TwoWorkers
    Passes <- TwoPasses
    NoPass = none
    NoThread = NoThread
    HD = TRUE
    Clients <- Lock2Rpcs
    GuiUser = FALSE
SPECIFICATION Spec
INVARIANT LockedCheckHolds NoKeyUseWhileStakingOnly
PROPERTY ImplementsAbs
