CONSTANTS
    w1 = w1
    w2 = w2
    p1 = p1
    p2 = p2
    none = none
    Workers <- OneWorker
    Passes <- OnePass
    NoPass = none
    NoThread = NoThread
    HD = FALSE
    Clients <- RelockRpcs
    GuiUser = FALSE
SPECIFICATION Spec
PROPERTY FullUnlockEnds
