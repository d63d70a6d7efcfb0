CONSTANTS
    IrBus = {}
    Scenes <- MCScenes
    MaxInsts = 1
SPECIFICATION LockSpec
INVARIANTS
    CheckPasses
    Agrees
    OneHot
CHECK_DEADLOCK FALSE
