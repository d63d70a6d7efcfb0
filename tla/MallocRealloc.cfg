CONSTANTS
    OVERHEAD = 2
    MINSIZE = 4
    EXTENDSIZE = 8
    AddrSpace = 64
    EndRw = 5
    StackAts = {40, 48}
    Sizes = {1, 4, 9}
    Counts = {}
    ElementSizes = {}
SPECIFICATION Spec
INVARIANT ReallocFindsRoom
CHECK_DEADLOCK FALSE
