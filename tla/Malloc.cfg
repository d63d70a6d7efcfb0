CONSTANTS
    OVERHEAD = 2
    MINSIZE = 4
    EXTENDSIZE = 8
    AddrSpace = 64
    EndRw = 5
    StackAts = {32, 40}
    Sizes = {1, 4, 9}
    Counts = {2, 11}
    ElementSizes = {4, 6}
SPECIFICATION FairSpec
INVARIANTS
    HeapIntact
    Owned
PROPERTIES
    ImplementsAllocator
    MallocReturns
CHECK_DEADLOCK FALSE
