CONSTANTS
    Threads = {t1, t2}
    NsPerSec = 2
    MaxTime = 4
    MaxCalls = 4
    G_DATA = {d0, d1}
    MaxRetries = 2
    MaxLag = 2
    Cons = {"conapins", "concpins"}
    Values = {"high", "low"}
    SeqMod = 2
    MaxRuns = 2
    MaxQueue = 2
    MaxNoise = 1
    IrBus = {}
    Benches <- MCBenches
    RandOperands <- MCOperands
    StackPowerOn <- MCPowerOn
SPECIFICATION MCSpec
INVARIANTS
    SingleThread
    NoLostWakeup
    PinsFollow
    TesterRight
PROPERTIES
    TimeServed
    ImplementsPins
    UpToDate
    Answered
CHECK_DEADLOCK FALSE
