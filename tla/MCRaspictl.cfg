SPECIFICATION HistSpec
CONSTANTS
    IrBus = {}
    Runs <- MCRuns
    PowerOn <- MCPowerOn
    RandOpcodes <- MCOpcodes
    RandData <- MCData
    MaxReads = 16
INVARIANTS
    InStep
    RandMemSound
    NohwSame
PROPERTIES
    InterruptsTaken
    Transparent
    MainProgress
    ImplementsIsa
    Guarded
CHECK_DEADLOCK FALSE
