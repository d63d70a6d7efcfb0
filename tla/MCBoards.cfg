CONSTANTS
    IrBus = {}
    Programs <- MCPrograms
    PowerOn <- MCPowerOn
SPECIFICATION NetSpec
INVARIANTS
    SimulatorSound
PROPERTIES
    ImplementsIsa
CHECK_DEADLOCK FALSE
