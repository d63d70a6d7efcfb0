SPECIFICATION Spec
CONSTANTS
    UserVars <- MCUserVars
    Programs <- CountDown
    Fuel = 60
    MachFuel = 500
    Params <- MCParams
    RetType = "int16"
INVARIANT OptimizerKeepsMeaning
