SPECIFICATION Spec
CONSTANTS
    UserVars <- MCUserVars
    Programs <- LongOrder
    Fuel = 60
    MachFuel = 500
    Params <- MCParams
    RetType = "int16"
INVARIANT LongsCompareRight
