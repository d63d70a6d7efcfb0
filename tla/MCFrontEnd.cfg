SPECIFICATION Spec
CONSTANTS
    UserVars <- MCUserVars
    Programs <- MCPrograms
    Fuel = 100
    MachFuel = 500
    Params <- MCParams
    RetType = "int16"
INVARIANTS
    PrimsRight
    MachsMeanSource
PROPERTY ChangesShorten
