CONSTANTS
    chA = chA
    chB = chB
    nl = nl
    Types = {2, 5}
    TypeTable <- MCTypeTable
    CatchLists <- MCCatchLists
    MaxTries = 3
    MaxThrows = 3
    Paths = {"file", "devtty"}
    TtyPath = "devtty"
    Fds = {3, 4}
    Magic = 4
    Args <- MCArgs
    EnvLen = 1
    MaxCalls = 6
    BUFSIZ = 3
    NL = nl
    Texts <- MCTexts
    Sizes = {1, 3, 5}
    Sources <- MCSources
    MaxGiven = 6
    MaxFails = 2
    Keys = {chA, chB}
    SP = " "
    LINE = 2
    Slack = 1
    MaxLine = 3
    MaxHist = 2
    MaxSort = 6
    SortKeys = {1, 2, 3}
    Days <- MCDays
    Times <- MCTimes
    LONG = 256
    Numerals <- MCNumerals
    Bases = {0, 2, 8, 10, 16, 36}
    Formats <- MCFormats
    BufferSizes = {0, 1, 4, 40}
SPECIFICATION MCSpec
INVARIANTS
    StreamsRight
    Unwinds
    HostCallsRight
    EditorRight
    SortsRight
    DatesRight
    TextRight
    ArithmeticRight
PROPERTIES
    LinesGoOut
CHECK_DEADLOCK FALSE
