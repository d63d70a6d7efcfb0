CONSTANTS
    Psects = {1, 2, 3}
    Symbols = {"boot", "ext", "unused", "other"}
    BootSym = "boot"
    ObjectLists <- MCObjects
    SourceLists <- MCSources
    TextPsect = 1
    EMITBUF = 4
    Bodies <- MCBodies
    ParentLists <- MCParentLists
    Initialisers <- MCInitialisers
    MaxTypes = 4
SPECIFICATION MCSpec
INVARIANTS
    LinksRight
    ImageMeansSource
    StructsRight
CHECK_DEADLOCK FALSE
