SPECIFICATION DriverSpec
CONSTANTS
    NumNodes = 2
    PdeSize = 1024
    Nets <- MCNets
    NWorkers = 2
    Epochs = 2
INVARIANTS
    SizesAreExact
    UsedCellsDisjoint
    ModelIsInitialised
    DriverTypeOK
    LinesFollow
    EndsWithReport
    FreeLoopReadsMapped
CHECK_DEADLOCK FALSE
