SPECIFICATION DriverSpec
CONSTANTS
    NumNodes = 2
    PdeSize = 1024
    Nets <- MCOneNet
    NWorkers = 2
    Epochs = 2
INVARIANT ReportOnce
CHECK_DEADLOCK FALSE
