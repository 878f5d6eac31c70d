SPECIFICATION Spec
CONSTANTS
    NWorkers = 2
    NumNodes = 2
    TotalSamples = 4
    BatchSize = 2
    Epochs = 1
    Optimizer = "adam"
    Order <- MCOrder
INVARIANT
    TrainsOwnCopy
CHECK_DEADLOCK FALSE
