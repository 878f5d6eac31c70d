SPECIFICATION Spec
CONSTANTS
    NWorkers = 0
    NumNodes = 2
    TotalSamples = 4
    BatchSize = 2
    Epochs = 1
    Optimizer = "adam"
    Order <- MCOrder
INVARIANT
    EveryEpochTrains
CHECK_DEADLOCK FALSE
