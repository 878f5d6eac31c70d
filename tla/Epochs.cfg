SPECIFICATION FairSpec
CONSTANTS
    NWorkers = 2
    NumNodes = 1
    TotalSamples = 2
    BatchSize = 2
    Epochs = 2
    Optimizer = "sgd"
    Order <- MCOrder
PROPERTIES
    ParentWorksAlone
    EarlierEpochsKept
    ImplementsForkJoin
    EpochsEnd
    WorkersEnd
CHECK_DEADLOCK FALSE
