SPECIFICATION Spec
CONSTANTS
    NWorkers = 2
    NumNodes = 2
    TotalSamples = 7
    BatchSize = 2
    Epochs = 1
    Optimizer = "adam"
    Order <- MCOrder
INVARIANTS
    TypeOK
    EveryWaitHasAChild
    AccumulatorIsBatch
    AppliedOnce
    MeanIsOfWholeShares
    WeightsReachTestedCopy
    NoLateFault
    MappingRestored
CHECK_DEADLOCK FALSE
