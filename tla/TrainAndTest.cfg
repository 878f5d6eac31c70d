SPECIFICATION TrainSpec
CONSTANTS
    Prime = 101
    Net <- MCNet
    InitialWeights <- MCWeights
    DataSets = {}
    Builds = {"numa", "serial"}
    Optimizers <- MCOptimizers
    BatchSize = 2
    LearningRate = 2
    Losses = {"mse", "ce"}
    Act <- Relu
    ActD <- SomeD
    Output <- AllOf
    OutputD <- SomeD
    Root <- MCRoot
    beta = 4
    beta_1 = 3
    beta_2 = 5
    Slope <- ReluD
    NSamples = 3
    NTestSamples = 2
    NDims = 2
    NClasses = 2
    NoFile = NoFile
    Files <- MCFiles
    Garbage <- MCGarbage
    Deviation <- MCRoot
    Varies <- MCVaries
    Trained = 3
    Epochs = 2
    RandMax = 2
    InitLR = 3
    Decay <- MCDecay
    Log <- MCLog
INVARIANTS
    TrainTypeOK
    ForwardIsFunction
    DeltasArePathSums
    MomentsFollowGradients
    MetricsOfEpoch
PROPERTIES
    BatchIsOneStep
    SetsAreComparable
CHECK_DEADLOCK FALSE
