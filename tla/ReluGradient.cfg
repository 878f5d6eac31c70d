SPECIFICATION Spec
CONSTANTS
    Prime = 101
    Net <- MCSmallNet
    InitialWeights <- MCAnyWeights
    DataSets <- MCTwoSamples
    Builds = {"numa"}
    Optimizers = {"sgd"}
    BatchSize = 2
    LearningRate = 1
    Losses = {"mse"}
    Act <- Relu
    ActD <- ReluD
    Output <- Own
    OutputD <- One
    Root <- MCRoot
    beta = 4
    beta_1 = 3
    beta_2 = 5
    Slope <- ReluD
INVARIANT GradientOfError
CHECK_DEADLOCK FALSE
