\* Two stages, the first of them local, deployed and then trained for two
\* epochs of two batches of two microbatches (one update each) and one
\* validation batch.
SPECIFICATION DeployFairSpec
CONSTANTS
    NumWorkers = 2
    Microbatches = 2
    Epochs = 2
    TrainBatches = 2
    ValBatches = 1
    AccSteps = 2
    Timeouts = TRUE
    Model <- MCModel
    Ratios <- MCRatios
    Local = 1
    Named = {}
    Sockets = 1
INVARIANTS
    DeployedReady
    SplitMessagesMeet
    ModeAgreement
    ResidualsReady
    QuietBetweenBatches
    FailsOnlyOnTimeout
PROPERTIES
    ImplementsBatches
    Terminates
\* The program ends: training is over and every worker has left its loop, or
\* the stages were not deployed.
CHECK_DEADLOCK FALSE
