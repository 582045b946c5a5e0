CONSTANTS
    Order <- MCOrder
    Steps <- MCSteps
    Configs <- MCConfigs
SPECIFICATION FairSpec
INVARIANTS
    NothingOutlivesRun
    ChildrenFirst
    Converged
    FirstFailureReported
PROPERTY Terminates
