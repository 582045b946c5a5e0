CONSTANTS
    Order <- MCOrder
    Steps <- MCSteps
    Configs <- RetriedInPlace
SPECIFICATION Spec
INVARIANTS
    Converged
