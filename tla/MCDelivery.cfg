CONSTANTS
    Jobs = {j, k}
    MaxVersion = 3
    MaxRuns = 3
    SampledIds <- MCSampledIds
    Settings <- MCSettings
SPECIFICATION Spec
INVARIANTS
    ConvergedWhereverServed
    RoutesAreIndependent
    SpansTellRuns
    UnhealthyWorkersConvergeNothing
    AnnotationsFit
SYMMETRY Symmetry
CHECK_DEADLOCK FALSE
