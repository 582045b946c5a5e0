SPECIFICATION Spec
CONSTANTS
    Callers = {c1, c2}
    Setups <- MCSetups
INVARIANTS
    CacheIsLeastRecentlyUsed
    PlansAreCurrent
    PlansFit
    NothingLeftBehind
SYMMETRY Interchangeable
