CONSTANTS
    Phases <- MCPhases
    Foreign <- MCForeign
SPECIFICATION Spec
INVARIANTS
    DependenciesComeFirst
    EveryPhaseOnce
    LayersAreEarliest
    RejectsExactlyBadPlans
PROPERTY LoopEnds
CHECK_DEADLOCK FALSE
