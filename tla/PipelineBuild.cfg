CONSTANTS
    NoRun = NoRun
    Runs = {r1, r2}
    Requests = {q1, q2, q3}
    Kinds = {"start", "resume", "redirect"}
    Phases <- JoinPhases
    DependsOn <- JoinDependsOn
    MaxParallel = 2
    MaxRestarts = 0
SPECIFICATION Spec
INVARIANTS
    BuiltHasArtifact
    LayerBarrier
SYMMETRY Symmetry
CHECK_DEADLOCK FALSE
