CONSTANTS
    NoRun = NoRun
    Runs = {r1, r2}
    Requests = {q1, q2, q3}
    Kinds = {"start", "resume", "pause", "cancel", "redirect"}
    Phases <- ChainPhases
    DependsOn <- ChainDependsOn
    MaxParallel = 2
    MaxRestarts = 1
SPECIFICATION Spec
INVARIANTS
    TypeOK
    RowHasOneWriter
    BuiltHasArtifact
    NoStrandedStage
    CompletedMeansDeployed
    DeployedMeansValidated
    RegistryEntryIsLive
PROPERTIES
    WorkIsKept
    FollowsLife
SYMMETRY Symmetry
CHECK_DEADLOCK FALSE
