CONSTANTS
    NoRun = NoRun
    Runs = {r1, r2}
    Requests = {q1, q2}
    Kinds = {"start", "resume", "pause", "cancel", "redirect"}
    Phases <- JoinPhases
    DependsOn <- JoinDependsOn
    MaxParallel = 2
    MaxRestarts = 0
SPECIFICATION FairSpec
PROPERTIES
    RequestsAreAnswered
    RunsEnd
    RowIsReleased
CHECK_DEADLOCK FALSE
