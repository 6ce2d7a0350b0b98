SPECIFICATION Spec
CONSTANTS
    Requests = {q1, q2}
    Kinds = {"use", "destroy", "preview", "stop", "terminal"}
    Faults = {"create", "start"}
    MaxApps = 2
    MaxRestarts = 1
INVARIANTS
    RunningCabinIsTracked
PROPERTY CabinsEnd
CHECK_DEADLOCK FALSE
