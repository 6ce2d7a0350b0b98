SPECIFICATION Spec
CONSTANTS
    m1 = m1
    m2 = m2
    w1 = w1
    w2 = w2
    Requests = {q1, q2}
    Works = {w1, w2}
    Members = {m1}
    Author <- OneMember
    Kinds = {"clone", "crew"}
    Faults = {}
    MaxSandboxes = 1
    MaxOps = 3
INVARIANT EveryBuildIsCommitted
CHECK_DEADLOCK FALSE
