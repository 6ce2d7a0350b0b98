SPECIFICATION Spec
CONSTANTS
    m1 = m1
    m2 = m2
    w1 = w1
    w2 = w2
    Requests = {q1, q2}
    Works = {w1, w2}
    Members = {m1, m2}
    Author <- TwoMembers
    Kinds = {"clone", "crew", "branch", "branches", "commit", "push", "refs", "files", "conflicts", "cleanup", "pr", "run", "status", "destroy"}
    Faults = {"refuse", "exit", "timeout", "die"}
    MaxSandboxes = 3
    MaxOps = 3
INVARIANTS
    RegisteredRepoIsWhole
    DeliveredWhenAlone
PROPERTY SandboxesAreKept
SYMMETRY Symmetry
CHECK_DEADLOCK FALSE
