SPECIFICATION Spec
CONSTANTS
    x1 = x1
    Proc = {p1, p2}
    Status = {"INSPECTING"}
    Action = {a1}
    Auth = {x1}
    AuthOf <- MCAuthOf
    MaxTransitions = 0
    MaxCrashes = 0
    None = None
    Orphan = Orphan
INVARIANT NoDuplicateStart
