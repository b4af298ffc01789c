SPECIFICATION Spec
CONSTANTS
    x1 = x1
    Proc = {p1, p2}
    Status = {"INSPECTING"}
    Action = {a1, a2}
    Auth = {x1}
    AuthOf <- MCAuthOf
    MaxTransitions = 1
    MaxCrashes = 0
    None = None
    Orphan = Orphan
INVARIANTS
    SingleUse
PROPERTIES
    LedgerAppendOnly
