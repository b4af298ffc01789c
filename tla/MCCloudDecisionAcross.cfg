SPECIFICATION Spec
CONSTANTS
    Container = {c1, c2}
    Run = {r1, r2}
    Initial = {r1}
    Ttl = 1
    MayOverrun = FALSE
    MaxTokens = 2
    MaxKills = 0
    None = None
    Absent = Absent
    Awaiting = Awaiting
PROPERTY ResolutionStands
CHECK_DEADLOCK FALSE
