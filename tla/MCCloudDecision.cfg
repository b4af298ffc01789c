SPECIFICATION Spec
CONSTANTS
    Container = {c1, c2}
    Run = {r1}
    Initial = {}
    Ttl = 1
    MayOverrun = FALSE
    MaxTokens = 2
    MaxKills = 1
    None = None
    Absent = Absent
    Awaiting = Awaiting
INVARIANTS
    TypeOK
    AnswerDurable
PROPERTY ResolutionStands
SYMMETRY Interchangeable
CHECK_DEADLOCK FALSE
