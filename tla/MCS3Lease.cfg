SPECIFICATION LeaseSpec
CONSTANTS
    Container = {c1, c2, c3}
    Run = {r1}
    Ttl = 2
    MayOverrun = TRUE
    MaxTokens = 4
    MaxKills = 1
    None = None
INVARIANTS
    Exclusive
PROPERTY LiveLockStands
CHECK_DEADLOCK FALSE
