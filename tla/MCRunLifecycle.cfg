SPECIFICATION Spec
CONSTANTS
    tier1 = tier1
    tier2 = tier2
    Run = {r1, r2}
    Decision = {d1}
    Option = {tier1, tier2}
    Tier <- MCTier
    MaxCycles = 2
    None = None
CHECK_DEADLOCK FALSE
INVARIANTS
    PendingCoherent
PROPERTY StepDisciplined
