SPECIFICATION Spec
CONSTANTS
    a1 = a1
    a2 = a2
    x1 = x1
    x2 = x2
    Proc = {p1}
    Status = {"INSPECTING", "FINDINGS_READY"}
    Action = {a1, a2}
    Auth = {x1, x2}
    AuthOf <- MCAuthOf
    MaxTransitions = 2
    MaxCrashes = 2
    None = None
    Orphan = Orphan
INVARIANTS
    LedgerSound
    StartIsPaid
    SnapshotCurrent
    OnlyTimeouts
PROPERTIES
    ImplementsAtomicStore
    JournalsDrain
