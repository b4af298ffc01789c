SPECIFICATION Spec
CONSTANTS
    Req = {"loudness", "captions", "manifest", "checksums"}
    Tool <- MCTool
    Blocking = {"loudness", "captions", "manifest", "checksums"}
    Unsupported = {"captions"}
    Checksums = "checksums"
    SpecResolved = TRUE
    MaxCycles = 3
    MaxCrashes = 1
    None = None
CHECK_DEADLOCK FALSE
INVARIANTS
    TypeOK
    DeliveryVerified
    PaidOnce
    AttemptsBounded
    CountsFromLedger
    NeverRefusedLate
    NoDanglingAction
    EndsMatchOutputs
    ManifestFollows
    EvidenceFinal
PROPERTIES
    ImplementsLifecycle
    EvidenceArrives
    Settles
