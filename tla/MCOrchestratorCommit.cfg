SPECIFICATION Spec
CONSTANTS
    Req = {"manifest", "checksums"}
    Tool <- MCTool
    Blocking = {"manifest", "checksums"}
    Unsupported = {}
    Checksums = "checksums"
    SpecResolved = TRUE
    MaxCycles = 1
    MaxCrashes = 1
    None = None
CHECK_DEADLOCK FALSE
PROPERTY RecoveryCommits
