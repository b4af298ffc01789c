SPECIFICATION Spec
CONSTANTS
    Req = {"captions"}
    Tool <- MCTool
    Blocking = {"captions"}
    Unsupported = {}
    Checksums = None
    SpecResolved = TRUE
    MaxCycles = 1
    MaxCrashes = 1
    None = None
CHECK_DEADLOCK FALSE
PROPERTY InspectionEnds
