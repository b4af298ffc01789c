SPECIFICATION RunSpec
CONSTANTS
    Document <- MCDocument
    Packages <- MCTwins
    Batches <- MCOneDemand
    Titles = {"Spec"}
    Extras <- MCExtras
    MaxAttempts = 2
    MaxCycles = 3
    ConvertedName <- MCConvertedName
INVARIANT NeverStranded
