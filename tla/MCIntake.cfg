SPECIFICATION RunSpec
CONSTANTS
    Document <- MCDocument
    Packages <- MCPackages
    Batches <- MCBatches
    Titles = {"Spec"}
    Extras <- MCExtras
    MaxAttempts = 2
    MaxCycles = 3
    ConvertedName <- MCConvertedName
INVARIANTS
    TypeOK
    SourceOwnsSeverity
    ModelOnlyTightens
    NoOpenConflict
    AdmittedIsPlannable
    PlanCovers
    MeasuredIsDecided
    VerdictIsTrue
    AdapterAgrees
    TwoGatesAgree
    ShownAsJudged
    DecisionShown
