SPECIFICATION FairSpec
CONSTANTS
    NumInstances = 1
    Files = {1, 2, 3}
    Roots = {1, 2}
    RootsOf <- NestedRoots
    FilesUnder <- NestedUnder
    SeriesOf <- OneSeries
    AllowedRoots = {1, 2}
    AllowedFiles = {1, 2, 3}
    Protected = {}
    Sidecars = {2}
    Samples = {3}
    SampleLimit = 2
    Sizes = {1, 2}
    MaxDeletes = 2
    MaxBytes = 3
    MaxCandidates = 2
    BatchSize = 1
    BatchMode = FALSE
    RulesDisabled = FALSE
    DeleteEnabled = TRUE
    DryRuns = {TRUE, FALSE}
    Faults = {"deadline", "model", "move", "emptyBody"}
    Changes = {"vanish"}
    MovesBound = 1
INVARIANT DeleteCap
INVARIANT ByteCap
PROPERTY MissingCorrected
PROPERTY OrphanConsidered
PROPERTY Inert
