SPECIFICATION Spec
CONSTANTS
    NumInstances = 2
    Files = {1, 2}
    Roots = {1, 2}
    RootsOf <- OwnRoots
    FilesUnder <- OwnUnder
    SeriesOf <- OneSeries
    AllowedRoots = {1, 2}
    AllowedFiles = {1, 2}
    Protected = {}
    Sidecars = {}
    Samples = {}
    SampleLimit = 2
    Sizes = {1}
    MaxDeletes = 1
    MaxBytes = 1
    MaxCandidates = 0
    BatchSize = 1
    BatchMode = FALSE
    RulesDisabled = FALSE
    DeleteEnabled = TRUE
    DryRuns = {FALSE}
    Faults = {}
    Changes = {}
    MovesBound = 1
INVARIANT DeleteCapPerRun
