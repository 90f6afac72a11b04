SPECIFICATION Spec
CONSTANTS
    NumInstances = 2
    Files = {1}
    Roots = {1}
    RootsOf <- SharedRoot
    FilesUnder <- SharedUnder
    SeriesOf <- OneSeries
    AllowedRoots = {1}
    AllowedFiles = {1}
    Protected = {}
    Sidecars = {}
    Samples = {}
    SampleLimit = 2
    Sizes = {1}
    MaxDeletes = 1
    MaxBytes = 1
    MaxCandidates = 0
    BatchSize = 1
    BatchMode = FALSE
    RulesDisabled = FALSE
    DeleteEnabled = TRUE
    DryRuns = {FALSE}
    Faults = {}
    Changes = {}
    MovesBound = 1
PROPERTY ReferencedSpared
