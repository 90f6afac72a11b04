SPECIFICATION Spec
CONSTANTS
    NumInstances = 1
    Files = {1, 2, 3}
    Roots = {1, 2}
    RootsOf <- WideRoots
    FilesUnder <- WideUnder
    SeriesOf <- TwoSeries
    AllowedRoots = {1}
    AllowedFiles = {2, 3}
    Protected = {3}
    Sidecars = {}
    Samples = {}
    SampleLimit = 2
    Sizes = {0, 1}
    MaxDeletes = 1
    MaxBytes = 1
    MaxCandidates = 0
    BatchSize = 0
    BatchMode = TRUE
    RulesDisabled = FALSE
    DeleteEnabled = TRUE
    DryRuns = {FALSE}
    Faults = {"tracked", "roots", "rescan", "model", "move", "stuckSource",
              "unreadable"}
    Changes = {"write", "age", "track", "untrack"}
    MovesBound = 1
INVARIANT TypeOK
INVARIANT SnapshotComplete
PROPERTY TakenWithinRails
PROPERTY TrackedSpared
