SPECIFICATION Spec
CONSTANTS
    NumInstances = 2
    Records = {1, 2, 3}
    InstanceOf <- TwoQueueInstances
    DownloadOf <- TwoQueueDownloads
    NoDownload = NoDownload
    pack = pack
    GraceRuns = 2
    MaxRemovals = 1
    MaxCandidates = 2
    BatchSize = 1
    DryRuns = {FALSE}
    LocalEnabled = TRUE
    BatchMode = FALSE
    Faults = {"model"}
    StreakBound = 3
    PerformedBound = 3
INVARIANT ConsecutiveStreak
INVARIANT RemovalCap
PROPERTY StreakKept
