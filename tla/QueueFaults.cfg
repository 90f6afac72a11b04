SPECIFICATION FairSpec
CONSTANTS
    NumInstances = 2
    Records = {1, 2}
    InstanceOf <- EachInstances
    DownloadOf <- PairDownloads
    NoDownload = NoDownload
    pack = pack
    GraceRuns = 2
    MaxRemovals = 1
    MaxCandidates = 0
    BatchSize = 0
    DryRuns = {TRUE, FALSE}
    LocalEnabled = FALSE
    BatchMode = TRUE
    Faults = {"crash", "deadline", "fetch", "load", "model", "lostReply", "commit"}
    StreakBound = 2
    PerformedBound = 2
INVARIANT TypeOK
INVARIANT EligibleBacked
INVARIANT DryRunInert
PROPERTY RunsEnd
PROPERTY StuckIsTriaged
