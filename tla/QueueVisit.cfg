SPECIFICATION FairSpec
CONSTANTS
    Records = {1, 2, 3}
    PageSize = 2
    PageFaults = {"page", "emptyBody"}
    LocalEnabled = TRUE
    LocalBatch = 2
    LocalFails = TRUE
    BatchModes = {TRUE, FALSE}
    PollInterval = 2
    Timeouts = {2, 3}
    CallFaults = {"call", "submit", "poll", "stream", "result"}
    Removable = {1, 2, 3}
    MaxCandidates = 3
    BatchSize = 2
INVARIANT TypeOK
INVARIANT SteadyComplete
INVARIANT StuckIsAnswered
INVARIANT AskedOnce
PROPERTY AnswersInOrder
PROPERTY ReadInTime
PROPERTY VisitEnds
CHECK_DEADLOCK FALSE
