SPECIFICATION TracedSpec
CONSTANTS
    NumInstances = 2
    Daemon = FALSE
    Jitter = TRUE
    DeleteEnabled = TRUE
    DryRun = TRUE
    Faults = {}
    SpanBound = 2
    AgentFails = FALSE
PROPERTY DryRunKeepsTrash
CHECK_DEADLOCK FALSE
