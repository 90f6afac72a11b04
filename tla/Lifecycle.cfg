SPECIFICATION TracedSpec
CONSTANTS
    NumInstances = 2
    Daemon = TRUE
    Jitter = TRUE
    DeleteEnabled = TRUE
    DryRun = FALSE
    Faults = {"deadline", "signal", "kill", "persist", "webhook"}
    SpanBound = 4
    AgentFails = TRUE
INVARIANT TracedTypeOK
INVARIANT TraceConnected
INVARIANT EvalsJoin
PROPERTY ShutsDown
PROPERTY RunIsReported
PROPERTY KeepsRunning
CHECK_DEADLOCK FALSE
