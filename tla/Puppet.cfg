CONSTANTS
    Node <- Nodes
    MS = "ms"
    Task <- Tasks
    NodeOf <- TaskNode
    Key <- TaskKey
    Replaces <- NoneReplaced
    Transient <- None
    Plans <- Various
    Persisted <- Earlier
    MixedCase = {}
    McoErrors = TRUE
    Faults = {"query", "taskless", "stop"}
    Timeout = 2
    PollCount = 1
    TasklessRetries = 1
    MaxVersion = 1
    MaxReports = 2
    MaxRuns <- ResumeFirst
SPECIFICATION Spec
INVARIANTS  PhaseOutcome LastGoodKept
PROPERTY PhaseEnds
CHECK_DEADLOCK FALSE
