SPECIFICATION FairSpec
CONSTANTS
    j1 = j1
    j2 = j2
    j3 = j3
    Phase <- ClustersPhase
    Req <- ClustersReq
    Kind <- ClustersKind
    Task <- ClustersTask
    PhaseOf <- ClustersPhaseOf
    Item <- ClustersItem
    Acting <- ClustersActing
    JobSlot = {j1, j2}
    MaxQueue = 2
    Patient = FALSE
    Requests = {"create", "run", "resume", "stop", "delete", "change", "shutdown"}
    LongRequests = {}
    Faults = {"job"}
INVARIANTS
    PhaseOrder
    NoTaskLeftRunning
    NoErrorMeansComplete
    BackupOfSuccessOnly
PROPERTIES
    AppliedWhenDone
    LifecycleSpec
    PlanEnds
CHECK_DEADLOCK FALSE
