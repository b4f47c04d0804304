SPECIFICATION Spec
CONSTANTS
    j1 = j1
    j2 = j2
    j3 = j3
    Phase <- DiamondPhase
    Req <- DiamondReq
    Kind <- DiamondKind
    Task <- DiamondTask
    PhaseOf <- DiamondPhaseOf
    Item <- DiamondItem
    Acting <- DiamondActing
    JobSlot = {j1, j2}
    MaxQueue = 1
    Patient = TRUE
    Requests = {"create", "run", "resume", "stop", "delete", "change", "shutdown"}
    LongRequests = {"stop"}
    Faults = {"job", "coordinator", "service", "restart", "raise"}
SYMMETRY Symmetry
INVARIANTS
    SuccessfulPlanComplete
CHECK_DEADLOCK FALSE
