SPECIFICATION Spec
CONSTANTS
    j1 = j1
    j2 = j2
    j3 = j3
    Phase <- JoinPhase
    Req <- JoinReq
    Kind <- JoinKind
    Task <- JoinTask
    PhaseOf <- JoinPhaseOf
    Item <- JoinItem
    Acting <- JoinActing
    JobSlot = {j1, j2}
    MaxQueue = 1
    Patient = TRUE
    Requests = {"create", "run"}
    LongRequests = {}
    Faults = {}
SYMMETRY Symmetry
INVARIANTS
    NoJobLeftBehind
CHECK_DEADLOCK FALSE
