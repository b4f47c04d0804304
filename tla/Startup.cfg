SPECIFICATION Spec
CONSTANTS
    Core = {1, 2, 15}
    MaxInstalls = 2
    MaxChanged = 1
    Faults = {}
INVARIANTS
    StartedModelCurrent
    CommittedModelWhole
CHECK_DEADLOCK FALSE
