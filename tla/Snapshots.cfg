CONSTANTS
    Upgrade = "snapshot"
    Named = {"b1"}
    Shapes <- ThreeShapes
    Faults = {}
    MaxQueue = 1
SPECIFICATION Spec
INVARIANTS TimestampMeansComplete SuccessMeansDone RestorableHasBackup
CHECK_DEADLOCK FALSE
