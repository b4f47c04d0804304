CONSTANTS
    Item <- Paths
    Parent <- PathParent
    Source <- PathSource
    DeleteOrder <- SourceFirst
    Collection <- NoCollection
    PathOrder <- PathsSorted
    Branch <- PathBranch
    Documents <- PathDocuments
    Excluded <- PathExcluded
    Restores = {"model", "root", "node"}
    Value = {"a", "b"}
    GrowSources = FALSE
    Overwrites = FALSE
    BadRecovery = FALSE
    PlanFailures = {}
SPECIFICATION Spec
INVARIANTS AppliedIsDeployed RemovalCoversSubtree
CHECK_DEADLOCK FALSE
