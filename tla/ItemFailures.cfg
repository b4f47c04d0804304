CONSTANTS
    Item <- Family
    Parent <- FamilyParent
    Source <- FamilySource
    DeleteOrder <- FamilySourceFirst
    Collection = {}
    PathOrder <- FamilySorted
    Branch <- FamilyBranch
    Documents = {}
    Excluded <- FamilyExcluded
    Restores = {"model"}
    Value = {"a"}
    GrowSources = TRUE
    Overwrites = FALSE
    BadRecovery = TRUE
    PlanFailures = {"failed", "stopped", "died"}
SPECIFICATION Spec
INVARIANT ModelIntact
PROPERTY RequestsKeepDeployed
CHECK_DEADLOCK FALSE
