SPECIFICATION Spec
CONSTANTS
    Cluster = {"A", "B", "C"}
    MaxPhases = 5
    BootClusters = {}
    MixedClusters = {"B"}
    PostClusters = {}
INVARIANTS
    RequirementsPrecede
    DependenciesRespected
    NonParallelAlone
    IndependentClustersParallel
CHECK_DEADLOCK FALSE
