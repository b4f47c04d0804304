SPECIFICATION Spec
CONSTANTS
    Cluster <- Clusters
    NodesOf <- ClusterNodes
    Inputs <- WithoutNetChains
INVARIANTS OrderRespected NothingLost LockedWhileChanged NoSpuriousCycle
CHECK_DEADLOCK FALSE
