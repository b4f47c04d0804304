CONSTANTS
    Node <- Nodes
    Where <- Places
    Under <- Subtrees
    NetItem <- NetItems
    NodeItem <- NodeItems
    ItemType <- SmallType
    MaxClusters = 3
    Inputs <- AllInputs
SPECIFICATION Spec
INVARIANTS ClustersOrdered RemovalComplete TasksInOrder
CHECK_DEADLOCK FALSE
