\* The 1scan operator on its second group.
CONSTANTS
    Nodes = {1}
    Aggs <- OneScanAggs
    MaxGroups <- TwoGroups
    MaxTuples = 2
    MaxStmts = 1
    Env = {}
SPECIFICATION Spec
CHECK_DEADLOCK FALSE
INVARIANT OwnLineage
