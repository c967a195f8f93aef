\* tconf() evaluated between the tuples of a group.
CONSTANTS
    Nodes = {1}
    Aggs <- GeneralAggs
    MaxGroups <- TwoGroups
    MaxTuples = 2
    MaxStmts = 1
    Env = {"lazy_tconf"}
SPECIFICATION Spec
CHECK_DEADLOCK FALSE
INVARIANT OwnLineage
