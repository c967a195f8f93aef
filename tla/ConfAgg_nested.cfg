\* An inner confidence evaluated between the tuples of an outer one.
CONSTANTS
    Nodes = {1, 2}
    Aggs <- GeneralAggs
    MaxGroups <- TwoGroups
    MaxTuples = 2
    MaxStmts = 1
    Env = {"nested"}
SPECIFICATION Spec
CHECK_DEADLOCK FALSE
INVARIANT OwnLineage
