\* A many-scan conf() cancelled inside a group, then aconf() over no tuple.
CONSTANTS
    Nodes = {2, 4}
    Aggs <- PlainAggs
    MaxGroups <- PlainGroups
    MaxTuples = 2
    MaxStmts = 2
    Env = {"interrupt"}
SPECIFICATION Spec
CHECK_DEADLOCK FALSE
INVARIANT OwnLineage
