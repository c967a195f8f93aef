\* Two confidence functions in one select.
CONSTANTS
    Nodes = {1}
    Aggs <- MultipleAggs
    MaxGroups <- TwoGroups
    MaxTuples = 2
    MaxStmts = 1
    Env = {}
SPECIFICATION Spec
CHECK_DEADLOCK FALSE
INVARIANT OwnLineage
