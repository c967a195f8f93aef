\* Aborted statements: the next one meets what they left.
CONSTANTS
    Nodes = {1, 2, 3, 4}
    Aggs <- PlainAggs
    MaxGroups <- PlainGroups
    MaxTuples = 2
    MaxStmts = 3
    Env = {"approach_error", "sum_error", "interrupt"}
SPECIFICATION Spec
CHECK_DEADLOCK FALSE
INVARIANTS
    NoForeignLineage
    SessionInv
