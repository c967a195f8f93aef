\* Statements with one operator each inside a group at a time.
CONSTANTS
    Nodes = {1, 2, 3, 4, 5}
    Aggs <- PlainAggs
    MaxGroups <- PlainGroups
    MaxTuples = 2
    MaxStmts = 2
    Env = {"approach_error"}
SPECIFICATION Spec
CHECK_DEADLOCK FALSE
INVARIANTS
    OwnLineage
    NullMeansNoTuple
    NoFault
    CleanWhenIdle
    CleanInv
