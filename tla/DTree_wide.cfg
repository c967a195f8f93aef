\* Clauses of one map, enough for two groups of five in the median search.
CONSTANTS
    DBVars = {1, 2}
    Weight <- WideRanges
    WSD_LEN = 1
    Tuples <- AllClauses
    Requests <- Small
    CloseFraction <- Thousandth
    MaxWSDs = 6
SPECIFICATION Spec
CHECK_DEADLOCK FALSE
INVARIANT BoundsEnclose
INVARIANT SortedByProbability
