\* Tuple-independent relations; leaves are closed early enough to be seen.
CONSTANTS
    DBVars = {1, 2, 3, 4}
    Weight <- OneRange
    WSD_LEN = 2
    Tuples <- Ordered
    Requests <- Several
    CloseFraction <- HalfGap
    MaxWSDs = 4
SPECIFICATION Spec
CHECK_DEADLOCK FALSE
INVARIANT EpsilonApproximation
INVARIANT BoundsEnclose
INVARIANT ClausesRestored
