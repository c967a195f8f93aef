\* The complete tree over variables with alternatives.
CONSTANTS
    DBVars = {1, 2, 3}
    Weight <- TwoRanges
    WSD_LEN = 2
    Tuples <- Distinct
    Requests <- Zero
    CloseFraction <- Thousandth
    MaxWSDs = 3
SPECIFICATION Spec
CHECK_DEADLOCK FALSE
INVARIANT EpsilonApproximation
