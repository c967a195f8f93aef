\* Clauses long enough to repeat a variable more than once.
CONSTANTS
    DBVars = {1, 2}
    Weight <- MCWeight
    WSD_LEN = 3
    MaxWSDs = 3
SPECIFICATION Spec
CHECK_DEADLOCK FALSE
INVARIANT ExactConfidence
