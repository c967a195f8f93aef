\* All lineages of up to three clauses with two maps each.
CONSTANTS
    DBVars = {1, 2, 3}
    Weight <- MCWeight
    WSD_LEN = 2
    MaxWSDs = 3
SPECIFICATION Spec
CHECK_DEADLOCK FALSE
INVARIANTS
    ExactConfidence
    LineageRestored
