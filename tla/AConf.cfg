\* Lineages of up to three clauses of two maps; a few samples per step of AA.
CONSTANTS
    DBVars = {1, 2}
    Weight <- MCWeight
    WSD_LEN = 2
    MaxWSDs = 3
    Upsilon1 <- One
    Upsilon2 <- Two
    Epsilon <- Quarter
SPECIFICATION FairSpec
CHECK_DEADLOCK FALSE
INVARIANTS
    Unbiased
    AnswerInRange
    StoppingRuleBounded
PROPERTY Terminates
