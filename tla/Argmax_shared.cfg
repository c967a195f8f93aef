\* Two calls with values of one type.
CONSTANTS
    Groups = {1, 2}
    Scores = {0, 1, 2}
    Columns = {"a", "b"}
    Calls <- SameType
    Strategies = {"AGG_HASHED"}
    MaxRows = 3
    MaxRescanned = 2
    MaxScans = 1
SPECIFICATION Spec
CHECK_DEADLOCK FALSE
INVARIANT NeverSubmaximal
