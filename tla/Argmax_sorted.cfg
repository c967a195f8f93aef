\* A group after one with a greater value.
CONSTANTS
    Groups = {1, 2}
    Scores = {0, 1, 2}
    Columns = {"a", "b"}
    Calls <- Once
    Strategies = {"AGG_SORTED"}
    MaxRows = 3
    MaxRescanned = 2
    MaxScans = 1
SPECIFICATION Spec
CHECK_DEADLOCK FALSE
INVARIANT MaximalArgument
