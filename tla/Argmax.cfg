\* Both strategies, three calls, two scans.
CONSTANTS
    Groups = {1, 2}
    Scores <- WithNegative
    Columns = {"a", "b"}
    Calls <- ThreeCalls
    Strategies = {"AGG_SORTED", "AGG_HASHED"}
    MaxRows = 3
    MaxRescanned = 2
    MaxScans = 2
SPECIFICATION Spec
CHECK_DEADLOCK FALSE
INVARIANTS
    ArgmaxInv
    OneRow
    NeverSubmaximal
    MaximalInHashTable
