\* The expected count of a join in which a tuple meets itself.
CONSTANTS
    Tables = {"B", "C", "N", "U", "V", "I", "S", "W", "P"}
    Statements <- Counting
    BaseContents <- Contents
    WeightOf <- Value
    ProbOf <- Third
    MaxTables = 7
    MaxWasted = 1
SPECIFICATION Spec
CHECK_DEADLOCK FALSE
PROPERTY ImplementsPossibleWorlds
