\* Queries, repairs and picks in any order.
CONSTANTS
    Tables = {"B", "C", "N", "U", "V", "I", "S", "W", "P"}
    Statements <- Sound
    BaseContents <- Contents
    WeightOf <- Value
    ProbOf <- Third
    MaxTables = 7
    MaxWasted = 1
SPECIFICATION Spec
CHECK_DEADLOCK FALSE
INVARIANTS
    ConsistentClauses
    TypesFaithful
    OneWorldTable
    RangesWithinOne
PROPERTY ImplementsPossibleWorlds
