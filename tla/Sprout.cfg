\* Queries on which the operator is right, and two that are not left to it.
CONSTANTS
    DBVars = {1, 2, 3, 4, 5, 6, 7, 8}
    Weight <- RowWeight
    WSD_LEN = 4
    Attrs <- Schema
    Keys <- PrimaryKeys
    Queries <- Sound
    Databases <- SomeDatabases
    VarOf <- RowVar
    MaxAhead = 1
    MaxStmts <- TwoOnSmall
    OperatorFor <- Operator
    ColumnOrder <- VarOrder
    LineageGroups <- GroupsOf
    ProbOf <- Prob
    SignatureOf <- BuildSignature
    HasOneScan <- is1Scan
    EmptyState <- NoState
    ScanTuple <- Advance1Scan
    EndScan <- CloseLast
    ScanAll <- ScheduleAndScan
SPECIFICATION Spec
CHECK_DEADLOCK FALSE
INVARIANTS
    ExactOnHierarchical
    NoSproutFault
    OwnSignature
    SafePlansOnly
