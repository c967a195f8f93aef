\* Several groups and a signature with the 1scan property.
CONSTANTS
    DBVars = {1, 2, 3, 4, 5, 6, 7, 8}
    Weight <- RowWeight
    WSD_LEN = 4
    Attrs <- Schema
    Keys <- PrimaryKeys
    Queries <- TheGroupedKey
    Databases <- KeyedPairs
    VarOf <- RowVar
    MaxAhead = 1
    MaxStmts <- OneStatement
    OperatorFor <- Operator
    ColumnOrder <- VarOrder
    LineageGroups <- GroupsOf
    ProbOf <- Prob
    SignatureOf <- BuildSignature
    HasOneScan <- is1Scan
    EmptyState <- NoState
    ScanTuple <- Advance1Scan
    EndScan <- CloseLast
    ScanAll <- ScheduleAndScan
SPECIFICATION Spec
CHECK_DEADLOCK FALSE
INVARIANT NoSproutFault
