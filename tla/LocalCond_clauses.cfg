\* One initial slot; clauses of two maps, variables with two ranges.
CONSTANTS
    VarIds = {0, 1, 2, 3, 4}
    RngIds = {1, 2}
    WSD_LEN = 2
    INITWIDTH = 1
    LIST_INIT_SIZE = 1
    WTINITSIZE = 2
    RNGENTRYSIZE = 1
    SINITSIZE = 2
    MaxWSDs = 2
SPECIFICATION FairSpec
INVARIANTS
    OffsetsFaithful
PROPERTIES
    ImplementsWorldTable
    LookupTerminates
