\* The hash instance without the constraint: create_bucket for any slot.
CONSTANTS
    VarIds = {0, 1, 2, 3, 4}
    RngIds = {1}
    WSD_LEN = 1
    INITWIDTH = 2
    LIST_INIT_SIZE = 1
    WTINITSIZE = 2
    RNGENTRYSIZE = 1
    SINITSIZE = 2
    MaxWSDs = 5
SPECIFICATION Spec
INVARIANT RelevantBucketsShareList
