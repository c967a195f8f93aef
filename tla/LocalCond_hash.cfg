\* Two initial slots, buckets of one entry: splits and doublings from the
\* second variable on.  The late bucket is left to LocalCond_late.cfg.
CONSTANTS
    VarIds = {0, 1, 2, 3, 4, 5, 6, 7}
    RngIds = {1}
    WSD_LEN = 1
    INITWIDTH = 2
    LIST_INIT_SIZE = 1
    WTINITSIZE = 2
    RNGENTRYSIZE = 1
    SINITSIZE = 2
    MaxWSDs = 5
SPECIFICATION Spec
CONSTRAINT NoLateBucket
INVARIANTS
    IInv
    OneEntryPerVariable
    EntriesReachable
    NoDanglingBucket
    RelevantBucketsShareList
    WithinAllocation
