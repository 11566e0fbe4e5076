CONSTANTS
    AddrBits = 10
    PageSize = 2
    BaseAddr = 0
    PageCount = 7
    IdxBits = 10
    EntryCount = 4
    NULL = NULL
    MaxMapCalls = 3
    MapArgs <- MCGapArgs
SPECIFICATION Spec
CHECK_DEADLOCK FALSE
PROPERTIES
    AbsSpec
