CONSTANTS
    AddrBits = 8
    PageSize = 2
    BaseAddr = 4
    PageCount = 5
    IdxBits = 3
    Caller = "contract"
    MaxFreeLen = 5
SPECIFICATION MCSpec
INVARIANTS
    TypeOK
    UniqueOwnership
    PagesPartitioned
    RangeMgrGrantsWhatFits
