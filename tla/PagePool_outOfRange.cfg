CONSTANTS
    AddrBits = 8
    PageSize = 2
    BaseAddr = 4
    PageCount = 5
    IdxBits = 3
    Caller = "outOfRange"
    MaxFreeLen = 5
SPECIFICATION Spec
INVARIANTS
    UniqueOwnership
