CONSTANTS
    AddrBits = 10
    PageSize = 2
    BaseAddr = 64
    PageCount = 32
    IdxBits = 10
    EntryCount = 4
    NULL = NULL
    PhyUpper = 64
    PoolLen = 64
    StackRegion = 16
    GuardSize = 2
    StackSize = 6
    SlotLen = 128
    HeapStart = 112
    HeapSize = 16
    Lines = 10
    WordSize = 2
    FrameSize = 2
    HugePageLen = 2
    Images <- MCFiledImages
SPECIFICATION Spec
\* the process ends: init fails and main returns, or run panics
CHECK_DEADLOCK FALSE
PROPERTIES
    RunEndsByHalt
