CONSTANTS
    AddrBits = 10
    PageSize = 2
    BaseAddr = 64
    PageCount = 32
    IdxBits = 10
    EntryCount = 4
    NULL = NULL
    PhyUpper = 64
    PoolLen = 64
    StackRegion = 16
    GuardSize = 2
    StackSize = 6
    SlotLen = 128
    HeapStart = 112
    HeapSize = 16
    Images <- MCImages
    HugePageLen = 2
SPECIFICATION Spec
\* init ends, in "done" or "failed"; the vCPU run is VMRun's
CHECK_DEADLOCK FALSE
INVARIANTS
    LayoutSound
    EntryByteLoaded
    SegmentsCopied
