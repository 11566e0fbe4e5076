CONSTANTS
    AddrBits = 4
    PageSize = 1
    HostBase = 4
    LimitLen = 7
    PreMapped <- MCPreMapped
    Lens = {1, 2}
    MaxCalls = 4
    HugePageLen = 2
SPECIFICATION Spec
\* the calls are bounded, and a panic ends the process
CHECK_DEADLOCK FALSE
INVARIANTS
    TypeOK
    RegistryMatchesHost
