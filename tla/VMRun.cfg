CONSTANTS
    Lines = 10
SPECIFICATION Spec
\* the process ends: rust_main's return makes the host panic
CHECK_DEADLOCK FALSE
INVARIANTS
    TypeOK
    NoNullDeref
PROPERTIES
    PrintsDelivered
