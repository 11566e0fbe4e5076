--------------------------- MODULE MC_PhyAddrMgr ----------------------------
EXTENDS PhyAddrMgr

\* KVMMachine::init: pageMmap ends at hostMemOffset, and LoadKernel maps
\* the kernel image at exactly that address, the hint of every AllocAnan
MCPreMapped == {[start |-> 2, len |-> 2, huge |-> TRUE], [start |-> 4, len |-> 2, huge |-> FALSE]}
=============================================================================
