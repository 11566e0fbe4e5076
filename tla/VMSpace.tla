------------------------------ MODULE VMSpace -------------------------------
(***************************************************************************)
(* VMSpace of src/qvisor/src/kvmlib/vmspace/mod.rs: the page pool and the  *)
(* page tables behind the VMS lock, changed only by VMSpace::Map.  The     *)
(* callers (KVMMachine::init, KernelELF::LoadKernel) pass ranges, a        *)
(* physical start and PageOpts::Default(); MapArgs is the set of calls     *)
(* explored, MaxMapCalls bounds how many are made.                         *)
(***************************************************************************)
EXTENDS PageTables

CONSTANTS MapArgs,      \* set of [start, end, phys, access] call arguments
          MaxMapCalls   \* bound on the number of Map calls

VARIABLES mem, pool, ret, calls
vars == <<mem, pool, ret, calls>>

\* KVMMachine::init: PagePool::Init, then PageTables::New draws the root
Init ==
    /\ pool = NewRoot.pool
    /\ mem = [t \in PageIdx |-> ZeroTable]
    /\ ret = "none"
    /\ calls = 0

\* VMSpace::Map(start, end, physical, opts), under the VMS lock
MapCall(a) ==
    LET r == Map(a.start, a.end, a.phys, a.access, mem, pool)
    IN  /\ calls < MaxMapCalls
        /\ mem' = r.mem
        /\ pool' = r.pool
        /\ ret' = r.ret
        /\ calls' = calls + 1

Next == \E a \in MapArgs : MapCall(a)

Spec == Init /\ [][Next]_vars

\* canonical, page-aligned virtual addresses
VAPages == {v \in (0 .. LOWER_TOP) \cup (UPPER_BOTTOM .. AddrLimit - 1) :
                IsPageAligned(v)}

\* the translation the tables currently give, page by page
Translation ==
    LET mapped == {v \in VAPages : VirtuallToPhy(mem, v).ok}
    IN  [v \in mapped |-> VirtuallToPhy(mem, v).val]

TypeOK ==
    /\ pool \in PoolType
    /\ mem \in [PageIdx -> [EntryIdx -> PageIdx \cup Nat \cup {NULL}]]
    /\ calls \in 0 .. MaxMapCalls

(***************************************************************************)
(* The tables form a tree over the pages the pool handed out: the root,    *)
(* the tables linked from it and from them are pairwise distinct, no table *)
(* is linked from two entries, and every page taken from the pool is one   *)
(* of them (the walk neither shares, overwrites nor leaks a table page).   *)
(***************************************************************************)
TablesFormTree ==
    LET Links(T) == {<<t, i>> \in T \X EntryIdx : mem[t][i] # NULL}
        Children(T) == {mem[l[1]][l[2]] : l \in Links(T)}
        L4 == {Root}
        L3 == Children(L4)
        L2 == Children(L3)
        L1 == Children(L2)
        inner == L4 \cup L3 \cup L2
    IN  /\ Cardinality(Links(inner)) = Cardinality(L3) + Cardinality(L2) + Cardinality(L1)
        /\ Cardinality(L4 \cup L3 \cup L2 \cup L1) = 1 + Cardinality(Links(inner))
        /\ L4 \cup L3 \cup L2 \cup L1 = 0 .. pool.next - 1

(***************************************************************************)
(* Refinement: under the mapping vmap <- Translation, every Map call is a  *)
(* step of AbstractPageMap.  It fails when the index carries of the walk   *)
(* skip, repeat or misplace a page, when a present leaf is overwritten,    *)
(* when the "previously mapped" result is wrong, or when a failed call     *)
(* leaves anything but a prefix of the range mapped.                       *)
(***************************************************************************)
Abs == INSTANCE AbstractPageMap WITH vmap <- Translation
AbsSpec == Abs!Spec
=============================================================================
