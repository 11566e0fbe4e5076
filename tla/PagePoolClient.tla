--------------------------- MODULE PagePoolClient ---------------------------
(***************************************************************************)
(* The PagePool API driven by a caller that allocates pages and gives     *)
(* them back.  In the repository no caller frees a page (PageTables only   *)
(* allocates); the caller here explores what the API promises.             *)
(*                                                                         *)
(* Caller selects what the caller may pass to Free:                         *)
(*   "contract"    : only the address of a page it owns, and addresses the *)
(*                   code must reject (misaligned, below the pool, beyond  *)
(*                   its end by less than 2^IdxBits pages), as spec 4.2   *)
(*                   asks of a caller;                                     *)
(*   "outOfRange"  : in addition, an address 2^IdxBits pages beyond an     *)
(*                   owned page, outside the pool.                         *)
(* owned[i] counts the outstanding hand-outs of page i (a history of the   *)
(* caller, not state of the code).                                         *)
(***************************************************************************)
EXTENDS PagePool, FiniteSets

CONSTANTS Caller,       \* "contract" or "outOfRange"
          MaxFreeLen    \* bound on the length of the free list

ASSUME Caller \in {"contract", "outOfRange"}

VARIABLES pool, owned
vars == <<pool, owned>>

\* addresses the code has to reject: misaligned, below base, past the end
RejectedAddrs ==
    {BaseAddr + 1, BaseAddr + PageCount * PageSize}
    \cup (IF BaseAddr >= PageSize THEN {BaseAddr - PageSize} ELSE {})

\* the pool page an address stands for, as the caller means it
PageOf(a) == (a - BaseAddr) \div PageSize

FreeTargets ==
    LET own == {PageAddr(i).val : i \in {j \in PageIdx : owned[j] > 0}}
        alias == {PageAddr(i + 2 ^ IdxBits).val : i \in {j \in PageIdx : owned[j] > 0}}
    IN  own \cup RejectedAddrs
        \cup (IF Caller = "outOfRange" THEN alias ELSE {})

Init ==
    /\ pool = InitPool
    /\ owned = [i \in PageIdx |-> 0]

\* the caller's call of PagePool::Allocate
DoAllocate ==
    LET r == Allocate(pool)
    IN  /\ pool' = r.pool
        /\ owned' = IF r.ok THEN [owned EXCEPT ![r.idx] = @ + 1] ELSE owned

\* the caller's call of PagePool::Free(a); on success it has given back
\* the page it passed, if that is a page of the pool it owns
DoFree(a) ==
    LET r == Free(pool, a)
        p == PageOf(a)
    IN  /\ Len(pool.free) < MaxFreeLen
        /\ pool' = r.pool
        /\ owned' = IF r.ok /\ a >= BaseAddr /\ p \in PageIdx /\ owned[p] > 0
                    THEN [owned EXCEPT ![p] = @ - 1] ELSE owned

Next ==
    \/ DoAllocate
    \/ \E a \in FreeTargets : DoFree(a)

Spec == Init /\ [][Next]_vars

TypeOK ==
    /\ pool \in PoolType
    /\ owned \in [PageIdx -> Nat]

(***************************************************************************)
(* Allocate never hands out a page that a caller still owns: every page is *)
(* owned at most once.  Breaking it takes a Free that the code accepts for *)
(* a page nobody gave back, followed by the allocations that reach it.     *)
(***************************************************************************)
UniqueOwnership == \A i \in PageIdx : owned[i] <= 1

(***************************************************************************)
(* The PagePool invariant of the data model: next <= pageCount, freed      *)
(* indices are distinct, below next, and not owned; together with the      *)
(* never-used pages [next, pageCount) and the owned pages they account for *)
(* every page of the pool exactly once (no page is lost by Free/Allocate). *)
(***************************************************************************)
PagesPartitioned ==
    LET freed == {pool.free[k] : k \in DOMAIN pool.free}
        live == {i \in PageIdx : owned[i] > 0}
    IN  /\ pool.next <= PageCount
        /\ Len(pool.free) = Cardinality(freed)
        /\ \A i \in freed : i < pool.next /\ i \notin live
        /\ freed \cup live \cup (pool.next .. PageCount - 1) = PageIdx
=============================================================================
