------------------------------ MODULE PagePool ------------------------------
(***************************************************************************)
(* PagePool of src/qlib/PageTable.rs: a bump allocator over PageCount      *)
(* pages starting at BaseAddr, with a LIFO list of freed page indices.     *)
(*                                                                         *)
(* The pool is a value [next |-> Nat, free |-> Seq(index)] (fields next    *)
(* and freePool of the struct); its operations are pure operators that    *)
(* return the Rust Result and the new pool, so that PageTables can draw    *)
(* several pages inside one Map step.                                      *)
(***************************************************************************)
EXTENDS Addr, Sequences

CONSTANTS BaseAddr,   \* baseAddr (guest physical address of page 0)
          PageCount,  \* pageCount
          IdxBits     \* width of the u32 page index, scaled


ASSUME /\ BaseAddr \in Word /\ IsPageAligned(BaseAddr)
       /\ PageCount \in 1 .. 2 ^ IdxBits

PageIdx == 0 .. PageCount - 1

\* PagePool::Init(baseAddr, pageCount)
InitPool == [next |-> 0, free |-> << >>]

\* PagePool::GetPageAddr without the range check; baseAddr.AddLen(idx*PAGE)
PageAddr(idx) == AddLen(BaseAddr, idx * PageSize)

\* mutant: the freed index is read but not popped
AllocateNoPop(pool) ==
    IF Len(pool.free) > 0
    THEN [ok |-> TRUE, idx |-> pool.free[Len(pool.free)], pool |-> pool]
    ELSE IF pool.next = PageCount
         THEN [ok |-> FALSE, err |-> "NoEnoughMemory", pool |-> pool]
         ELSE [ok |-> TRUE, idx |-> pool.next, pool |-> [pool EXCEPT !.next = @ + 1]]

\* mutant: the bump cursor is not advanced
AllocateNoAdvance(pool) ==
    IF Len(pool.free) > 0
    THEN [ok |-> TRUE, idx |-> pool.free[Len(pool.free)],
          pool |-> [pool EXCEPT !.free = SubSeq(@, 1, Len(@) - 1)]]
    ELSE IF pool.next = PageCount
         THEN [ok |-> FALSE, err |-> "NoEnoughMemory", pool |-> pool]
         ELSE [ok |-> TRUE, idx |-> pool.next, pool |-> pool]

(***************************************************************************)
(* PagePool::Allocate: pop the most recently freed index if there is one, *)
(* else hand out `next` and advance it; NoEnoughMemory when exhausted.     *)
(* Result record: ok, idx (the page index), pool (the new pool value).     *)
(***************************************************************************)
Allocate(pool) ==
    IF Len(pool.free) > 0
    THEN LET idx == pool.free[Len(pool.free)]
         IN  [ok |-> PageAddr(idx).ok, idx |-> idx,
              pool |-> [pool EXCEPT !.free = SubSeq(@, 1, Len(@) - 1)]]
    ELSE IF pool.next = PageCount
         THEN [ok |-> FALSE, err |-> "NoEnoughMemory", pool |-> pool]
         ELSE [ok |-> PageAddr(pool.next).ok, idx |-> pool.next,
               pool |-> [pool EXCEPT !.next = @ + 1]]

\* mutant: range check idx > pageCount instead of >=
FreeOffByOne(pool, addr) ==
    LET idx == PageOffsetIdx(BaseAddr, addr, IdxBits)
    IN  IF IsPageAligned(addr) /\ idx.ok /\ idx.val <= PageCount
        THEN [ok |-> TRUE, idx |-> idx.val, pool |-> [pool EXCEPT !.free = Append(@, idx.val)]]
        ELSE [ok |-> FALSE, err |-> "AddressNotInRange", pool |-> pool]

(***************************************************************************)
(* PagePool::Free(addr): PageAligned, then baseAddr.PageOffsetIdx(addr)    *)
(* (index truncated to u32), then idx < pageCount; push the index.  There *)
(* is no check that the page was handed out or is not already free.       *)
(***************************************************************************)
Free(pool, addr) ==
    LET idx == PageOffsetIdx(BaseAddr, addr, IdxBits)
    IN  CASE ~IsPageAligned(addr) ->
                 [ok |-> FALSE, err |-> "UnallignedAddress", pool |-> pool]
          [] ~idx.ok ->
                 [ok |-> FALSE, err |-> idx.err, pool |-> pool]
          [] idx.val >= PageCount ->
                 [ok |-> FALSE, err |-> "AddressNotInRange", pool |-> pool]
          [] OTHER ->
                 [ok |-> TRUE, idx |-> idx.val,
                  pool |-> [pool EXCEPT !.free = Append(@, idx.val)]]

PoolType ==
    [next : 0 .. PageCount, free : Seq(PageIdx)]
=============================================================================
