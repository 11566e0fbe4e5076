------------------------------ MODULE RangeMgr ------------------------------
(***************************************************************************)
(* RangeMgr of src/qlib/Addr.rs: a bump allocator over [start, end).       *)
(*                                                                         *)
(* A manager is the record [start, end, offset]; each method is an         *)
(* operator from the manager and the call's arguments to the manager      *)
(* after the call and the call's Result.  Nothing in the repository       *)
(* creates a RangeMgr, so the specification below is a caller: it creates *)
(* one from Starts and Lens and then makes any sequence of calls, while a *)
(* reference bump allocator in unbounded integers runs beside it.         *)
(***************************************************************************)
EXTENDS Addr

CONSTANTS Starts, Lens   \* the arguments of RangeMgr::Init explored

\* RangeMgr::Init: end = start.AddLen(len)?, offset = start
Init(start, len) ==
    LET e == AddLen(start, len)
    IN  IF e.ok THEN Ok([start |-> start, end |-> e.val, offset |-> start]) ELSE e

\* the size test `len & PAGE_MASK != len`, PAGE_MASK = PAGE_SIZE - 1
SizeRefused(len) == len % PageSize # len

\* the space test with `<` where the code has `>`
AllocateOffByOne(r, len) ==
    LET next == AddLen(r.offset, len)
    IN  CASE SizeRefused(len) -> [mgr |-> r, ret |-> Err("UnallignedSize")]
          [] WrapAdd(r.offset, len) >= r.end -> [mgr |-> r, ret |-> Err("NoEnoughSpace")]
          [] ~next.ok -> [mgr |-> r, ret |-> next]
          [] OTHER -> [mgr |-> [r EXCEPT !.offset = next.val], ret |-> Ok(r.offset)]

(***************************************************************************)
(* RangeMgr::Allocate: the size test, then `self.offset.0 + len > end`,    *)
(* a u64 sum that wraps (release build), then the offset advanced by a     *)
(* checked AddLen.                                                         *)
(***************************************************************************)
Allocate(r, len) ==
    LET next == AddLen(r.offset, len)
    IN  CASE SizeRefused(len) -> [mgr |-> r, ret |-> Err("UnallignedSize")]
          [] WrapAdd(r.offset, len) > r.end -> [mgr |-> r, ret |-> Err("NoEnoughSpace")]
          [] ~next.ok -> [mgr |-> r, ret |-> next]
          [] OTHER -> [mgr |-> [r EXCEPT !.offset = next.val], ret |-> Ok(r.offset)]

\* RangeMgr::OccupyRange and Free: stubs that change nothing
OccupyRange(r, offset, len) == [mgr |-> r, ret |-> Err("RangeUnavailable")]
Free(r, start, len) == [mgr |-> r, ret |-> Ok(TRUE)]

\* no manager yet
NoMgr == [absent |-> TRUE]

\* a caller's state: the manager (NoMgr before a successful Init), the
\* Result of the last call, and the reference allocator's cursor
VARIABLES mgr, ret, cursor
rmVars == <<mgr, ret, cursor>>

\* the reference grants an admitted Allocate at the cursor exactly when it
\* fits below end in the integers
RefFits(len) == ~SizeRefused(len) /\ cursor + len <= mgr.end

RMInit == mgr = NoMgr /\ ret = Ok(TRUE) /\ cursor = 0

CallInit ==
    /\ mgr = NoMgr
    /\ \E st \in Starts, len \in Lens :
         LET m == Init(st, len)
         IN  /\ ret' = IF m.ok THEN Ok(TRUE) ELSE m
             /\ mgr' = IF m.ok THEN m.val ELSE mgr
             /\ cursor' = st

CallAllocate ==
    /\ mgr # NoMgr
    /\ \E len \in 0 .. PageSize :
         LET s == Allocate(mgr, len)
         IN  /\ mgr' = s.mgr /\ ret' = s.ret
             /\ cursor' = IF RefFits(len) THEN cursor + len ELSE cursor

\* the stubs, called with a range of one page at the start
CallOccupyRange ==
    /\ mgr # NoMgr
    /\ LET s == OccupyRange(mgr, mgr.start, PageSize)
       IN  mgr' = s.mgr /\ ret' = s.ret
    /\ UNCHANGED cursor

CallFree ==
    /\ mgr # NoMgr
    /\ LET s == Free(mgr, mgr.start, PageSize)
       IN  mgr' = s.mgr /\ ret' = s.ret
    /\ UNCHANGED cursor

RMNext == CallInit \/ CallAllocate \/ CallOccupyRange \/ CallFree

(***************************************************************************)
(* RangeMgr::Allocate hands out [offset, offset + len) exactly when the    *)
(* reference does, at the same cursor: the u64 sum of its space test      *)
(* wrapping at the top of the address space never grants a range, the     *)
(* test is not off by one, and OccupyRange and Free never move the        *)
(* offset.  Since every grant is at the cursor, the ranges granted are     *)
(* disjoint and inside [start, end).                                       *)
(***************************************************************************)
GrantsWhatFits == mgr # NoMgr => mgr.offset = cursor
=============================================================================
