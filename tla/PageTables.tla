----------------------------- MODULE PageTables -----------------------------
(***************************************************************************)
(* PageTables of src/qlib/PageTable.rs: a 4-level radix page table whose   *)
(* tables are pages drawn from a PagePool, with Map (the mapCanonical      *)
(* walk) and VirtuallToPhy, shared through VMSpace (vmspace/mod.rs).       *)
(*                                                                         *)
(* Geometry, scaled: a table has EntryCount entries (ENTRY_COUNT = 512);   *)
(* the four 9-bit indices and the page offset span VASpan bytes (2^48),    *)
(* and an address is AddrBits wide (64).  The lower canonical half ends at *)
(* LOWER_TOP = VASpan/2 - 1 and the upper half starts at UPPER_BOTTOM.     *)
(*                                                                         *)
(* mem[t][i] is entry i of the table in pool page t: NULL when unused, the *)
(* pool index of the next-level table in a non-leaf entry, the physical    *)
(* address in a leaf entry.  Pool pages are anonymous memory, so zero.     *)
(* Map runs under the VMS lock and is one step; its four nested loops are  *)
(* the recursive operator Walk over the loop state.                        *)
(***************************************************************************)
EXTENDS PagePool, FiniteSets

CONSTANTS EntryCount,  \* ENTRY_COUNT, scaled
          NULL         \* an unused entry (is_unused)

VASpan == PageSize * EntryCount ^ 4
LOWER_TOP == VASpan \div 2 - 1
UPPER_BOTTOM == AddrLimit - VASpan \div 2

ASSUME EntryCount \in Nat \ {0, 1} /\ VASpan < AddrLimit /\ NULL \notin Nat

EntryIdx == 0 .. EntryCount - 1

\* VirtAddr::p1_index .. p4_index: the 9-bit index of level lvl (1 = leaf)
Index(a, lvl) == (a \div (PageSize * EntryCount ^ (lvl - 1))) % EntryCount

ZeroTable == [i \in EntryIdx |-> NULL]

\* PageTables::New: the root is the first page drawn from the pool
NewRoot == Allocate(InitPool)
Root == NewRoot.idx

(***************************************************************************)
(* The loop state of mapCanonical: pc is the loop whose condition is      *)
(* checked next ("w4" outermost .. "w1" innermost, "done"), p[l] the       *)
(* index variables p1Idx..p4Idx, tbl[l] the cached table pointers pteTbl,  *)
(* pmdTbl, pudTbl (l = 1, 2, 3), res the "previously mapped" flag.         *)
(***************************************************************************)

\* `if pXIdx == ENTRY_COUNT-1 { pXIdx = 0; break } else { pXIdx += 1 }`
\* at the end of the level-2 and level-3 loop bodies, and p4Idx wrapping_add
Bump4(s) == [s EXCEPT !.p[4] = (@ + 1) % EntryCount, !.pc = "w4"]
Carry3(s) == IF s.p[3] = EntryCount - 1
             THEN Bump4([s EXCEPT !.p[3] = 0])
             ELSE [s EXCEPT !.p[3] = @ + 1, !.pc = "w3"]
Carry2(s) == IF s.p[2] = EntryCount - 1
             THEN Carry3([s EXCEPT !.p[2] = 0])
             ELSE [s EXCEPT !.p[2] = @ + 1, !.pc = "w2"]

\* mutant: a new table is drawn even when the entry is present
FetchOrAllocAlways(s, parent, lvl, nextPc) ==
    LET r == Allocate(s.pool)
    IN  IF ~r.ok
        THEN [s EXCEPT !.pool = r.pool, !.err = r.err, !.pc = "done"]
        ELSE [s EXCEPT !.pool = r.pool,
                       !.mem = [@ EXCEPT ![r.idx] = ZeroTable, ![parent][s.p[lvl]] = r.idx],
                       !.tbl[lvl - 1] = r.idx, !.pc = nextPc]

\* the body head of the level-lvl loop: follow the entry p[lvl] of table
\* `parent`, or draw a zeroed page from the pool and link it
FetchOrAlloc(s, parent, lvl, nextPc) ==
    LET e == s.mem[parent][s.p[lvl]]
        r == Allocate(s.pool)
    IN  IF e # NULL
        THEN [s EXCEPT !.tbl[lvl - 1] = e, !.pc = nextPc]
        ELSE IF ~r.ok
             THEN [s EXCEPT !.pool = r.pool, !.err = r.err, !.pc = "done"]
             ELSE [s EXCEPT !.pool = r.pool,
                            !.mem = [@ EXCEPT ![r.idx] = ZeroTable,
                                              ![parent][s.p[lvl]] = r.idx],
                            !.tbl[lvl - 1] = r.idx, !.pc = nextPc]

\* mutant: p1Idx is not reset to 0 when it wraps
MapLeafNoReset(s, start, phys) ==
    LET t == s.tbl[1]
        s1 == IF s.mem[t][s.p[1]] = NULL
              THEN [s EXCEPT !.mem[t][s.p[1]] = phys + s.cur - start]
              ELSE [s EXCEPT !.res = TRUE]
        nxt == AddLen(s.cur, PageSize)
    IN  IF ~nxt.ok THEN [s1 EXCEPT !.err = nxt.err, !.pc = "done"]
        ELSE IF s.p[1] = EntryCount - 1 THEN Carry2([s1 EXCEPT !.cur = nxt.val])
        ELSE [s1 EXCEPT !.cur = nxt.val, !.p[1] = @ + 1]

\* mutant: the leaf address is computed as phys + start - cur
MapLeafSwapped(s, start, phys) ==
    LET t == s.tbl[1]
        s1 == IF s.mem[t][s.p[1]] = NULL
              THEN [s EXCEPT !.mem[t][s.p[1]] = phys + start - s.cur]
              ELSE [s EXCEPT !.res = TRUE]
        nxt == AddLen(s.cur, PageSize)
    IN  IF ~nxt.ok THEN [s1 EXCEPT !.err = nxt.err, !.pc = "done"]
        ELSE IF s.p[1] = EntryCount - 1 THEN Carry2([s1 EXCEPT !.cur = nxt.val, !.p[1] = 0])
        ELSE [s1 EXCEPT !.cur = nxt.val, !.p[1] = @ + 1]

\* the body of the innermost loop: set the leaf entry if unused, else note
\* the earlier mapping; advance curAddr (checked) and p1Idx
MapLeaf(s, start, phys) ==
    LET t == s.tbl[1]
        e == s.mem[t][s.p[1]]
        s1 == IF e = NULL
              THEN [s EXCEPT !.mem[t][s.p[1]] = phys + s.cur - start]
              ELSE [s EXCEPT !.res = TRUE]
        nxt == AddLen(s.cur, PageSize)
    IN  IF ~nxt.ok
        THEN [s1 EXCEPT !.err = nxt.err, !.pc = "done"]
        ELSE IF s.p[1] = EntryCount - 1
             THEN Carry2([s1 EXCEPT !.cur = nxt.val, !.p[1] = 0])
             ELSE [s1 EXCEPT !.cur = nxt.val, !.p[1] = @ + 1]

Step(s, start, end, phys) ==
    CASE s.pc = "w4" -> IF s.cur < end THEN FetchOrAlloc(s, Root, 4, "w3")
                        ELSE [s EXCEPT !.pc = "done"]
      [] s.pc = "w3" -> IF s.cur < end THEN FetchOrAlloc(s, s.tbl[3], 3, "w2")
                        ELSE Bump4(s)
      [] s.pc = "w2" -> IF s.cur < end THEN FetchOrAlloc(s, s.tbl[2], 2, "w1")
                        ELSE Carry3(s)
      [] s.pc = "w1" -> IF s.cur < end THEN MapLeaf(s, start, phys)
                        ELSE Carry2(s)

RECURSIVE Walk(_, _, _, _)
Walk(s, start, end, phys) ==
    IF s.pc = "done" THEN s ELSE Walk(Step(s, start, end, phys), start, end, phys)

\* PageTables::mapCanonical(start, end, phyAddr): the final loop state
MapCanonical(start, end, phys, m, pl) ==
    Walk([pc |-> "w4", cur |-> start, p |-> [l \in 1 .. 4 |-> Index(start, l)],
          tbl |-> [l \in 1 .. 3 |-> Root], mem |-> m, pool |-> pl,
          res |-> FALSE, err |-> NULL],
         start, end, phys)

(***************************************************************************)
(* PageTables::Map: an opts without access is Unmap (a stub returning      *)
(* Ok(true)); start must be aligned and end >= start; a range from the     *)
(* lower half is clipped at LOWER_TOP, a range starting in the gap is      *)
(* mapped from UPPER_BOTTOM on, with the same physical start.  Result:     *)
(* ret (the Rust Result), mem and pool after the call.                     *)
(***************************************************************************)
Map(start, end, phys, access, m, pl) ==
    LET Done(s) == [ret |-> IF s.err = NULL THEN Ok(s.res) ELSE Err(s.err),
                    mem |-> s.mem, pool |-> s.pool]
        Same(r) == [ret |-> r, mem |-> m, pool |-> pl]
    IN  CASE ~access -> Same(Ok(TRUE))
          [] ~IsPageAligned(start) -> Same(Err("UnallignedAddress"))
          [] end < start -> Same(Err("AddressNotInRange"))
          [] start < LOWER_TOP ->
                 Done(MapCanonical(start, IF end <= LOWER_TOP THEN end ELSE LOWER_TOP,
                                   phys, m, pl))
          [] start < UPPER_BOTTOM ->
                 IF end > UPPER_BOTTOM
                 THEN Done(MapCanonical(UPPER_BOTTOM, end, phys, m, pl))
                 ELSE Same(Ok(FALSE))
          [] OTHER -> Done(MapCanonical(start, end, phys, m, pl))

\* PageTables::VirtuallToPhy: the read-only walk of a canonical address
VirtuallToPhy(m, v) ==
    LET pud == m[Root][Index(v, 4)]
        pmd == m[pud][Index(v, 3)]
        pte == m[pmd][Index(v, 2)]
        pg  == m[pte][Index(v, 1)]
    IN  IF pud = NULL \/ pmd = NULL \/ pte = NULL \/ pg = NULL
        THEN Err("AddressNotMap")
        ELSE Ok(pg + PageOffset(v))
=============================================================================
