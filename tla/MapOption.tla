------------------------------ MODULE MapOption ------------------------------
(***************************************************************************)
(* MapOption, MapOption::Map and MappedRegion of                           *)
(* src/qvisor/src/kvmlib/MemMgr.rs: the builder of an mmap request and    *)
(* what the host kernel may answer.                                        *)
(*                                                                         *)
(* An option is its hint address, its length, and the sets of MAP_* flags *)
(* and PROT_* bits the builder ORed in (ORs of single bits are unions).   *)
(* fd and fileOffset stay -1 and 0: no caller maps a file.  Without        *)
(* MAP_FIXED the address is only a hint, honoured when the range is free; *)
(* a MAP_HUGETLB mapping may fail for lack of reserved huge pages, and its *)
(* length is rounded up to the huge page, so a munmap of the unrounded    *)
(* length fails (EINVAL), and MappedRegion's Drop panics.                  *)
(***************************************************************************)
EXTENDS Addr

CONSTANT HugePageLen   \* PAGE_SIZE_2M, in the caller's address unit

\* MapOption::New: no hint, no length, no flags, PROT_NONE
NewOption == [offset |-> 0, len |-> 0, flags |-> {}, prot |-> {}]

\* MapOption::Offset and MapOption::Len
WithOffset(o, a) == [o EXCEPT !.offset = a]
WithLen(o, n) == [o EXCEPT !.len = n]

\* ProtoExec, ProtoRead, ProtoWrite: proto |= PROT_*
WithProt(o, p) == [o EXCEPT !.prot = @ \cup {p}]

\* MapShare ... MapNonBlock: flags |= MAP_*
WithFlag(o, f) == [o EXCEPT !.flags = @ \cup {f}]

\* the chain every caller uses: Offset(hint).Len(len).MapAnan().MapPrivate()
\* .ProtoRead().ProtoWrite().ProtoExec()
AnonRWX(hint, len) ==
    WithProt(WithProt(WithProt(
        WithFlag(WithFlag(WithLen(WithOffset(NewOption, hint), len),
                          "MAP_ANONYMOUS"), "MAP_PRIVATE"),
        "PROT_READ"), "PROT_WRITE"), "PROT_EXEC")

(***************************************************************************)
(* MapOption::Map = MappedRegion::New = mmap(offset, len, ...): the start  *)
(* addresses the kernel may return, given the [lo, hi) ranges the process *)
(* has mapped.  MAP_FIXED replaces whatever is there; otherwise a free     *)
(* hint is used, MAP_FIXED_NOREPLACE fails, and a plain hint is moved to   *)
(* any free range.  No room at all is ENOMEM (MMampError).                 *)
(***************************************************************************)
Placements(o, occupied) ==
    LET free(s) == /\ s + o.len <= AddrLimit
                   /\ \A m \in occupied : s + o.len <= m.lo \/ m.hi <= s
    IN  CASE "MAP_FIXED" \in o.flags -> {o.offset}
          [] free(o.offset) -> {o.offset}
          [] "MAP_FIXED_NOREPLACE" \in o.flags -> {}
          [] OTHER -> {s \in Word : free(s)}

\* mmap fails with room left only when huge pages are not reserved
MayFailAnyway(o) == "MAP_HUGETLB" \in o.flags

\* Drop for MappedRegion: munmap(ptr, sz) with the length asked for, which
\* the kernel rejects for a huge-page mapping not a whole number of huge
\* pages long; the Drop then panics
MunmapOk(o) == "MAP_HUGETLB" \notin o.flags \/ o.len % HugePageLen = 0
=============================================================================
