-------------------------- MODULE AbstractPageMap ---------------------------
(***************************************************************************)
(* What PageTables::Map promises (spec 4.3 and 8), as a partial function   *)
(* vmap from mapped page-aligned virtual addresses to physical addresses.  *)
(*                                                                         *)
(*  - a request without access unmaps, which is a stub: nothing changes    *)
(*    and Ok(true) is returned;                                            *)
(*  - a misaligned start or end < start is an error and changes nothing;   *)
(*  - a range from the lower half is clipped at LOWER_TOP, a range that    *)
(*    starts in the non-canonical gap keeps only its part from             *)
(*    UPPER_BOTTOM on;                                                     *)
(*  - every page v of the range that was unmapped now maps to              *)
(*    phys + (v - start); a page already mapped keeps its translation and *)
(*    the call reports it (Ok(TRUE));                                      *)
(*  - when the page pool runs out or the address wraps, the call fails    *)
(*    with the pages up to that point mapped and no later one.            *)
(***************************************************************************)
EXTENDS Addr, FiniteSets

CONSTANTS LOWER_TOP, UPPER_BOTTOM, MapArgs

VARIABLES vmap, ret

Init == vmap = << >> /\ ret = "none"

\* the part of [start, end) that Map is to map
Clipped(a) ==
    CASE a.start < LOWER_TOP ->
             [lo |-> a.start, hi |-> IF a.end <= LOWER_TOP THEN a.end ELSE LOWER_TOP]
      [] a.start < UPPER_BOTTOM -> [lo |-> UPPER_BOTTOM, hi |-> a.end]
      [] OTHER -> [lo |-> a.start, hi |-> a.end]

\* the pages of the clipped range below `bound`
PagesBelow(a, bound) ==
    LET c == Clipped(a)
    IN  {v \in c.lo .. c.hi - 1 : (v - c.lo) % PageSize = 0 /\ v < bound}

Extend(f, S, a) ==
    [v \in DOMAIN f \cup S |-> IF v \in DOMAIN f THEN f[v] ELSE a.phys + v - a.start]

MapRequest(a) ==
    LET R == PagesBelow(a, AddrLimit)
    IN  CASE ~a.access -> vmap' = vmap /\ ret' = Ok(TRUE)
          [] ~IsPageAligned(a.start) -> vmap' = vmap /\ ret' = Err("UnallignedAddress")
          [] a.end < a.start -> vmap' = vmap /\ ret' = Err("AddressNotInRange")
          [] OTHER ->
               \/ /\ vmap' = Extend(vmap, R, a)
                  /\ ret' = Ok(R \cap DOMAIN vmap # {})
               \/ \E k \in 0 .. Cardinality(R), e \in {"NoEnoughMemory", "Overflow"} :
                    /\ vmap' = Extend(vmap, PagesBelow(a, Clipped(a).lo + k * PageSize), a)
                    /\ ret' = Err(e)

Next == \E a \in MapArgs : MapRequest(a)

Spec == Init /\ [][Next]_<<vmap, ret>>
=============================================================================
