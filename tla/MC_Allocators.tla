--------------------------- MODULE MC_Allocators ---------------------------
(***************************************************************************)
(* The two allocators of qlib side by side: PagePool under its caller and *)
(* RangeMgr under its own.  They share no state, so the interleaving adds  *)
(* no behaviour to either.  RangeMgr starts at 0 or with its range ending  *)
(* at the last word, where the space test's u64 sum wraps.                *)
(***************************************************************************)
EXTENDS PagePoolClient

VARIABLES rmgr, rret, rcursor

MCStarts == {0, AddrLimit - 2, AddrLimit - 1}
MCLens == 0 .. PageSize

RM == INSTANCE RangeMgr WITH Starts <- MCStarts, Lens <- MCLens,
                             mgr <- rmgr, ret <- rret, cursor <- rcursor

rmVars == <<rmgr, rret, rcursor>>
allVars == <<vars, rmVars>>

\* PagePoolClient's steps leave RangeMgr's caller alone, and conversely
MCNext ==
    \/ DoAllocate /\ UNCHANGED rmVars
    \/ \E a \in FreeTargets : DoFree(a) /\ UNCHANGED rmVars
    \/ RM!CallInit /\ UNCHANGED vars
    \/ RM!CallAllocate /\ UNCHANGED vars
    \/ RM!CallOccupyRange /\ UNCHANGED vars
    \/ RM!CallFree /\ UNCHANGED vars

MCSpec == RM!RMInit /\ Init /\ [][MCNext]_allVars

(***************************************************************************)
(* RangeMgr::Allocate grants exactly what fits below end, at the cursor   *)
(* of a bump allocator in the integers (RangeMgr!GrantsWhatFits).          *)
(***************************************************************************)
RangeMgrGrantsWhatFits == RM!GrantsWhatFits
=============================================================================
