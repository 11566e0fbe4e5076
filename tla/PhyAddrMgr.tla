----------------------------- MODULE PhyAddrMgr -----------------------------
(***************************************************************************)
(* PhyAddrMgr, PhyRegion and MappedRegion of                              *)
(* src/qvisor/src/kvmlib/MemMgr.rs: a registry of anonymous host mappings  *)
(* keyed by their offset from hostBaseAddr (the guest-physical start).     *)
(*                                                                         *)
(* maps is the set of the host process's live mappings [start, len, huge]; *)
(* what mmap may do with InitAnan's request is MapOption's Placements.     *)
(* A MappedRegion is unmapped when it is dropped, on every error path      *)
(* after the mmap and on Free, and the Drop panics when munmap fails.      *)
(* Addresses are counted in pages (PageSize = 1).                          *)
(***************************************************************************)
EXTENDS MapOption, FiniteSets, TLC

CONSTANTS HostBase,   \* hostBaseAddr given to PhyAddrMgr::Init
          LimitLen,   \* len given to PhyAddrMgr::Init
          PreMapped,  \* mappings the process holds already
          Lens,       \* region lengths requested
          MaxCalls    \* bound on the number of calls

VARIABLES maps, regions, panicked, ret, calls
vars == <<maps, regions, panicked, ret, calls>>

\* PhyAddrMgr::Init: hostAddrLimit = hostBaseAddr.AddLen(len)?
HostLimit == AddLen(HostBase, LimitLen).val

\* the ranges the process has mapped
Occupied == {[lo |-> m.start, hi |-> m.start + m.len] : m \in maps}

\* PhyRegion::InitAnan's request: hostBaseAddr as hint, anonymous, private,
\* RWX, and MAP_HUGETLB when hugePage
InitAnanOption(len, huge) ==
    LET o == AnonRWX(HostBase, len)
    IN  IF huge THEN WithFlag(o, "MAP_HUGETLB") ELSE o

Init ==
    /\ maps = PreMapped
    /\ regions = << >>
    /\ panicked = FALSE
    /\ ret = "none"
    /\ calls = 0

Call == ~panicked /\ calls < MaxCalls /\ calls' = calls + 1

\* a Drop that leaves the mapping in place
MunmapNoop(ms, m) == ms

\* Drop for MappedRegion: munmap(ptr, sz) removes the mapping when it
\* succeeds (DropPanics says when it does not)
Munmap(ms, m) == ms \ {m}

\* the Drop of region m panics: munmap refused its length
DropPanics(m) == ~MunmapOk(InitAnanOption(m.len, m.huge))

\* a guest-physical start taken as the host address itself
PhyStartAddrHost(s) == Ok(s)

\* PhyRegion::PhyStartAddr: mr.Start().Offset(hostBaseAddr), then unwrap
PhyStartAddr(s) == Offset(s, HostBase)

(***************************************************************************)
(* PhyAddrMgr::AllocAnan(len, hugePage): PhyRegion::InitAnan maps an       *)
(* anonymous region with hostBaseAddr as hint (MapOption::Map, MMampError  *)
(* on failure), rejects it when its end overflows or reaches               *)
(* hostAddrLimit (the Box<MappedRegion> is dropped: munmap), then          *)
(* PhyStartAddr = Start().Offset(hostBaseAddr).unwrap() panics for a       *)
(* region below hostBaseAddr; otherwise the region is inserted under that  *)
(* key (replacing any entry there) and the key returned.                   *)
(***************************************************************************)
AllocAnan(len, huge) ==
    /\ Call
    /\ LET o == InitAnanOption(len, huge)
       IN
       \/ /\ MayFailAnyway(o) \/ Placements(o, Occupied) = {}
          /\ ret' = Err("MMampError")
          /\ UNCHANGED <<maps, regions, panicked>>
       \/ \E s \in Placements(o, Occupied) :
            LET end == AddLen(s, len)
                m == [start |-> s, len |-> len, huge |-> huge]
            IN  IF ~end.ok \/ end.val >= HostLimit
                  THEN IF DropPanics(m)
                         THEN /\ maps' = maps \cup {m} /\ panicked' = TRUE
                              /\ UNCHANGED <<regions, ret>>
                         ELSE /\ maps' = Munmap(maps \cup {m}, m)
                              /\ ret' = IF end.ok THEN Err("AddressNotInRange") ELSE end
                              /\ UNCHANGED <<regions, panicked>>
                  ELSE /\ maps' = maps \cup {m}
                       /\ IF ~PhyStartAddr(s).ok
                            THEN panicked' = TRUE /\ UNCHANGED <<regions, ret>>
                            ELSE /\ regions' = (PhyStartAddr(s).val :> [host |-> s, len |-> len, huge |-> huge]) @@ regions
                                 /\ ret' = PhyStartAddr(s)
                                 /\ UNCHANGED panicked

\* PhyAddrMgr::PhyToHostAddr(phyStartAddr)
PhyToHostAddr(phys) ==
    /\ Call
    /\ ret' = IF phys \in DOMAIN regions THEN Ok(regions[phys].host)
                                         ELSE Err("UnmatchRegion")
    /\ UNCHANGED <<maps, regions, panicked>>

\* PhyAddrMgr::Free(start, len): no entry or another length is
\* UnmatchRegion; otherwise the entry is removed and its region dropped
Free(start, len) ==
    /\ Call
    /\ IF start \in DOMAIN regions /\ regions[start].len = len
         THEN LET m == [start |-> regions[start].host, len |-> len,
                        huge |-> regions[start].huge]
              IN  /\ regions' = [k \in DOMAIN regions \ {start} |-> regions[k]]
                  /\ IF DropPanics(m)
                       THEN panicked' = TRUE /\ UNCHANGED <<maps, ret>>
                       ELSE /\ maps' = Munmap(maps, m) /\ ret' = Ok(TRUE)
                            /\ UNCHANGED panicked
         ELSE /\ ret' = Err("UnmatchRegion")
              /\ UNCHANGED <<maps, regions, panicked>>

\* keys a caller may pass: every offset into the managed range
Keys == 0 .. LimitLen

Next ==
    \/ \E len \in Lens, huge \in BOOLEAN : AllocAnan(len, huge)
    \/ \E k \in Keys : PhyToHostAddr(k)
    \/ \E k \in Keys, len \in Lens : Free(k, len)

Spec == Init /\ [][Next]_vars

-----------------------------------------------------------------------------

TypeOK ==
    /\ maps \subseteq [start : Word, len : Lens, huge : BOOLEAN] \cup PreMapped
    /\ regions \in [DOMAIN regions -> [host : Word, len : Lens, huge : BOOLEAN]]
    /\ DOMAIN regions \subseteq Keys
    /\ panicked \in BOOLEAN
    /\ calls \in 0 .. MaxCalls

(***************************************************************************)
(* While the process lives, the registry and the host's mappings agree:    *)
(* every mapping the manager made is registered under its offset from      *)
(* hostBaseAddr and lies in [hostBaseAddr, hostAddrLimit), every           *)
(* registered region is such a live mapping, and none is lost or leaked    *)
(* across the error paths of AllocAnan and Free (spec 3 and 4.4).          *)
(***************************************************************************)
RegistryMatchesHost ==
    ~panicked =>
        /\ DOMAIN regions = {m.start - HostBase : m \in maps \ PreMapped}
        /\ \A k \in DOMAIN regions :
              /\ [start |-> regions[k].host, len |-> regions[k].len,
                  huge |-> regions[k].huge] \in maps \ PreMapped
              /\ regions[k].host = HostBase + k
              /\ HostBase <= regions[k].host
              /\ regions[k].host + regions[k].len <= HostLimit

(***************************************************************************)
(* AllocAnan reports a misplaced region as an error instead of bringing    *)
(* the process down (spec 7: every fallible operation returns a result).  *)
(***************************************************************************)
NoPanic == ~panicked
=============================================================================
