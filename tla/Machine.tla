------------------------------- MODULE Machine -------------------------------
(***************************************************************************)
(* The whole program: KVMMachine::init (Boot) followed by KVMMachine::run  *)
(* (VMRun), with the guest's memory accesses going through the page       *)
(* tables Boot built.  main calls init and, when it succeeds, run; run     *)
(* creates the vCPU, points CR3 at the root table (setup_long_mode) and    *)
(* sets rip = entry, rsp = topStackAddr - 1.                               *)
(*                                                                         *)
(* Each step of rust_main touches some guest-virtual pages: its code (the  *)
(* text segment), the stack just below rsp, the statics ALLOCATOR and      *)
(* SHARESPACE (zero-initialised, so at the end of .bss, the last bytes of  *)
(* the last PT_LOAD), and the heap.  The MMU walks the tables from CR3; a  *)
(* page it cannot translate raises #PF.  init_idt never loads the IDT, so  *)
(* the IDTR keeps its reset base 0, and a fault whose gate page is         *)
(* unmapped escalates to a triple fault: a Shutdown exit.                  *)
(***************************************************************************)
EXTENDS Naturals, FiniteSets, Sequences

CONSTANTS AddrBits, PageSize, BaseAddr, PageCount, IdxBits, EntryCount, NULL,
          PhyUpper, PoolLen, StackRegion, GuardSize, StackSize, SlotLen,
          HeapStart, HeapSize, Images, Lines, HugePageLen,
          WordSize,   \* bytes of the return address rust_main's ret pops (8)
          FrameSize   \* bytes below rsp the guest's calls push

VARIABLES step, image, elf, hostMaps, slot, mem, pool, err, kmem, phyMgr, entryByte,
          gpc, gmode, heap, locked, msgAddr, exit, shareSpace, host, out,
          cpu   \* the vCPU's special registers, rip and rsp once run set them

B == INSTANCE Boot
R == INSTANCE VMRun

bootVars == <<step, image, elf, hostMaps, slot, mem, pool, err, kmem, phyMgr, entryByte>>
runVars == <<gpc, gmode, heap, locked, msgAddr, exit, shareSpace, host, out>>
vars == <<bootVars, runVars, cpu>>

\* CR3 loaded with the root's pool index rather than its address
Cr3Index == B!Root

\* setup_long_mode: cr3 = pageTables.root.0, the address Allocate gave New
Cr3 == B!PageAddr(B!Root).val

\* the control-register flags of kvmlib/mod.rs that setup_long_mode uses;
\* each is one bit (1 << n), and a register value is the set of its set
\* bits, so that OR of flags is union (CR0_PG is bit 31, past TLC's ints)
CR0_PE == {0}
CR0_MP == {1}
CR0_ET == {4}
CR0_NE == {5}
CR0_WP == {16}
CR0_AM == {18}
CR0_PG == {31}
CR4_PAE == {5}
EFER_SCE == {0}
EFER_LME == {8}
EFER_LMA == {10}

\* x & flag != 0
Bit(x, flag) == flag \subseteq x

\* setup_long_mode and setup_64bit_code_segment: the special registers;
\* only the code segment's L and D/B bits matter to mode checks
LongModeSregs ==
    [cr3 |-> Cr3,
     cr4 |-> CR4_PAE,
     cr0 |-> CR0_PE \cup CR0_MP \cup CR0_ET \cup CR0_NE \cup CR0_WP \cup CR0_AM \cup CR0_PG,
     efer |-> EFER_LME \cup EFER_LMA \cup EFER_SCE,
     csL |-> 1, csDB |-> 0]

\* KVM_SET_SREGS refuses long-mode paging without PAE or without LMA, and
\* LMA or a 64-bit CS without it (kvm_is_valid_sregs)
KvmValidSregs(sr) ==
    IF Bit(sr.efer, EFER_LME) /\ Bit(sr.cr0, CR0_PG)
    THEN Bit(sr.cr4, CR4_PAE) /\ Bit(sr.efer, EFER_LMA)
    ELSE ~Bit(sr.efer, EFER_LMA) /\ sr.csL = 0

\* VM entry's guest-state checks: paging needs protection, and a code
\* segment cannot be both 64-bit and 32-bit default
VmEntryOk(sr) == (Bit(sr.cr0, CR0_PG) => Bit(sr.cr0, CR0_PE)) /\ ~(sr.csL = 1 /\ sr.csDB = 1)

\* the entry point is 64-bit code: executed elsewhere than in 64-bit mode
\* it decodes as something else
Mode64(sr) == Bit(sr.efer, EFER_LMA) /\ sr.csL = 1

\* init_idt prints &IDT but leaves IDT.load() commented out
IdtBase == 0

\* the pool page at guest-physical address a, or NULL: the MMU reads
\* tables from physical memory, and memory outside the pool holds none
TableAt(a) ==
    IF /\ a >= BaseAddr /\ (a - BaseAddr) % PageSize = 0
       /\ (a - BaseAddr) \div PageSize < PageCount
    THEN (a - BaseAddr) \div PageSize ELSE NULL

\* the MMU's walk from CR3: the physical page of v, or NULL (#PF)
HwWalk(v) ==
    LET next(t, lvl) == IF t = NULL THEN NULL ELSE mem[t][B!Index(v, lvl)]
        pg == next(next(next(next(TableAt(cpu.sregs.cr3), 4), 3), 2), 1)
    IN  IF v > B!LOWER_TOP /\ v < B!UPPER_BOTTOM THEN NULL ELSE pg

\* an access to the pages ps: a #PF, an exit for memory outside every slot,
\* a failing KVM_RUN for slot memory with no host mapping behind it, or ok
Outcome(ps) ==
    CASE \E a \in ps : HwWalk(a) = NULL -> "fault"
      [] \E a \in ps : ~B!InSlot(HwWalk(a)) -> "mmio"
      [] \E a \in ps : ~B!Backed(HwWalk(a)) -> "efault"
      [] OTHER -> "ok"

Text == Head(image.segs)
Last == image.segs[Len(image.segs)]
CodePages == B!BytePages(Text, Text.filesz)
StaticsPage == B!RoundDown(Last.vaddr + Last.memsz - 1)
HeapPage == B!RoundDown(HeapStart)
Frame == {B!RoundDown(a) : a \in cpu.rsp - FrameSize .. cpu.rsp - 1}
RetSlot == {B!RoundDown(a) : a \in cpu.rsp .. cpu.rsp + WordSize - 1}

\* the pages each operation of rust_main touches: LockedHeap::init writes
\* ALLOCATOR and the first hole at HEAP_START; INIT runs SHARESPACE's lazy
\* init; Print allocates its String and locks SHARESPACE; ret pops rip
Touches == [heap   |-> CodePages \cup Frame \cup {StaticsPage, HeapPage},
            init   |-> CodePages \cup Frame \cup {StaticsPage},
            setmsg |-> CodePages \cup Frame \cup {StaticsPage, HeapPage},
            wait   |-> CodePages \cup Frame,
            ret    |-> CodePages \cup RetSlot]

Init ==
    /\ B!Init /\ R!Init
    /\ cpu = [on |-> FALSE, rip |-> 0, rsp |-> 0,
              sregs |-> [cr3 |-> 0, cr4 |-> {}, cr0 |-> {}, efer |-> {}, csL |-> 0, csDB |-> 0]]

\* KVMMachine::init, step by step
BootStep == B!Next /\ UNCHANGED <<runVars, cpu>>

\* main: match KVMMachine::init { Ok(vm) => vm.run().expect(..), Err(e) =>
\* print it and return }: run follows only an Ok init
InitOk == step = "done"

\* run, once init returned Ok: CreateVCPU, setup_long_mode (get_sregs,
\* set_sregs), set_regs.  A failing ioctl or a refused set_sregs returns
\* Err from run, and main's expect panics
SetupVCpu ==
    /\ InitOk /\ ~cpu.on /\ host = "running"
    /\ \/ /\ host' = "panicked"
          /\ UNCHANGED <<cpu, gpc, gmode, heap, locked, msgAddr, exit, shareSpace, out>>
       \/ IF KvmValidSregs(LongModeSregs)
          THEN /\ cpu' = [on |-> TRUE, sregs |-> LongModeSregs,
                          rip |-> image.entry, rsp |-> B!StackTop - 1]
               /\ UNCHANGED runVars
          ELSE /\ host' = "panicked"
               /\ UNCHANGED <<cpu, gpc, gmode, heap, locked, msgAddr, exit, shareSpace, out>>
    /\ UNCHANGED bootVars

(***************************************************************************)
(* KVM_RUN fails VM entry on an inconsistent guest state (FailEntry exit) *)
(* and runs 64-bit code as garbage outside 64-bit mode.  Otherwise the    *)
(* guest executes its next operation if every page it touches is          *)
(* there.  A #PF vectors through the IDT at IdtBase: unmapped, so the      *)
(* exception escalates to a triple fault and the vCPU exits with Shutdown. *)
(* An access outside the slot exits as MMIO and is retried after the host  *)
(* resumes; slot memory without host backing makes KVM_RUN fail, and      *)
(* run's expect("run failed") panics.  A return that finds its slot       *)
(* mapped jumps to whatever the top of the stack holds (gmode "wild").     *)
(***************************************************************************)
GuestStep ==
    /\ cpu.on /\ host = "running" /\ exit = R!NoExit /\ gmode = "run"
    /\ gpc <= Len(R!Prog)
    /\ LET op == R!Prog[gpc].op
           o == Outcome(Touches[op])
       IN  CASE ~VmEntryOk(cpu.sregs) ->
                  /\ exit' = [kind |-> "FailEntry"]
                  /\ UNCHANGED <<gpc, gmode, heap, locked, msgAddr, shareSpace, host, out>>
             [] ~Mode64(cpu.sregs) ->
                  /\ gmode' = "wild"
                  /\ UNCHANGED <<gpc, heap, locked, msgAddr, exit, shareSpace, host, out>>
             [] o = "fault" ->
                  /\ IF HwWalk(IdtBase) = NULL
                       THEN exit' = [kind |-> "Shutdown"] /\ gmode' = "faulted"
                       ELSE gmode' = "wild" /\ UNCHANGED exit
                  /\ UNCHANGED <<gpc, heap, locked, msgAddr, shareSpace, host, out>>
             [] o = "mmio" ->
                  /\ exit' = [kind |-> "MmioWrite"]
                  /\ UNCHANGED <<gpc, gmode, heap, locked, msgAddr, shareSpace, host, out>>
             [] o = "efault" ->
                  /\ host' = "panicked" /\ gmode' = "efault"
                  /\ UNCHANGED <<gpc, heap, locked, msgAddr, exit, shareSpace, out>>
             [] op = "ret" ->
                  /\ gmode' = "wild"
                  /\ UNCHANGED <<gpc, heap, locked, msgAddr, exit, shareSpace, host, out>>
             [] OTHER -> R!Guest
    /\ UNCHANGED <<bootVars, cpu>>

\* one pass of run's exit loop
HostStep == cpu.on /\ R!HandleExit /\ UNCHANGED <<bootVars, cpu>>

Next == BootStep \/ SetupVCpu \/ GuestStep \/ HostStep

(***************************************************************************)
(* After init, the host thread goes on into run, whose loop only waits on *)
(* KVM_RUN, and a running vCPU keeps executing: these are weakly fair.     *)
(* The properties speak of what follows a successful init, so no fairness *)
(* is assumed of init itself.                                              *)
(***************************************************************************)
Spec == Init /\ [][Next]_vars
          /\ WF_vars(SetupVCpu) /\ WF_vars(GuestStep) /\ WF_vars(HostStep)

-----------------------------------------------------------------------------

(***************************************************************************)
(* The layout init builds carries rust_main: every operation before the   *)
(* return finds its code, stack, heap and statics translated by the tables *)
(* under CR3 to backed slot memory.  The only fault the guest ever takes   *)
(* is at its return.                                                       *)
(***************************************************************************)
FaultOnlyAtReturn ==
    gmode \notin {"run", "spin"} => gmode = "faulted" /\ R!Prog[gpc].op = "ret"

(***************************************************************************)
(* Once run has set the vCPU up (init returned Ok and no ioctl of run's    *)
(* setup failed), the guest's whole text eventually reaches host stdout.   *)
(***************************************************************************)
RunCompletes == cpu.on ~> (out = R!GuestText)

(***************************************************************************)
(* Once run has set the vCPU up, it leaves the exit loop through Hlt      *)
(* (spec 4.6), not through a panic.                                        *)
(***************************************************************************)
RunEndsByHalt == cpu.on ~> (host = "returned")
=============================================================================
