-------------------------------- MODULE Boot --------------------------------
(***************************************************************************)
(* The guest memory layout built by KVMMachine::init                       *)
(* (src/qvisor/src/kvmlib/mod.rs) with KernelELF::Init and LoadKernel      *)
(* (src/qvisor/src/kvmlib/ELFLoader.rs), over the page tables and pool of  *)
(* PageTables.                                                             *)
(*                                                                         *)
(* Host virtual = guest physical = guest virtual for everything mapped:   *)
(* pageMmap is placed at PHY_UPPER_ADDR, the memory slot maps guest        *)
(* physical PHY_UPPER_ADDR to the same host address, and every Map is an   *)
(* identity map.  The layout is scaled with its proportions kept: the pool *)
(* region (1GB) is PoolLen, the heap (lib.rs) sits halfway into it, the    *)
(* stack region (128MB) follows, holding guard + stack, and the kernel     *)
(* image starts right after, at PhyUpper + KernelMemSize.                  *)
(*                                                                         *)
(* An ELF image is the sequence of its PT_LOAD headers [vaddr, offset,     *)
(* filesz, memsz] and an entry point; Images is the set of images          *)
(* explored.  A byte of the loaded region is the file offset it was       *)
(* copied from, or NULL where the anonymous mapping's zeroes remain.       *)
(***************************************************************************)
EXTENDS PageTables, SequencesExt, MapOption

CONSTANTS PhyUpper,      \* MemMgr::PHY_UPPER_ADDR
          PoolLen,       \* 1 * ONE_GB: the pool region, mapped at init
          StackRegion,   \* 128 * ONE_MB: guard pages and stacks
          GuardSize,     \* STACK_GUARDPAGE_SIZE
          StackSize,     \* STACK_SIZE
          SlotLen,       \* 16 * ONE_GB: the one memory slot
          HeapStart,     \* HEAP_START of qkernel/lib.rs
          HeapSize,      \* HEAP_SIZE of qkernel/lib.rs
          Images         \* ELF images: [entry, segs: Seq([vaddr, offset, filesz, memsz])]

VARIABLES step, image, elf, hostMaps, slot, mem, pool, err,
          kmem,       \* the bytes of LoadKernel's region, once it is kept
          phyMgr,     \* PhyAddrMgr's [base, limit)
          entryByte   \* the byte init reads at the entry
vars == <<step, image, elf, hostMaps, slot, mem, pool, err, kmem, phyMgr, entryByte>>

\* kernelMemSize = 1 * ONE_GB + 128 * ONE_MB
KernelMemSize == PoolLen + StackRegion

\* topStackAddr = pageMmap + 1 * ONE_GB; the Map covers guard and stack
StackLo == PhyUpper + PoolLen
StackTop == StackLo + GuardSize + StackSize

\* the initial startAddr 0xfffff_fffff_fffff, above every start seen
InitStart == AddrLimit - 1

\* startMem of a PT_LOAD header: Addr(virtual_addr).RoundDown()
SegStart(h) == RoundDown(h.vaddr)

\* endMem rounded down instead of up
SegEndRoundDown(h) ==
    LET e == AddLen(h.vaddr, h.filesz)
    IN  IF e.ok THEN Ok(RoundDown(e.val)) ELSE e

\* endMem: Addr(virtual_addr).AddLen(file_size)?.RoundUp()?
SegEnd(h) ==
    LET e == AddLen(h.vaddr, h.filesz)
    IN  IF e.ok THEN RoundUp(e.val) ELSE e

\* KernelELF::Init's loop: the least startMem and the greatest endMem
RECURSIVE ElfBounds(_, _)
ElfBounds(segs, acc) ==
    IF segs = << >> \/ ~acc.ok THEN acc
    ELSE LET h == Head(segs)
             e == SegEnd(h)
         IN  ElfBounds(Tail(segs),
                 IF ~e.ok THEN e
                 ELSE Ok([start |-> IF SegStart(h) < acc.val.start
                                      THEN SegStart(h) ELSE acc.val.start,
                          end |-> IF acc.val.end < e.val
                                      THEN e.val ELSE acc.val.end]))

\* LoadKernel's loop: an identity Map of every PT_LOAD, stopping at an error
RECURSIVE MapSegments(_, _, _)
MapSegments(segs, m, pl) ==
    IF segs = << >> THEN [ret |-> Ok(FALSE), mem |-> m, pool |-> pl]
    ELSE LET h == Head(segs)
             r == Map(SegStart(h), SegEnd(h).val, SegStart(h), TRUE, m, pl)
         IN  IF r.ret.ok THEN MapSegments(Tail(segs), r.mem, r.pool) ELSE r

\* the copy placed at startMem, without pageOffset
CopySegmentAtStart(km, h) ==
    [a \in DOMAIN km |->
       IF a - SegStart(h) \in 0 .. h.filesz - 1
       THEN h.offset + (a - SegStart(h)) ELSE km[a]]

\* the copy of a PT_LOAD's file bytes to startMem + pageOffset, i.e. vaddr
CopySegment(km, h) ==
    LET pageOffset == h.vaddr - RoundDown(h.vaddr)
    IN  [a \in DOMAIN km |->
           IF a - (SegStart(h) + pageOffset) \in 0 .. h.filesz - 1
           THEN h.offset + (a - (SegStart(h) + pageOffset)) ELSE km[a]]

\* LoadKernel's anonymous region placed at `at`, after every copy in header
\* order; the copy writes through the raw pointer startMem + pageOffset, so
\* a byte whose address lies outside the region is not in it
LoadedBytes(at) ==
    FoldLeft(CopySegment, [a \in at .. at + (elf.end - elf.start) - 1 |-> NULL], image.segs)

Fail(e) == step' = "failed" /\ err' = e

Init ==
    /\ step = "kvm"
    /\ image = [entry |-> 0, segs |-> << >>]
    /\ elf = [start |-> InitStart, end |-> 0]
    /\ hostMaps = {}
    /\ slot = [lo |-> 0, hi |-> 0]
    /\ mem = [t \in PageIdx |-> ZeroTable]
    /\ pool = InitPool
    /\ err = "none"
    /\ kmem = <<>>
    /\ phyMgr = [base |-> 0, limit |-> 0]
    /\ entryByte = NULL

\* KernelELF::Init's early returns: File::open, Mmap::map or ElfFile::new
\* fail (IOError), or the header is not ELF64 (WrongELFFormat)
ElfFileErrors == {"IOError", "WrongELFFormat"}

\* Kvm::new and create_vm: either ioctl may fail (IOError)
OpenVm ==
    /\ step = "kvm"
    /\ \/ Fail("IOError")
       \/ step' = "elf" /\ UNCHANGED err
    /\ UNCHANGED <<image, elf, hostMaps, slot, mem, pool, kmem, phyMgr, entryByte>>

\* KernelELF::Init, then the check that the image starts right after
\* the kernel memory (AddressDoesMatch)
LoadElf ==
    /\ step = "elf"
    /\ \/ \* the file cannot be opened, mapped or parsed, or is not ELF64
          /\ \E e \in ElfFileErrors : Fail(e)
          /\ UNCHANGED <<image, elf>>
       \/ \E img \in Images :
           LET b == ElfBounds(img.segs, Ok([start |-> InitStart, end |-> 0]))
           IN  /\ image' = img
               /\ IF ~b.ok THEN Fail(b.err) /\ UNCHANGED elf
                  ELSE /\ elf' = b.val
                       /\ IF b.val.start # PhyUpper + KernelMemSize
                            THEN Fail("AddressDoesMatch")
                            ELSE step' = "kmem" /\ UNCHANGED err
    /\ UNCHANGED <<hostMaps, slot, mem, pool, kmem, phyMgr, entryByte>>

\* the mappings the rest of the host process (libraries, heap, arenas) may
\* hold over a hint at the time of an mmap: none, or one covering it
OtherMaps(hint) == {{}, {[lo |-> hint, hi |-> hint + 1]}}

\* initKernelMem's request: PHY_UPPER_ADDR as hint, kernelMemSize bytes,
\* huge pages, anonymous, private, RWX
KernelMemOption == WithFlag(AnonRWX(PhyUpper, KernelMemSize), "MAP_HUGETLB")

(***************************************************************************)
(* initKernelMem: the mmap fails (MMampError) when huge pages run out, and *)
(* a region placed away from the hint is dropped (its munmap panicking if  *)
(* the kernel refuses the length) and init fails with AddressDoesMatch.   *)
(***************************************************************************)
InitKernelMem ==
    /\ step = "kmem"
    /\ LET o == KernelMemOption
       IN  \/ MayFailAnyway(o) /\ Fail("MMampError") /\ UNCHANGED hostMaps
           \/ \E others \in OtherMaps(o.offset) : \E at \in Placements(o, hostMaps \cup others) :
                IF at # PhyUpper
                THEN /\ IF MunmapOk(o) THEN Fail("AddressDoesMatch")
                                       ELSE step' = "crashed" /\ UNCHANGED err
                     /\ UNCHANGED hostMaps
                ELSE /\ hostMaps' = {[lo |-> at, hi |-> at + o.len]}
                     /\ step' = "slot"
                     /\ UNCHANGED err
    /\ UNCHANGED <<image, elf, slot, mem, pool, kmem, phyMgr, entryByte>>

\* SetMemRegion(0, PHY_UPPER_ADDR, 16GB): guest physical = host address;
\* KVM_SET_USER_MEMORY_REGION may fail (IOError)
SetMemRegion ==
    /\ step = "slot"
    /\ \/ Fail("IOError") /\ UNCHANGED slot
       \/ /\ slot' = [lo |-> PhyUpper, hi |-> PhyUpper + SlotLen]
          /\ step' = "tables" /\ UNCHANGED err
    /\ UNCHANGED <<image, elf, hostMaps, mem, pool, kmem, phyMgr, entryByte>>

(***************************************************************************)
(* The VMS block of init: PagePool::Init over pageMmap, PageTables::New,   *)
(* the identity Map of the 1GB pool region and the identity Map of         *)
(* [topStackAddr, topStackAddr + guard + stack); each `?` ends init.       *)
(***************************************************************************)
InitTables ==
    /\ step = "tables"
    /\ LET r1 == Map(PhyUpper, PhyUpper + PoolLen, PhyUpper, TRUE,
                     [t \in PageIdx |-> ZeroTable], NewRoot.pool)
           r2 == Map(StackLo, StackTop, StackLo, TRUE, r1.mem, r1.pool)
       IN  CASE ~r1.ret.ok -> Fail(r1.ret.err) /\ mem' = r1.mem /\ pool' = r1.pool
             [] ~r2.ret.ok -> Fail(r2.ret.err) /\ mem' = r2.mem /\ pool' = r2.pool
             [] OTHER -> /\ mem' = r2.mem /\ pool' = r2.pool
                         /\ step' = "phys" /\ UNCHANGED err
    /\ UNCHANGED <<image, elf, hostMaps, slot, kmem, phyMgr, entryByte>>

\* hostMemOffset = pageMmap + kernelMemSize: the kernel image's start
HostMemOffset == AddLen(PhyUpper, KernelMemSize)

\* PhyAddrMgr::Init(hostMemOffset, 7 * BLOCK_SIZE), with 7 * BLOCK_SIZE =
\* PHY_UPPER_ADDR; each AddLen fails on overflow
PhyAddrMgrInit ==
    /\ step = "phys"
    /\ LET off == HostMemOffset
           lim == AddLen(off.val, PhyUpper)
       IN  CASE ~off.ok -> Fail(off.err) /\ UNCHANGED phyMgr
             [] ~lim.ok -> Fail(lim.err) /\ UNCHANGED phyMgr
             [] OTHER -> /\ phyMgr' = [base |-> off.val, limit |-> lim.val]
                         /\ step' = "load" /\ UNCHANGED err
    /\ UNCHANGED <<image, elf, hostMaps, slot, mem, pool, kmem, entryByte>>

\* LoadKernel's request: startAddr as hint, endAddr - startAddr bytes,
\* anonymous, private, RWX
LoadKernelOption == AnonRWX(elf.start, elf.end - elf.start)

\* the placement check left out
PlacedAnywhere(at) == TRUE

\* `if hostAddr.0 != self.startAddr.0 { return Err(AddressDoesMatch) }`
PlacedAtStart(at) == at = elf.start

(***************************************************************************)
(* KernelELF::LoadKernel: an anonymous mapping of [startAddr, endAddr)     *)
(* with startAddr as hint (AddressDoesMatch when the host placed it        *)
(* elsewhere), then for each PT_LOAD the copy of its file bytes into it    *)
(* and the identity Map of [startMem, endMem).  The region is kept in      *)
(* self.mr only on success; on an error it is dropped, i.e. unmapped,      *)
(* while the tables keep what Map had installed.  On success init goes on  *)
(* to read the byte at the entry.                                          *)
(***************************************************************************)
LoadKernel ==
    /\ step = "load"
    /\ LET o == LoadKernelOption
           r == MapSegments(image.segs, mem, pool)
       IN  \E others \in OtherMaps(o.offset) : \E at \in Placements(o, hostMaps \cup others) :
             IF ~PlacedAtStart(at)
             THEN Fail("AddressDoesMatch") /\ UNCHANGED <<hostMaps, mem, pool, kmem>>
             ELSE /\ mem' = r.mem /\ pool' = r.pool
                  /\ IF r.ret.ok
                       THEN /\ hostMaps' = hostMaps \cup {[lo |-> at, hi |-> at + o.len]}
                            /\ kmem' = LoadedBytes(at)
                            /\ step' = "entry" /\ UNCHANGED err
                       ELSE Fail(r.ret.err) /\ UNCHANGED <<hostMaps, kmem>>
    /\ UNCHANGED <<image, elf, slot, phyMgr, entryByte>>

\* init prints *(entry as *const u8): a host read of the entry address,
\* which kills the process with SIGSEGV where no host mapping backs it
ReadEntry ==
    /\ step = "entry"
    /\ IF \E h \in hostMaps : h.lo <= image.entry /\ image.entry < h.hi
         THEN /\ entryByte' = IF image.entry \in DOMAIN kmem THEN kmem[image.entry] ELSE NULL
              /\ step' = "done"
         ELSE step' = "crashed" /\ UNCHANGED entryByte
    /\ UNCHANGED <<image, elf, hostMaps, slot, mem, pool, err, kmem, phyMgr>>

Next == OpenVm \/ LoadElf \/ InitKernelMem \/ SetMemRegion \/ InitTables \/ PhyAddrMgrInit
        \/ LoadKernel \/ ReadEntry

Spec == Init /\ [][Next]_vars

-----------------------------------------------------------------------------

Pages(lo, hi) == {a \in lo .. hi - 1 : IsPageAligned(a)}
Mapped(a) == VirtuallToPhy(mem, a).ok
Backed(a) == \E h \in hostMaps : h.lo <= a /\ a < h.hi
InSlot(a) == slot.lo <= a /\ a < slot.hi

\* the guest-physical addresses of the page tables (CR3 and every table)
TablePages == {PageAddr(t).val : t \in 0 .. pool.next - 1}

\* the pages holding the bytes [vaddr, vaddr + n) of a segment
BytePages(h, n) == {RoundDown(b) : b \in h.vaddr .. h.vaddr + n - 1}

\* what the guest touches before it can fault: the code and data of its
\* image as filed, the heap, the stack below rsp
FiledPages == UNION {BytePages(h, h.filesz) : h \in Range(image.segs)}
HeapPages == Pages(HeapStart, HeapStart + HeapSize)
StackPages == Pages(StackTop - StackSize, StackTop)

(***************************************************************************)
(* After init, every guest-virtual page maps to itself, inside the memory  *)
(* slot and backed by a host mapping; the code, heap and stack the guest   *)
(* uses are mapped; and the page tables lie in backed slot memory outside *)
(* the heap, the stack and the image, where no guest write reaches them.  *)
(***************************************************************************)
LayoutSound ==
    step = "done" =>
        /\ \A a \in Pages(0, LOWER_TOP + 1) :
              Mapped(a) => /\ VirtuallToPhy(mem, a).val = a
                           /\ InSlot(a) /\ Backed(a)
        /\ \A a \in FiledPages \cup HeapPages \cup StackPages \cup {RoundDown(image.entry)} :
              Mapped(a)
        /\ \A a \in TablePages :
              /\ InSlot(a) /\ Backed(a)
              /\ a \notin HeapPages \cup StackPages \cup FiledPages

(***************************************************************************)
(* The byte init reads at the entry (mod.rs) is the file's byte for that   *)
(* address: for every PT_LOAD whose file bytes cover the entry, the byte   *)
(* at p_offset + (entry - p_vaddr).  It takes LoadKernel's copies to the   *)
(* right place within each page, in header order, and the host read of    *)
(* the region they went to.                                                *)
(***************************************************************************)
EntryByteLoaded ==
    step = "done" =>
        \A h \in Range(image.segs) :
            image.entry - h.vaddr \in 0 .. h.filesz - 1 =>
                entryByte = h.offset + (image.entry - h.vaddr)

(***************************************************************************)
(* Once init is past LoadKernel, every file byte of every PT_LOAD is in    *)
(* LoadKernel's region, at its vaddr.  The copy writes through the raw     *)
(* host pointer startMem + pageOffset, not through the pointer mmap        *)
(* returned, so this rests on the rejection of a region the host placed   *)
(* away from startAddr (ELFLoader.rs), which the rest of the process can  *)
(* force by holding the hint.                                              *)
(***************************************************************************)
SegmentsCopied ==
    step \in {"entry", "done"} =>
        \A h \in Range(image.segs) : \A i \in 0 .. h.filesz - 1 :
            /\ h.vaddr + i \in DOMAIN kmem
            /\ kmem[h.vaddr + i] = h.offset + i
=============================================================================
