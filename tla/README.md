# TLA+ models of rustkvm

rustkvm is a small KVM-based hypervisor (`src/qvisor`) that boots a tiny
guest kernel (`src/qkernel`). The two share a library (`src/qlib`) with
address arithmetic, a page-frame pool and a 4-level x86-64 page-table builder.
This directory holds TLA+ models of those parts and the TLC configurations
that check them.

## 1. The system and its parts

| Part | Source | State | Operations | Interacts with |
|---|---|---|---|---|
| Address primitives | `qlib/Addr.rs` | none (a `u64` value) | AddLen, RoundDown, RoundUp, PageOffset, IsPageAligned, PageAligned, AddPages, PageOffsetIdx, Offset | used by everything |
| RangeMgr | `qlib/Addr.rs` | start, end, offset | Init, Allocate (bump); OccupyRange and Free are stubs | unused |
| PagePool | `qlib/PageTable.rs` | baseAddr, next, pageCount, freePool (a stack of u32 indices) | Init, Allocate, Free, GetPageIdx, GetPageAddr | PageTables draws its table pages from it |
| PageTables | `qlib/PageTable.rs`, constants in `qlib/mod.rs` | root, and the table pages in guest memory | New, Map (with mapCanonical), VirtuallToPhy, Unmap (stub) | PagePool; called through VMSpace |
| VMSpace | `qvisor/kvmlib/vmspace/mod.rs` | `Option<PagePool>`, `Option<PageTables>` behind the global `VMS` lock | Map | KVMMachine::init, KernelELF::LoadKernel |
| Host memory regions | `qvisor/kvmlib/MemMgr.rs` | PhyAddrMgr: base, limit, map phys start → PhyRegion; MappedRegion (RAII mmap) | AllocAnan, PhyToHostAddr, Free; MapOption builder; munmap on drop | created by KVMMachine::init |
| ELF loader | `qvisor/kvmlib/ELFLoader.rs` | file mapping, start/end, entry, backing region | Init, LoadKernel | VMSpace::Map, MapOption |
| VM setup and exit loop | `qvisor/kvmlib/mod.rs` | vm/vcpu fds, shareSpace pointer | init, run (exit dispatch: INIT, WAIT, PANIC hypercalls, Hlt, FailEntry) | the guest through port I/O and shared memory |
| Hypercall protocol | `qlib/mod.rs` | ShareSpace { msg pointer } | HyperCall, Wait, SetMsg, GetMsg | guest ↔ host |
| Guest kernel | `qkernel/lib.rs`, `Kernel.rs`, `print.rs`, `interrupts.rs` | SHARESPACE (spin lock), PRINT_STRUCT, the heap | rust_main (INIT, init_idt, prints, hlt), Kernel::Print/Call, panic handlers | the host through hypercalls |
| Process entry | `qvisor/main.rs` | none | init then run | — |

There is one host thread and one virtual CPU (spec §5). The guest runs until
it traps; the host handles the trap and resumes it. Guest and host therefore
alternate strictly, with the shared message slot in between. The page pool and
the page tables are only touched by the host during setup, under the `VMS`
lock. The guest reaches its memory only through those tables: run points
CR3 at their root, and every access the guest makes is translated by the
MMU. A fault finds no IDT, because `init_idt` never loads one, so any fault
ends the VM.

### What is hard here and what the properties aim at

- **PagePool.** Allocate reuses freed pages (LIFO) before it advances the
  bump cursor. Free checks the alignment and the upper bound of the index, but
  not whether the page was ever handed out. The index is computed with an
  `as u32` cast. A sequence of legal calls can hand one page to two owners.
  Property: `UniqueOwnership`. The pool bookkeeping is checked by
  `PagesPartitioned`: every page is never-used, freed or owned, and exactly
  one of them.
- **mapCanonical.** Four nested loops keep four indices with carries. They can
  run out of pool pages at any level, and the address can wrap after the top
  page. A leaf that is already present is kept. The promise is
  AbstractPageMap, the translation the tables give. `AbsSpec` is the
  refinement. `TablesFormTree` says the table pages form a tree, with no page
  shared or leaked.
- **Map's clipping.** Lower-half ranges are cut at LOWER_TOP. Ranges that
  start in the non-canonical gap are cut to start at UPPER_BOTTOM. This is
  also checked by `AbsSpec`.
- **Host/guest protocol.** WAIT before INIT dereferences a null pointer, and
  so does WAIT before SetMsg (`NoNullDeref`). The message slot has a spin
  lock that the host takes on the only thread, so a guest holding it across
  Wait would hang the host. After a guest PANIC the loop never ends. Host
  stdout must be exactly the guest's text in order (`PrintsDelivered`).
- **Boot layout.** The loader sizes segments by p_filesz, so a `.bss` tail
  can be left unmapped, and the statics in it fault (`RunCompletes` of
  `Machine`). The stack guard gap is mapped. Everything the guest uses must be identity-mapped,
  inside the one 16GB slot, and backed by a host mapping, and the page
  tables must lie clear of the heap, stack and image (`LayoutSound`). Both
  hinted mmaps may be refused a placement, which fails init.

## 2. Modules

| Module | Models | How it corresponds to the code |
|---|---|---|
| `Addr` | `qlib/Addr.rs`, `qlib/Common.rs` | `Word` is `0 .. 2^AddrBits-1`, and `+` wraps modulo `AddrLimit` as u64 does in release builds. `AddLen` and `RoundUp` return `Err("Overflow")` where the code does. `PageOffsetIdx` truncates the index to `IdxBits` bits (the `as u32`). Results are `Ok(v)`/`Err(kind)` records; kinds are named after `Error` variants. |
| `PagePool` | `PagePool` of `qlib/PageTable.rs` | The pool is a record `[next, free]`, with `free` the Vec as a sequence. `Allocate(pool)` and `Free(pool, addr)` are operators returning the result and the new pool, in the code's order of checks. |
| `RangeMgr` | `RangeMgr` of `qlib/Addr.rs` | A manager is the record `[start, end, offset]`. `Init`, `Allocate`, `OccupyRange` and `Free` are operators returning the manager after the call and its Result. Allocate keeps the code's size test as written and its u64 space test `offset + len > end`, which wraps; the checked `AddLen` follows. OccupyRange and Free are the code's stubs. Nothing creates a RangeMgr, so the module's specification is a caller: `CallInit` creates one (once it succeeds), and `CallAllocate`, `CallOccupyRange` and `CallFree` are any further call. `cursor` is a reference bump allocator in unbounded integers, moved by `CallAllocate` exactly when the request fits. `MC_Allocators` runs it beside PagePoolClient; the two share no state. |
| `PagePoolClient` | callers of the pool | Variables `pool` and `owned` (how many times each page is currently handed out). `DoAllocate` and `DoFree(a)` are one action each. The constant `Caller` fixes which addresses a caller may pass to Free. |
| `PageTables` | `PageTables` of `qlib/PageTable.rs` | Memory `mem` maps a page index to a table `[EntryIdx -> entry]`. An entry is `NULL` (not present), a table page index, or, in a leaf, a physical address. `MapCanonical` runs the loop as a recursive `Walk` over a loop-state record: `pc` says which `while` is being tested, `p[1..4]` are p1Idx..p4Idx, and `tbl` caches the pud/pmd/pte tables. Each `Step` is one pass of one loop body, with the code's fetch-or-allocate, leaf write, AddLen and carries. `Map` holds the access, alignment, order and clipping checks. `VirtuallToPhy` is the read-only walk. |
| `VMSpace` | `VMSpace` and its use in `KVMMachine::init` | Variables `mem`, `pool`, `ret` (the last result) and `calls`. `Init` is PagePool::Init followed by PageTables::New. `MapCall(a)` is one whole VMSpace::Map call, atomic because the single host thread holds `VMS` for all of it. |
| `AbstractPageMap` | spec §4.3, §8 | `vmap`: virtual page → physical address. A request maps every unmapped page of its clipped range to `phys + (v - start)` and reports whether one was mapped already. On failure it leaves a prefix of the range mapped. |
| `VMRun` | `KVMMachine::run` (`kvmlib/mod.rs`), `rust_main` and the panic handlers (`qkernel/lib.rs`), `Kernel::Print/Call` (`qkernel/Kernel.rs`), the print macros (`qkernel/print.rs`), `HyperCall`, `Wait` and `ShareSpace` (`qlib/mod.rs`) | `Prog` is rust_main as a sequence of operations. `gpc` is the guest's position in it. `GuestHeapInit`, `GuestInit`, `GuestSetMsg`, `GuestWait` and `GuestReturn` are its steps. A pending VM exit is `exit`. `HandleExit` is one pass of run's loop: it dispatches on the exit and resumes the vCPU. The host's `shareSpace` pointer, the guest's `msgAddr` slot and its spin lock `locked` are variables. Printed text is a sequence of `<<line, piece>>` pairs, one per `write_str` call of the format machinery. |
| `MapOption` | `MapOption`, `MapOption::Map`, `MappedRegion::New` and its `Drop` (`kvmlib/MemMgr.rs`) | An option is `[offset, len, flags, prot]`. The builder methods are `WithOffset`, `WithLen`, `WithProt` and `WithFlag`, and ORing a bit is a union. `AnonRWX` is the chain every caller uses. `Placements(o, occupied)` is what mmap may return: MAP_FIXED replaces, a free hint is honoured, MAP_FIXED_NOREPLACE fails, and a plain hint moves to any free range. `MayFailAnyway` is MAP_HUGETLB with too few reserved huge pages. `MunmapOk` is false for a huge-page mapping whose length is not a whole number of huge pages: the kernel rounded the mapping up, and the Drop's munmap of the unrounded length is refused. |
| `PhyAddrMgr` | `PhyAddrMgr`, `PhyRegion::InitAnan`, `MappedRegion` (`kvmlib/MemMgr.rs`) | `maps` is the process's live host mappings, and `regions` the HashMap from guest-physical start to `[host, len]`. `AllocAnan(len, huge)` is the whole call: the mmap with hostBaseAddr as hint, the ceiling and overflow checks with munmap on the error path, and PhyStartAddr's `Offset(...).unwrap()` (a failure sets `panicked`). The request is `InitAnanOption` (MapOption's `AnonRWX`, plus MAP_HUGETLB when `huge`), placed by MapOption's `Placements`. A Drop whose munmap is refused (`DropPanics`) sets `panicked`. `Free` and `PhyToHostAddr` are as in the code. |
| `Boot` | `KVMMachine::init`, `initKernelMem` and `SetMemRegion` (`kvmlib/mod.rs`), `KernelELF::Init` and `LoadKernel` (`kvmlib/ELFLoader.rs`) | Extends `PageTables` and uses its concrete `Map`. `step` follows init's order: `OpenVm` (Kvm::new and create_vm, which may fail), `LoadElf` (the file errors `ElfFileErrors`, the bounds loop `ElfBounds`, RECURSIVE, then the AddressDoesMatch check), `InitKernelMem` (`KernelMemOption`: a huge-page failure, or a placement away from the hint when the rest of the process, `OtherMaps`, holds it), `SetMemRegion` (one slot, or an ioctl failure), `InitTables` (pool, root, the pool Map and the stack Map, each `?` ending init), `PhyAddrMgrInit` (from `HostMemOffset`, the kernel image's start), `LoadKernel` (`LoadKernelOption`, placed the same way and rejected unless `PlacedAtStart`, then the file copy of each segment, `CopySegment` folded in header order into `kmem`, and `MapSegments`) and `ReadEntry` (init prints the byte at the entry: `entryByte`, or SIGSEGV, step "crashed", when no host mapping backs it). `hostMaps` holds the host mappings, `slot` the memory slot, and `mem`/`pool` the tables. An image is its PT_LOAD headers `[vaddr, offset, filesz, memsz]` and its entry. A loaded byte is the file offset it was copied from, or NULL for the mapping's zeroes. |
| `Machine` | `main` (`qvisor/main.rs`): `KVMMachine::init`, then `run` only on Ok (`InitOk`); `setup_long_mode`, the run setup (`mod.rs`), `rust_main`'s statics (`qkernel/lib.rs`), `init_idt` (`qkernel/interrupts.rs`) | Composes `B == INSTANCE Boot` and `R == INSTANCE VMRun` over their shared variables. `BootStep` runs init. `LongModeSregs` is what `setup_long_mode` and `setup_64bit_code_segment` put in the special registers: CR0, CR4 and EFER as the sets of their set bits, so that the code's ORs of the flag constants are unions (CR0_PG is bit 31, beyond TLC's integers), plus CR3 and the code segment's L and D/B bits. `SetupVCpu` either fails in one of its ioctls (CreateVCPU, get_sregs, set_regs) or submits the registers to KVM's `KvmValidSregs` check; a failure or a refusal makes run return Err and main's expect panic. Otherwise it sets `cpu` (the registers, rip = entry, rsp = topStackAddr - 1). `GuestStep` first applies VM entry's consistency checks (`VmEntryOk`, a FailEntry exit) and the 64-bit-mode condition (`Mode64`; otherwise the 64-bit entry code decodes as garbage). Then it executes rust_main's next operation when `HwWalk`, the MMU's walk from CR3, translates every page in `Touches` for that operation to backed slot memory. Otherwise it takes the outcome: a #PF through the IDT at base 0, which is a triple fault (Shutdown); an MMIO exit; or a failing KVM_RUN. `HostStep` is VMRun's exit handler. |
| `MC_PagePool`, `MC_Allocators`, `MC_VMSpace`, `MC_VMRun`, `MC_PhyAddrMgr`, `MC_Boot`, `MC_Machine` | — | Model-checking wrappers. `MC_VMSpace` defines the Map calls to explore. `MC_Allocators` composes PagePoolClient with RangeMgr's caller. |

The geometry is scaled down, with every relation the code relies on kept:
`EntryCount` entries per table, `PageSize`, and `AddrBits`-bit addresses.
`LOWER_TOP = VASpan/2 - 1` and `UPPER_BOTTOM = AddrLimit - VASpan/2` as in
`qlib/mod.rs`, where `VASpan = PageSize * EntryCount^4`. With `AddrBits = 10`,
`PageSize = 2` and `EntryCount = 4` LOWER_TOP = 255 and UPPER_BOTTOM = 768,
so there are 256 canonical pages, a non-canonical gap [256, 768), and index
wraps at every level.

## 3. Runs

| Run | Config | Expect | What it shows |
|---|---|---|---|
| `pagepool_contract` | `PagePool_contract.cfg` (`MC_Allocators`) | pass | 21995 states. A caller that frees only pages it owns, plus addresses Free must reject (misaligned, past the pool, below the base), never gets a page twice. The pool stays partitioned into never-used, freed and owned pages. `RangeMgrGrantsWhatFits`: for a RangeMgr created at 0, 2^8-2 or 2^8-1 with a length up to a page, after any sequence of calls its offset is the reference's cursor. Every grant is therefore at the cursor, and the ranges granted are disjoint and inside [start, end). It is checked because a range ending at the last word makes the space test's sum wrap, and then only the AddLen after it refuses. |
| `pagepool_free_alias` | `PagePool_outOfRange.cfg` | violation | An address `2^IdxBits` pages past an owned page (2^32 in the code) passes the range check after the u32 cast and frees the owned page. |
| `vmspace_map` | `VMSpace.cfg` | pass | Up to three Map calls drawn from nine argument sets implement AbstractPageMap and keep the tables a tree. The calls cover the lower half, the upper half, p1/p2/p3 carries, a range crossing LOWER_TOP, the top page with address wrap, overlapping ranges, a misaligned start, end < start, no access, and pool exhaustion with PageCount = 7. |
| `vmrun_protocol` | `VMRun.cfg` | pass | With the code's ten loop iterations (117 states), the host never dereferences a null shareSpace or message. Its stdout is always a prefix of the guest's text and eventually all of it. This holds under weak fairness of the guest and the host. |
| `phyaddrmgr_registry` | `PhyAddrMgr.cfg` | pass | 13510 states. Up to four calls of AllocAnan, Free and PhyToHostAddr, in a 16-page address space. The kernel image sits at the hint, as in KVMMachine::init. The registry always holds exactly the live mappings the manager made, each keyed by its offset and inside the range. |
| `phyaddrmgr_below_base` | `PhyAddrMgr_panic.cfg` | violation | A region that mmap places below hostBaseAddr passes the ceiling check, and PhyStartAddr's unwrap panics. |
| `boot_layout` | `Boot.cfg` | pass | 204 states over 20 ELF images, with every ioctl and file failure of init. Once init is done, every mapped guest page maps to itself inside the slot and host-backed memory. The filed image, entry, heap and stack are mapped, and no table page lies in the heap, stack or image. The byte init reads at the entry is the file's byte at p_offset + (entry - p_vaddr) for the segment covering it (spec §10's loader scenario); the image with an unaligned segment is the one that needs LoadKernel's pageOffset. `SegmentsCopied`: past LoadKernel, every file byte of every PT_LOAD is in LoadKernel's region at its vaddr. The copy writes through the raw pointer vaddr, so this rests on the AddressDoesMatch check when the rest of the process holds the hint (`OtherMaps`). |
| `machine_run` | `Machine.cfg` | pass | 1038 states. rust_main runs on the tables init built, for the eight images whose .bss stays in the last file page. Every operation before the return finds its pages. Once run has set the vCPU up, the guest's whole text reaches stdout. |
| `machine_halt` | `Machine_halt.cfg` | violation | Once init succeeds, the run still never ends through Hlt. The return reads at topStackAddr - 1 into the unmapped page above the stack. The #PF finds no IDT, the vCPU shuts down, and run() panics. |
| `machine_bss` | `Machine_bss.cfg` | violation | With a .bss that reaches past the last file page, the guest faults on its first touch of ALLOCATOR (heap init), and nothing is printed. |
| `vmspace_gap_start` | `VMSpace_gap.cfg` | violation | A Map starting in the non-canonical gap maps UPPER_BOTTOM to `phys` rather than `phys + (UPPER_BOTTOM - start)`. |

Bounds:

- **PagePool.** Five pages, and the free list is capped at five entries
  (`MaxFreeLen`). Every order of up to five allocations and frees is explored,
  including full exhaustion with refill from the free list.
- **RangeMgr.** Addresses of 8 bits and a page of 2, so a manager is
  created at 0 or at 2^8-2 or 2^8-1 with a length of 0 to 2. A range that
  ends at the last word (255) is the case where `offset + len` wraps: with
  the offset at 255, an Allocate of 1 passes the space test and only the
  AddLen after it refuses. Lengths 0 to 2 take both sides of the size test.
  The calls are unbounded; the offset only grows, so the state space is
  finite.
- **VMSpace.** Seven pool pages are one root plus enough for two full paths.
  So one Map call into a fresh subtree succeeds and a later one runs out in
  the middle of its walk. `MaxMapCalls = 3` lets overlapping and repeated
  calls happen. No fairness is assumed: these models check safety only, and
  the code may stop calling at any point (`CHECK_DEADLOCK FALSE` in
  `VMSpace.cfg` for that reason).
- **VMRun.** No bound is needed: the guest program is finite, and the model
  runs it with the code's own loop count. It is deterministic, as the code
  is: one host thread and one vCPU alternate. The model checks that the order
  of the program's steps is right, which mutants break. Weak fairness is
  justified because the host loops on `vcpu.run()` and does nothing else,
  and a running vCPU keeps executing. `CHECK_DEADLOCK FALSE` because the
  process really ends: after the Shutdown exit, run() panics.

- **PhyAddrMgr.** There are 16 pages of host address space. pageMmap is at
  [2,4), and the kernel image at [4,6) is at the hint hostBaseAddr = 4. The
  limit is 11, and lengths are 1 and 2. Every placement class is reached:
  below the base, inside the range, past the limit, and ending at 2^AddrBits
  (an AddLen overflow). Four calls allow allocate, free, re-allocate and a
  stale Free or lookup. A huge page is 2 pages, so a huge region of length
  1 is the unaligned case.

- **Boot.** The layout keeps the code's proportions at PageSize 2. PHY_UPPER
  is 64, the 1GB pool region 64 (32 pool pages), and the 128MB stack region
  16 (guard 2, stack 6). The kernel starts at 144 and the 16GB slot is 128.
  The heap is put at +48 rather than +32. With 4-entry tables, init's tables
  take a quarter of the pool region instead of 1/512, and at +32 they would
  reach the heap only because of the scaling. The images are: a text
  segment at the kernel start (filesz 3 or 6), then a data segment on the
  next page or sharing the text's last page, with filesz 1 or 3 and with or
  without a 4-byte zero-filled tail. There are also an image with an
  unaligned first segment, one the start check rejects, one whose entry
  lies past its only segment (init's entry read crashes the process), and
  one with no PT_LOAD. File offsets follow a 2-byte header and are
  congruent to vaddr modulo the page, as ELF requires. A huge page is 2
  (HugePageLen), and the kernel memory, 80, is a whole number of them, as
  in the code. The rest of the process may already hold one page at a
  hint (`OtherMaps`), so mmap moves the mapping and init fails.
  `CHECK_DEADLOCK FALSE` because init really stops, in "done" or "failed"
  or "crashed".

- **Machine.** The layout and images are Boot's, and the loop count is the
  code's (10). A return address and a call frame are 2 bytes. What matters
  is that they are wider than one byte, as the 8-byte address is, so a read
  at topStackAddr - 1 spans two pages. The statics ALLOCATOR and SHARESPACE
  are zero-initialised, so the model puts them at the end of .bss, the last
  byte of the last PT_LOAD. Fairness is weak fairness of SetupVCpu,
  GuestStep and HostStep. After init, the one host thread goes straight into
  run, and run's loop only waits on KVM_RUN. Init itself is not assumed to
  progress, and run's setup ioctls may fail: the properties speak only of
  what follows `cpu.on`, by leads-to.

## 4. Findings

1. `PageOffsetIdx` (Addr.rs:98) truncates the index with `as u32`, so Free
   accepts an address far outside the pool. Spec §4.2 says such a Free fails.
2. `Map` (PageTable.rs:103) with a start in the gap maps from UPPER_BOTTOM at
   `physical`. This breaks spec §8's `phys + (v - s)`.

3. `rust_main` (qkernel/lib.rs:58) ends without `hlt`. It returns through
   `rsp = topStackAddr - 1`, and the word there reaches into memory the page
   tables do not map. No IDT is loaded, so the fault becomes a triple fault.
   KVM reports Shutdown, and run() panics at mod.rs:411 ("Unexpected exit
   reason"). The Hlt arm, the spec's normal end, is never taken. `Machine`
   derives this from the tables init builds, the rsp run sets, and the
   reset IDTR (`machine_halt`).

4. `PhyRegion::InitAnan` (MemMgr.rs:64) checks only the upper limit of the
   region mmap returned. hostBaseAddr is only a hint, and it is already
   taken by the kernel image. A region placed below it panics in
   `PhyStartAddr` (MemMgr.rs:80) instead of failing with AddressNotInRange.
   PhyAddrMgr is not called by the live code today, only by the
   commented-out `LoadKernel1`.

5. `KernelELF::Init` and `LoadKernel` (ELFLoader.rs:58, 108) size the host
   region and the identity Map from `p_filesz`. A segment whose `p_memsz`
   reaches a further page leaves that page of its `.bss` neither backed nor
   mapped. Spec §4.5 does not say which size applies, but the ELF format
   requires memsz bytes, zero-filled. The zero-initialised statics
   (ALLOCATOR, SHARESPACE) live there. `machine_bss` shows the guest
   faulting on the first statement of rust_main, which is a triple fault
   before any output.
6. `init` (mod.rs:212) maps `[topStackAddr, topStackAddr + guard + stack)` in
   one call, so the guard gap is mapped like the stack. Spec §4.6 says the
   gap is unmapped. This is read directly off the line. No run is spent on
   it: every layout maps the gap.
7. `init` (mod.rs:236-237) prints the byte at `entry` through a raw host
   pointer. Nothing checks that a PT_LOAD covers the entry. Boot explores
   an image whose entry lies past its only segment, and init ends there
   in SIGSEGV (step "crashed"). The image is malformed, so this is a hazard,
   not a finding. `EntryByteLoaded` checks the byte whenever a segment's
   file bytes cover the entry.
8. `MappedRegion`'s Drop (MemMgr.rs:312-321) unmaps the length it was asked
   for and panics if munmap fails. A MAP_HUGETLB mapping is rounded up to
   the 2 MiB huge page, so munmap of a length that is not a whole number
   of huge pages is refused with EINVAL. `AllocAnan` with `huge` and such
   a length then panics when the region is freed, or when a misplaced
   mapping is dropped. `NoPanic` covers this (`DropPanics`). A model with
   the base at 0 reaches it. The `phyaddrmgr_panic` run reports the
   shorter below-base trace first.

## 5. Not modelled, and the plan

- **Never modelled:**
  - the segment bases, limits, types and selectors and the general
    registers other than rip and rsp: constant data no step reads. The
    KVM ioctls are modelled only by whether they fail. CR0, CR4, EFER,
    CR3 and the code segment's L and D/B bits are modelled, because KVM's
    checks and the CPU mode depend on them. With the code's values the
    refusal, FailEntry and non-64-bit branches are never taken: a mutant
    with D/B = 1 takes FailEntry and breaks RunCompletes;
  - PagePool::Free called with a page the caller does not own: a pool page
    never handed out (PageTable.rs:294 accepts it, and the bump cursor
    later hands it out again) or a double free (PageTable.rs:298). Spec
    §4.2 leaves both to the caller, and nothing in the repository frees a
    pool page, so the runs keep to the caller's contract;
  - GuestPagePool (unused). It has no state of its own: Allocate and Free
    wrap the global allocator's alloc and dealloc of one page. Read off
    the lines: Allocate returns Ok(Addr(0)) when alloc returns null;
  - RangeMgr's size test as a finding. RangeMgr is modelled (and unused),
    but no run can say what its callers expect. Read off the line:
    `len & PAGE_MASK != len`, with PAGE_MASK = PAGE_SIZE - 1, accepts only
    lengths below one page and rejects every page multiple. The model
    keeps the test as written;
  - the IDT's handlers: they are unreachable, since the table is never
    built or loaded;
  - message text (abstracted to model values).
