------------------------------- MODULE VMRun --------------------------------
(***************************************************************************)
(* The host exit loop KVMMachine::run (src/qvisor/src/kvmlib/mod.rs) and   *)
(* the guest kernel it runs (src/qkernel/src/lib.rs, Kernel.rs, print.rs)  *)
(* talking through the hypercalls of src/qlib/mod.rs.                      *)
(*                                                                         *)
(* One host thread drives one vCPU: the guest executes until it traps, the *)
(* host handles the exit and calls run again.  So guest steps happen only  *)
(* while no exit is pending and host steps only while one is.              *)
(*                                                                         *)
(* The guest program is rust_main as a sequence of operations: heap init,  *)
(* the INIT hypercall, init_idt's kprintln, the ten println of the loop,   *)
(* the final println and the return.  Every println reaches               *)
(* PrintStruct::write_str once per piece of its format string, and every  *)
(* piece is one Kernel::Print: SetMsg under the SHARESPACE lock, then the  *)
(* WAIT hypercall.  A piece of text is the pair <<line, piece number>>;   *)
(* the text itself is abstracted away.                                     *)
(***************************************************************************)
EXTENDS Naturals, Sequences, SequencesExt

CONSTANTS Lines     \* iterations of the loop in rust_main (0..10 in the code)

HYPERCALL_INIT  == 1
HYPERCALL_PANIC == 2
HYPERCALL_WAIT  == 3

\* the null pointer, as held by the host's shareSpace and by msgAddr
NullRef == "null"
NullMsg == << >>

\* no exit pending: the vCPU is executing guest code
NoExit == [kind |-> "none"]

\* pieces written by one println: "the idt addr is ", hex, ", limit=",
\* hex, "\n" for init_idt; "in kernel ", the number, "\n" in the loop;
\* "in kernel end....", "\n" at the end
PieceCount(l) == IF l = 0 THEN 5 ELSE IF l = Lines + 1 THEN 2 ELSE 3

Pieces == {<<l, j>> : l \in 0 .. Lines + 1, j \in 1 .. 5}

\* the text the guest writes, piece by piece, in program order
GuestText == FlattenSeq([k \in 1 .. Lines + 2 |->
                            [j \in 1 .. PieceCount(k - 1) |-> <<k - 1, j>>]])

\* the address of the Mutex<ShareSpace> inside the lazy_static SHARESPACE
SharedMutex == "SHARESPACE"

\* &SHARESPACE: the address of the lazy_static wrapper, not of the Mutex
ShareSpaceRefLazy == "LAZY_SHARESPACE"

\* the address the guest passes in rcx at INIT: &(*SHARESPACE), the Mutex
ShareSpaceRef == SharedMutex

\* Kernel::Print(piece): Call = SetMsg under the lock, then Wait
PrintOps(p) == << [op |-> "setmsg", piece |-> p], [op |-> "wait"] >>

PrintLine(l) == FlattenSeq([j \in 1 .. PieceCount(l) |-> PrintOps(<<l, j>>)])

\* rust_main with init_idt moved before the INIT hypercall
ProgInitLate ==
    << [op |-> "heap"] >> \o PrintLine(0) \o << [op |-> "init"] >>
      \o FlattenSeq([i \in 1 .. Lines |-> PrintLine(i)])
      \o PrintLine(Lines + 1) \o << [op |-> "ret"] >>

\* rust_main: heap, INIT, init_idt, the loop, the last line, return
Prog ==
    << [op |-> "heap"], [op |-> "init"] >> \o PrintLine(0)
      \o FlattenSeq([i \in 1 .. Lines |-> PrintLine(i)])
      \o PrintLine(Lines + 1) \o << [op |-> "ret"] >>

VARIABLES
    gpc,        \* next operation of Prog the guest executes
    gmode,      \* "run", or "spin" in the loop {} of a panic handler
    heap,       \* ALLOCATOR initialised
    locked,     \* the SHARESPACE spin lock is held
    msgAddr,    \* ShareSpace.msgAddr: 0 or the message of a Print
    exit,       \* the pending VM exit, or NoExit while the guest runs
    shareSpace, \* the host's shareSpace pointer, 0 until INIT
    host,       \* "running", "returned" (loop left), "panicked", "segfault"
    out         \* what the host wrote to stdout

vars == <<gpc, gmode, heap, locked, msgAddr, exit, shareSpace, host, out>>
guestVars == <<gpc, gmode, heap, locked, msgAddr>>

\* the rsp/rip set up by run, SHARESPACE not yet initialised, no exit
Init ==
    /\ gpc = 1
    /\ gmode = "run"
    /\ heap = FALSE
    /\ locked = FALSE
    /\ msgAddr = NullMsg
    /\ exit = NoExit
    /\ shareSpace = NullRef
    /\ host = "running"
    /\ out = << >>

GuestRuns(kind) ==
    /\ host = "running" /\ exit = NoExit /\ gmode = "run"
    /\ gpc <= Len(Prog) /\ Prog[gpc].op = kind

\* HyperCall(type, para1): out instruction, port in dx, para1 in rcx
HyperCall(port, rcx) == exit' = [kind |-> "IoOut", port |-> port, rcx |-> rcx]

\* ALLOCATOR.lock().init(HEAP_START, HEAP_SIZE)
GuestHeapInit ==
    /\ GuestRuns("heap")
    /\ heap' = TRUE
    /\ gpc' = gpc + 1
    /\ UNCHANGED <<gmode, locked, msgAddr, exit, shareSpace, host, out>>

\* HyperCall(HYPERCALL_INIT, &(*SHARESPACE)); the deref runs the lazy init
GuestInit ==
    /\ GuestRuns("init")
    /\ HyperCall(HYPERCALL_INIT, ShareSpaceRef)
    /\ gpc' = gpc + 1
    /\ UNCHANGED <<gmode, heap, locked, msgAddr, shareSpace, host, out>>

\* Kernel::Call keeping the lock guard alive across Wait()
GuestSetMsgKeepLock ==
    /\ GuestRuns("setmsg")
    /\ IF heap
         THEN /\ ~locked
              /\ msgAddr' = Prog[gpc].piece
              /\ locked' = TRUE
              /\ gpc' = gpc + 1
              /\ UNCHANGED <<gmode, exit>>
         ELSE /\ exit' = [kind |-> "IoOut", port |-> HYPERCALL_PANIC, rcx |-> NullRef]
              /\ gmode' = "spin"
              /\ UNCHANGED <<gpc, msgAddr, locked>>
    /\ UNCHANGED <<heap, shareSpace, host, out>>

\* Kernel::Print: String::from allocates (alloc_error_handler sends PANIC
\* and spins without a heap), then SHARESPACE.lock().SetMsg(&msg); the
\* guard is a temporary, released at the end of the statement
GuestSetMsg ==
    /\ GuestRuns("setmsg")
    /\ IF heap
         THEN /\ ~locked
              /\ msgAddr' = Prog[gpc].piece
              /\ gpc' = gpc + 1
              /\ UNCHANGED <<gmode, exit>>
         ELSE /\ exit' = [kind |-> "IoOut", port |-> HYPERCALL_PANIC, rcx |-> NullRef]
              /\ gmode' = "spin"
              /\ UNCHANGED <<gpc, msgAddr>>
    /\ UNCHANGED <<heap, locked, shareSpace, host, out>>

\* qlib::Wait(): HyperCall(HYPERCALL_WAIT, 0)
GuestWait ==
    /\ GuestRuns("wait")
    /\ HyperCall(HYPERCALL_WAIT, NullRef)
    /\ gpc' = gpc + 1
    /\ UNCHANGED <<gmode, heap, locked, msgAddr, shareSpace, host, out>>

(***************************************************************************)
(* rust_main returns.  Nothing in the repository issues hlt (qlib::Hlt is  *)
(* never called); the return address is read at rsp = topStackAddr - 1,    *)
(* whose bytes from topStackAddr on are not mapped by the page tables, and *)
(* no IDT is loaded, so the fault escalates to a triple fault: the vCPU    *)
(* exits with Shutdown (derived from the page tables in Machine).         *)
(***************************************************************************)
GuestReturn ==
    /\ GuestRuns("ret")
    /\ exit' = [kind |-> "Shutdown"]
    /\ gpc' = gpc + 1
    /\ UNCHANGED <<gmode, heap, locked, msgAddr, shareSpace, host, out>>

(***************************************************************************)
(* One pass of the loop in run(): dispatch on the exit, then run the vCPU  *)
(* again.  INIT stores rcx; WAIT locks *shareSpace (spinning while the     *)
(* guest holds it), reads msgAddr and prints the message (a null           *)
(* shareSpace or msgAddr is a segfault); PANIC only logs; Hlt and          *)
(* FailEntry leave the loop; any other exit reason panics.                 *)
(***************************************************************************)
HandleExit ==
    /\ host = "running" /\ exit # NoExit
    /\ CASE exit.kind = "IoOut" /\ exit.port = HYPERCALL_INIT ->
                /\ shareSpace' = exit.rcx
                /\ UNCHANGED <<host, out>>
         [] exit.kind = "IoOut" /\ exit.port = HYPERCALL_WAIT ->
                /\ IF shareSpace = NullRef
                     THEN host' = "segfault" /\ out' = out
                     ELSE /\ ~locked
                          /\ IF msgAddr = NullMsg
                               THEN host' = "segfault" /\ out' = out
                               ELSE host' = host /\ out' = Append(out, msgAddr)
                /\ UNCHANGED shareSpace
         [] \/ exit.kind = "IoOut" /\ exit.port \notin {HYPERCALL_INIT, HYPERCALL_WAIT}
            \/ exit.kind \in {"IoIn", "MmioRead", "MmioWrite", "Exception"} ->
                UNCHANGED <<shareSpace, host, out>>
         [] exit.kind \in {"Hlt", "FailEntry"} ->
                /\ host' = "returned"
                /\ UNCHANGED <<shareSpace, out>>
         [] OTHER ->
                /\ host' = "panicked"
                /\ UNCHANGED <<shareSpace, out>>
    /\ exit' = NoExit
    /\ UNCHANGED guestVars

Guest == GuestHeapInit \/ GuestInit \/ GuestSetMsg \/ GuestWait \/ GuestReturn

Next == Guest \/ HandleExit

(***************************************************************************)
(* The host thread loops on vcpu.run() without ever blocking on anything   *)
(* else, and a running vCPU keeps executing guest instructions, so both    *)
(* sides are weakly fair.                                                  *)
(***************************************************************************)
Spec == Init /\ [][Next]_vars /\ WF_vars(Guest) /\ WF_vars(HandleExit)

-----------------------------------------------------------------------------

TypeOK ==
    /\ gpc \in 1 .. Len(Prog) + 1
    /\ gmode \in {"run", "spin"}
    /\ heap \in BOOLEAN /\ locked \in BOOLEAN
    /\ msgAddr \in {NullMsg} \cup Pieces
    /\ shareSpace \in {NullRef, SharedMutex}
    /\ host \in {"running", "returned", "panicked", "segfault"}
    /\ out \in Seq(Pieces)

(***************************************************************************)
(* The WAIT handler never dereferences a null pointer: by the time the     *)
(* guest first traps with WAIT, it has passed SHARESPACE with INIT and     *)
(* stored a message with SetMsg.  This depends on the order of the first   *)
(* statements of rust_main and of Kernel::Call.                            *)
(***************************************************************************)
NoNullDeref == host # "segfault"

(***************************************************************************)
(* Host stdout follows the guest: it is always a prefix of the text the    *)
(* guest prints, in order and without repeats, and every piece the guest   *)
(* prints eventually reaches it (the host's WAIT arm prints the message    *)
(* Kernel::Call stored just before trapping, and nothing blocks it).       *)
(***************************************************************************)
PrintsDelivered ==
    /\ [](IsPrefix(out, GuestText))
    /\ <>(out = GuestText)
=============================================================================
