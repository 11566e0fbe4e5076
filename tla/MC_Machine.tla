------------------------------ MODULE MC_Machine ------------------------------
(***************************************************************************)
(* Machine over the scaled layout of MC_Boot, with the code's ten loop     *)
(* iterations.  A return address (8 bytes) and a call frame are 2 bytes:  *)
(* wider than one byte, as in the code, so a read at topStackAddr - 1      *)
(* reaches the page above the stack.                                       *)
(***************************************************************************)
EXTENDS Machine

\* a 2-byte file header, then the segments at offsets congruent to vaddr
Seg(v, f, m) == [vaddr |-> v, offset |-> v - 142, filesz |-> f, memsz |-> m]

\* text at the kernel start and a data segment after it whose zero-filled
\* tail is z bytes, and images init rejects
ImagesWithTail(Z) ==
    {[entry |-> 144,
      segs |-> << Seg(144, t, t), Seg(d, f, f + z) >>] :
         t \in {3, 6}, d \in {149, 150}, f \in {1, 3}, z \in Z}
    \cup {[entry |-> 146, segs |-> << Seg(146, 4, 4) >>],
          [entry |-> 144, segs |-> << >>]}

\* .bss within the last file page, as when the linker packs it there
MCFiledImages == ImagesWithTail({0})

\* also .bss reaching past the last file page
MCBssImages == ImagesWithTail({0, 4})
=============================================================================
