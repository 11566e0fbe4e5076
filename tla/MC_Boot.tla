------------------------------- MODULE MC_Boot -------------------------------
(***************************************************************************)
(* Boot with the layout scaled to PageSize = 2 and 4-entry tables:         *)
(* PHY_UPPER_ADDR = 64, the 1GB pool region = 64 (32 pool pages), the      *)
(* 128MB stack region = 16 with a guard of 2 and a stack of 6, the kernel  *)
(* at 64 + 80 = 144 and the 16GB slot = 128.  The heap (256MB at +512MB)  *)
(* is 16 at +48 (HeapStart = 112 in the cfg): with 4-entry tables the      *)
(* tables of init take a quarter of the pool region instead of 1/512, so   *)
(* at +32 they would reach the heap only because of the scaling.           *)
(***************************************************************************)
EXTENDS Boot

\* a text segment at the kernel start, followed by a data segment that
\* starts on the next page or inside the text's last page, with or
\* without a zero-filled tail (memsz > filesz); and images the start check
\* rejects, whose first segment is unaligned, or whose entry lies past
\* every PT_LOAD
\* the file holds a 2-byte header, then the segments in address order,
\* each at the offset congruent to its vaddr, as the ELF format requires
Seg(v, f, m) == [vaddr |-> v, offset |-> v - 142, filesz |-> f, memsz |-> m]

MCImages ==
    {[entry |-> 144,
      segs |-> << Seg(144, t, t), Seg(d, f, f + z) >>] :
         t \in {3, 6}, d \in {149, 150}, f \in {1, 3}, z \in {0, 4}}
    \cup {[entry |-> 145, segs |-> << Seg(145, 5, 5) >>],
          [entry |-> 150, segs |-> << Seg(144, 3, 3) >>],
          [entry |-> 146, segs |-> << Seg(146, 4, 4) >>],
          [entry |-> 144, segs |-> << >>]}
=============================================================================
