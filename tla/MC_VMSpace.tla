----------------------------- MODULE MC_VMSpace -----------------------------
(***************************************************************************)
(* VMSpace with 4 entries per table, 2-byte pages and 10-bit addresses:    *)
(* pages 0..254 are the lower half, 768..1022 the upper half, and a level- *)
(* l index carries every 4^l pages, so short ranges cross every carry.     *)
(***************************************************************************)
EXTENDS VMSpace

Call(s, e, p) == [start |-> s, end |-> e, phys |-> p, access |-> TRUE]

\* calls whose start is canonical, as every caller in the code makes them
MCMapArgs ==
    { Call(0, 6, 600),        \* three pages at the bottom
      Call(4, 9, 700),        \* overlaps the previous call, unaligned end
      Call(30, 36, 400),      \* crosses a level-2 carry (page 16 -> 17)
      Call(126, 132, 0),      \* crosses the level-4 carry (byte 128)
      Call(250, 300, 100),    \* straddles LOWER_TOP: clipped
      Call(1018, 1023, 800),  \* reaches the top page: AddLen overflows
      Call(3, 8, 0),          \* misaligned start
      Call(10, 8, 0),         \* end below start
      [start |-> 0, end |-> 8, phys |-> 0, access |-> FALSE] }  \* Unmap stub

\* a call starting in the non-canonical gap
MCGapArgs == MCMapArgs \cup { Call(512, 772, 0) }
=============================================================================
