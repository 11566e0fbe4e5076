-------------------------------- MODULE Addr --------------------------------
(***************************************************************************)
(* Address primitives of src/qlib/Addr.rs (struct Addr(u64)).              *)
(*                                                                         *)
(* An address is an unsigned integer of AddrBits bits (64 in the code) and *)
(* a page is PageSize bytes (0x1000 in the code).  Both are scaled down    *)
(* for model checking; every operation keeps the wrap-around of the        *)
(* fixed width, which is what its overflow checks are about.               *)
(*                                                                         *)
(* A fallible operation returns Ok(v) or Err(kind), the Rust Result.  The  *)
(* `self.0 + len` of AddLen and RoundUp wraps in a release build and      *)
(* panics in a debug build; both end the caller's operation, and the model *)
(* takes the release outcome (Err(Overflow)) that the code was written for.*)
(***************************************************************************)
EXTENDS Naturals

CONSTANTS AddrBits,   \* width of u64, scaled
          PageSize    \* PAGE_SIZE / PAGE_SIZE_4K, scaled

ASSUME AddrBits \in Nat \ {0} /\ PageSize \in Nat \ {0}

AddrLimit == 2 ^ AddrBits            \* first value that does not fit in u64
Word == 0 .. AddrLimit - 1

Ok(v) == [ok |-> TRUE, val |-> v]
Err(kind) == [ok |-> FALSE, err |-> kind]

\* u64 addition as the hardware does it (wrapping)
WrapAdd(a, b) == (a + b) % AddrLimit

\* Addr::AddLen: checked add, Overflow when the sum wrapped
AddLen(a, len) ==
    LET end == WrapAdd(a, len)
    IN  IF end < a THEN Err("Overflow") ELSE Ok(end)

\* Addr::RoundDown: clear the page-offset bits
RoundDown(a) == a - (a % PageSize)

\* Addr::RoundUp: add PAGE_SIZE-1 (checked) and round down
RoundUp(a) ==
    LET addr == WrapAdd(a, PageSize - 1)
    IN  IF addr < a THEN Err("Overflow") ELSE Ok(RoundDown(addr))

\* Addr::PageOffset / IsPageAligned
PageOffset(a) == a % PageSize
IsPageAligned(a) == PageOffset(a) = 0

\* Addr::Offset: self - start, AddressNotInRange when self < start
Offset(a, start) ==
    IF a < start THEN Err("AddressNotInRange") ELSE Ok(a - start)

\* Addr::PageOffsetIdx: page index of `addr` relative to base `a`, cast
\* `as u32`, which keeps the low IdxBits bits of the quotient.
PageOffsetIdx(a, addr, IdxBits) ==
    LET r == RoundDown(addr)
    IN  IF r < a THEN Err("AddressNotInRange")
        ELSE Ok(((r - a) \div PageSize) % (2 ^ IdxBits))
=============================================================================
