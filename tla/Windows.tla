------------------------------ MODULE Windows ------------------------------
(***************************************************************************)
(* ReplayWindow256 (wasm/src/secure.rs): the accepted sequence numbers as  *)
(* a bitmap of bytes, in which bit d stands for the number d below the     *)
(* newest.  A byte is the set of its bits that are 1.  Distances are cut   *)
(* to a usize, which on wasm32 is narrower than the u64 of the numbers.    *)
(***************************************************************************)
EXTENDS Integers

CONSTANTS
    ByteBits,  \* bits of a byte, 8
    Bytes,     \* bytes of the bitmap, 32
    Word       \* values of a usize, 2^32

ASSUME WindowSizes == /\ ByteBits \in Nat \ {0} /\ Bytes \in Nat \ {0}
                      /\ Word \in Nat /\ Word > ByteBits * Bytes

Width == ByteBits * Bytes   \* 256
Bits  == 0 .. ByteBits - 1
Index == 0 .. Bytes - 1
Zero  == [i \in Index |-> {}]

\* ReplayWindow256::default and clear.
EmptyWindow == [valid |-> FALSE, maxSeq |-> 0, bitmap |-> Zero]

\* << and >> of a byte.
Left(byte, k)  == {j + k : j \in byte} \cap Bits
Right(byte, k) == {j - k : j \in {j \in byte : j >= k}}

AsUsize(n) == n % Word

\* Faulty variant of Carry: what leaves a byte goes into the byte before it.
CarryFromAbove(b, k, i) ==
    IF i + 1 \in Index THEN Right(b[i + 1], ByteBits - k) ELSE {}

-----------------------------------------------------------------------------
(* The bitmap.                                                             *)

TestBit(b, d) == d % ByteBits \in b[d \div ByteBits]
SetBit(b, d)  == [b EXCEPT ![d \div ByteBits] = @ \cup {d % ByteBits}]

\* shift_right, by whole bytes and then by the bits that remain: what a byte
\* loses is carried into the byte after it.
MovedBytes(b, n) == [i \in Index |-> IF i >= n THEN b[i - n] ELSE {}]
Carry(b, k, i) == IF i = 0 THEN {} ELSE Right(b[i - 1], ByteBits - k)
MovedBits(b, k) == [i \in Index |-> Left(b[i], k) \cup Carry(b, k, i)]

ShiftRight(b, n) ==
    IF n = 0 THEN b
    ELSE IF n >= Width THEN Zero
    ELSE LET bytes == MovedBytes(b, n \div ByteBits)
         IN  IF n % ByteBits = 0 THEN bytes ELSE MovedBits(bytes, n % ByteBits)

-----------------------------------------------------------------------------
(* The window.                                                             *)

\* can_accept; accept answers the same, so only what it records is left.
CanAccept(w, s) ==
    \/ ~w.valid
    \/ s > w.maxSeq
    \/ LET d == AsUsize(w.maxSeq - s) IN d < Width /\ ~TestBit(w.bitmap, d)

Accept(w, s) ==
    IF ~w.valid
    THEN [valid |-> TRUE, maxSeq |-> s, bitmap |-> SetBit(w.bitmap, 0)]
    ELSE IF s > w.maxSeq
    THEN LET moved == ShiftRight(w.bitmap, AsUsize(s - w.maxSeq))
         IN  [w EXCEPT !.maxSeq = s, !.bitmap = SetBit(moved, 0)]
    ELSE [w EXCEPT !.bitmap = SetBit(@, AsUsize(w.maxSeq - s))]

\* The numbers that a window remembers.
Remembered(w) ==
    IF w.valid
    THEN {w.maxSeq - d : d \in {d \in 0 .. Width - 1 : TestBit(w.bitmap, d)}}
    ELSE {}
=============================================================================
