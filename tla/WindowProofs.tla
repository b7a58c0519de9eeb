---------------------------- MODULE WindowProofs ----------------------------
(***************************************************************************)
(* Proofs about what a peer may send and what it may be sent: the replay   *)
(* windows (Windows) and the slots that hold them (Receive), for windows   *)
(* of any size and any number of epochs, and the send window of its        *)
(* connection (SendWindow), for windows of any length and any limits.      *)
(*                                                                         *)
(* Receive.  A window is exactly the set of numbers that it remembers, and *)
(* accepting one makes it refuse no less.  On top of that, the slots never *)
(* have an epoch both in the grace and beside it, the previous slot is not *)
(* of a later epoch than the current one, and the peer has not gone        *)
(* further than the current slot or the sending epoch allow: then what was *)
(* delivered is judged by the slot that recorded it or is of an epoch that *)
(* is over, and what is dropped is one or the other.  Until its slot is    *)
(* evicted, an epoch has a slot or is not under way any more: that is why  *)
(* a Sync loses only what the grace it overwrites had recorded.            *)
(*                                                                         *)
(* SendWindow.  While a window lasts, what was sent since it began is      *)
(* exactly what it has counted, and everything older that is still within  *)
(* one window's time was counted by a single earlier window.               *)
(***************************************************************************)
EXTENDS Receive, SendWindow, TLAPS

-----------------------------------------------------------------------------
(* Bitmaps.                                                                *)

Bitmaps   == [Index -> SUBSET Bits]
Distances == 0 .. Width - 1

\* Where the bit of a distance is.
LEMMA Division ==
    ASSUME NEW d \in Nat
    PROVE  /\ d \div ByteBits \in Nat /\ d % ByteBits \in Bits
           /\ d = ByteBits * (d \div ByteBits) + (d % ByteBits)
<1>1. ByteBits \in Nat /\ ByteBits > 0
  BY WindowSizes
<1> QED
  BY <1>1 DEF Bits

\* Byte i and bit j are those of one distance only.
LEMMA DivisionUnique ==
    ASSUME NEW i \in Int, NEW j \in Bits, NEW k \in Int, NEW l \in Bits,
           ByteBits * i + j = ByteBits * k + l
    PROVE  i = k /\ j = l
<1>1. ByteBits \in Nat /\ ByteBits > 0
  BY WindowSizes
<1>2. CASE i < k
  <2>1. ByteBits * (k - i) >= ByteBits
    BY <1>1, <1>2
  <2> QED
    BY <1>1, <2>1 DEF Bits
<1>3. CASE k < i
  <2>1. ByteBits * (i - k) >= ByteBits
    BY <1>1, <1>3
  <2> QED
    BY <1>1, <2>1 DEF Bits
<1> QED
  BY <1>1, <1>2, <1>3 DEF Bits

LEMMA Place ==
    ASSUME NEW i \in Int, NEW j \in Bits, ByteBits * i + j \in Nat
    PROVE  (ByteBits * i + j) \div ByteBits = i /\ (ByteBits * i + j) % ByteBits = j
<1> DEFINE d == ByteBits * i + j
<1>1. /\ d \div ByteBits \in Nat /\ d % ByteBits \in Bits
      /\ d = ByteBits * (d \div ByteBits) + (d % ByteBits)
  BY Division
<1> HIDE DEF d
<1> QED
  BY <1>1, DivisionUnique DEF d

\* The distances below Width are those of the bytes there are.
LEMMA InBitmap ==
    ASSUME NEW d \in Nat
    PROVE  d < Width <=> d \div ByteBits \in Index
<1> DEFINE i == d \div ByteBits
           j == d % ByteBits
<1>1. i \in Nat /\ j \in Bits /\ d = ByteBits * i + j
  BY Division
<1>2. ByteBits \in Nat /\ ByteBits > 0 /\ Bytes \in Nat /\ Bytes > 0
  BY WindowSizes
<1> HIDE DEF i, j
<1>3. CASE i < Bytes
  <2>1. ByteBits * (Bytes - i) >= ByteBits
    BY <1>1, <1>2, <1>3
  <2>2. ByteBits * (Bytes - i) = ByteBits * Bytes - ByteBits * i
    BY <1>1, <1>2
  <2>3. d < Width
    BY <1>1, <1>2, <2>1, <2>2 DEF Bits, Width
  <2> QED
    BY <1>1, <1>2, <1>3, <2>3 DEF Index, i
<1>4. CASE i >= Bytes
  <2>1. ByteBits * (i - Bytes) >= 0
    BY <1>1, <1>2, <1>4
  <2>2. ByteBits * (i - Bytes) = ByteBits * i - ByteBits * Bytes
    BY <1>1, <1>2
  <2>3. ~(d < Width)
    BY <1>1, <1>2, <2>1, <2>2 DEF Bits, Width
  <2> QED
    BY <1>1, <1>2, <1>4, <2>3 DEF Index, i
<1> QED
  BY <1>1, <1>2, <1>3, <1>4

\* set_bit.
LEMMA SetBitAdds ==
    ASSUME NEW b \in Bitmaps, NEW d \in Distances
    PROVE  /\ SetBit(b, d) \in Bitmaps
           /\ \A e \in Distances :
                  TestBit(SetBit(b, d), e) <=> TestBit(b, e) \/ e = d
<1> DEFINE i == d \div ByteBits
           j == d % ByteBits
<1>1. Width \in Nat /\ \A e \in Distances : e \in Nat /\ e < Width
  BY WindowSizes DEF Distances, Width
<1>2. i \in Index /\ j \in Bits /\ d = ByteBits * i + j
  BY <1>1, Division, InBitmap
<1>3. SetBit(b, d) = [b EXCEPT ![i] = b[i] \cup {j}]
  BY DEF SetBit
<1> HIDE DEF i, j
<1>4. SetBit(b, d) \in Bitmaps
  BY <1>2, <1>3 DEF Bitmaps
<1>5. ASSUME NEW e \in Distances
      PROVE  TestBit(SetBit(b, d), e) <=> TestBit(b, e) \/ e = d
  <2> DEFINE k == e \div ByteBits
             l == e % ByteBits
  <2>1. k \in Index /\ l \in Bits /\ e = ByteBits * k + l
    BY <1>1, Division, InBitmap
  <2>2. e = d => k = i /\ l = j
    BY DEF i, j
  <2>3. TestBit(b, e) <=> l \in b[k]
    BY DEF TestBit
  <2>4. TestBit(SetBit(b, d), e) <=> l \in SetBit(b, d)[k]
    BY DEF TestBit
  <2> HIDE DEF k, l
  <2>5. k = i /\ l = j => e = d
    BY <1>2, <2>1
  <2> QED
    BY <1>2, <1>3, <2>1, <2>2, <2>3, <2>4, <2>5 DEF Bitmaps
<1> QED
  BY <1>4, <1>5

\* shift_right by whole bytes.
LEMMA MovedBytesShifts ==
    ASSUME NEW b \in Bitmaps, NEW p \in Nat
    PROVE  /\ MovedBytes(b, p) \in Bitmaps
           /\ \A i \in Index, j \in Bits :
                  j \in MovedBytes(b, p)[i] <=> i >= p /\ j \in b[i - p]
<1>1. \A i \in Index : i >= p => i - p \in Index
  BY WindowSizes DEF Index
<1> QED
  BY <1>1 DEF MovedBytes, Bitmaps

\* shift_right by bits: a byte receives its own and those of the byte before.
LEMMA MovedBitsShifts ==
    ASSUME NEW b \in Bitmaps, NEW k \in 1 .. ByteBits - 1
    PROVE  /\ MovedBits(b, k) \in Bitmaps
           /\ \A i \in Index, j \in Bits :
                  j \in MovedBits(b, k)[i] <=>
                      \/ j >= k /\ j - k \in b[i]
                      \/ j < k /\ i > 0 /\ j + ByteBits - k \in b[i - 1]
<1>1. /\ ByteBits \in Nat /\ k \in Nat /\ k > 0 /\ k < ByteBits
      /\ \A i \in Index : i \in Nat /\ b[i] \in SUBSET Bits
      /\ \A i \in Index : i # 0 => i - 1 \in Index
  BY WindowSizes DEF Index, Bitmaps
<1>2. ASSUME NEW byte \in SUBSET Bits, NEW j \in Bits
      PROVE  /\ j \in Left(byte, k) <=> j >= k /\ j - k \in byte
             /\ j \in Right(byte, ByteBits - k) <=> j < k /\ j + ByteBits - k \in byte
  <2>1. \A m \in byte : m \in Int
    BY DEF Bits
  <2>2. j \in Int /\ j >= 0 /\ j < ByteBits
    BY <1>1 DEF Bits
  <2>3. j \in Left(byte, k) <=> j >= k /\ j - k \in byte
    <3>1. j \in Left(byte, k) <=> \E m \in byte : j = m + k
      BY DEF Left
    <3> QED
      BY <1>1, <2>1, <2>2, <3>1 DEF Bits
  <2>4. j \in Right(byte, ByteBits - k) <=> \E m \in byte : m >= ByteBits - k /\ j = m - (ByteBits - k)
    BY DEF Right
  <2>5. j \in Right(byte, ByteBits - k) <=> j < k /\ j + ByteBits - k \in byte
    BY <1>1, <2>1, <2>2, <2>4 DEF Bits
  <2> QED
    BY <2>3, <2>5
<1>3. \A byte \in SUBSET Bits : /\ Left(byte, k) \in SUBSET Bits
                                /\ Right(byte, ByteBits - k) \in SUBSET Bits
  <2> SUFFICES ASSUME NEW byte \in SUBSET Bits
               PROVE  /\ Left(byte, k) \in SUBSET Bits
                      /\ Right(byte, ByteBits - k) \in SUBSET Bits
    OBVIOUS
  <2>1. Left(byte, k) \in SUBSET Bits
    BY DEF Left
  <2>2. Right(byte, ByteBits - k) \in SUBSET Bits
    BY <1>1 DEF Right, Bits
  <2> QED
    BY <2>1, <2>2
<1>4. ASSUME NEW i \in Index
      PROVE  /\ Carry(b, k, i) \in SUBSET Bits
             /\ \A j \in Bits : j \in Carry(b, k, i) <=>
                    j < k /\ i > 0 /\ j + ByteBits - k \in b[i - 1]
  BY <1>1, <1>2, <1>3 DEF Carry
<1>5. MovedBits(b, k) \in Bitmaps
  BY <1>1, <1>3, <1>4 DEF MovedBits, Bitmaps
<1>6. ASSUME NEW i \in Index, NEW j \in Bits
      PROVE  j \in MovedBits(b, k)[i] <=>
                 \/ j >= k /\ j - k \in b[i]
                 \/ j < k /\ i > 0 /\ j + ByteBits - k \in b[i - 1]
  <2>1. MovedBits(b, k)[i] = Left(b[i], k) \cup Carry(b, k, i)
    BY DEF MovedBits
  <2> QED
    BY <1>1, <1>2, <1>4, <2>1
<1> QED
  BY <1>5, <1>6

\* shift_right: the bit of each distance goes to the distance n further on,
\* across the bytes, and what is beyond the width is lost.
LEMMA ShiftRightMoves ==
    ASSUME NEW b \in Bitmaps, NEW n \in Nat
    PROVE  /\ ShiftRight(b, n) \in Bitmaps
           /\ \A d \in Distances :
                  TestBit(ShiftRight(b, n), d) <=> d >= n /\ TestBit(b, d - n)
<1> DEFINE p == n \div ByteBits
           k == n % ByteBits
           m == MovedBytes(b, p)
<1>1. /\ Width \in Nat /\ \A d \in Distances : d \in Nat /\ d < Width
      /\ ByteBits \in Nat /\ ByteBits > 0
  BY WindowSizes DEF Distances, Width
<1>2. p \in Nat /\ k \in Bits /\ n = ByteBits * p + k
  BY Division
<1>3. CASE n = 0
  BY <1>1, <1>3 DEF ShiftRight
<1>4. CASE n >= Width
  <2>1. n # 0 /\ ShiftRight(b, n) = Zero
    BY <1>1, <1>4, WindowSizes DEF ShiftRight, Width
  <2>2. \A d \in Distances : d \div ByteBits \in Index
    BY <1>1, InBitmap
  <2> QED
    BY <1>1, <1>4, <2>1, <2>2 DEF Zero, Bitmaps, TestBit
<1>5. CASE n # 0 /\ n < Width
  <2>1. /\ m \in Bitmaps
        /\ \A i \in Index, j \in Bits : j \in m[i] <=> i >= p /\ j \in b[i - p]
    BY <1>2, MovedBytesShifts
  <2>2. ShiftRight(b, n) = IF k = 0 THEN m ELSE MovedBits(m, k)
    BY <1>1, <1>5 DEF ShiftRight
  <2> HIDE DEF p, k, m
  <2>3. k # 0 => k \in 1 .. ByteBits - 1
    BY <1>1, <1>2 DEF Bits
  <2>4. ShiftRight(b, n) \in Bitmaps
    BY <2>1, <2>2, <2>3, MovedBitsShifts
  <2>5. ASSUME NEW d \in Distances
        PROVE  TestBit(ShiftRight(b, n), d) <=> d >= n /\ TestBit(b, d - n)
    <3> DEFINE i == d \div ByteBits
               j == d % ByteBits
    <3>1. i \in Index /\ i \in Nat /\ j \in Bits /\ d = ByteBits * i + j
      BY <1>1, Division, InBitmap
    <3>2. TestBit(ShiftRight(b, n), d) <=> j \in ShiftRight(b, n)[i]
      BY DEF TestBit
    <3> HIDE DEF i, j
    <3>3. CASE j >= k
      <4>1. TestBit(ShiftRight(b, n), d) <=> j - k \in m[i]
        <5>1. CASE k = 0
          BY <1>1, <2>2, <3>1, <3>2, <5>1 DEF Bits
        <5>2. CASE k # 0
          BY <2>1, <2>2, <2>3, <3>1, <3>2, <3>3, <5>2, MovedBitsShifts DEF Bits
        <5> QED
          BY <5>1, <5>2
      <4>2. j - k \in Bits /\ d - n = ByteBits * (i - p) + (j - k)
        BY <1>1, <1>2, <3>1, <3>3 DEF Bits
      <4>3. TestBit(ShiftRight(b, n), d) <=> i >= p /\ j - k \in b[i - p]
        BY <2>1, <3>1, <4>1, <4>2
      <4>4. CASE i >= p
        <5>1. ByteBits * (i - p) \in Nat
          BY <1>1, <1>2, <3>1, <4>4
        <5>2. d >= n /\ d - n \in Nat
          BY <1>1, <1>2, <3>1, <4>2, <5>1 DEF Bits
        <5>3. (d - n) \div ByteBits = i - p /\ (d - n) % ByteBits = j - k
          BY <1>2, <3>1, <4>2, <5>2, Place
        <5> QED
          BY <4>3, <4>4, <5>2, <5>3 DEF TestBit
      <4>5. CASE i < p
        <5>1. ByteBits * (p - i) >= ByteBits
          BY <1>1, <1>2, <3>1, <4>5
        <5>2. ByteBits * (i - p) = -(ByteBits * (p - i))
          BY <1>1, <1>2, <3>1
        <5>3. ~(d >= n)
          BY <1>1, <1>2, <3>1, <4>2, <5>1, <5>2 DEF Bits
        <5> QED
          BY <1>2, <3>1, <4>3, <4>5, <5>3
      <4> QED
        BY <1>2, <3>1, <4>4, <4>5
    <3>4. CASE j < k
      <4>1. k # 0 /\ ~(j >= k)
        BY <1>2, <3>1, <3>4 DEF Bits
      <4>2. TestBit(ShiftRight(b, n), d) <=> i > 0 /\ j + ByteBits - k \in m[i - 1]
        BY <2>1, <2>2, <2>3, <3>1, <3>2, <3>4, <4>1, MovedBitsShifts
      <4>3. /\ j + ByteBits - k \in Bits
            /\ d - n = ByteBits * (i - 1 - p) + (j + ByteBits - k)
        BY <1>1, <1>2, <3>1, <3>4 DEF Bits
      <4>4. i > 0 => i - 1 \in Index
        BY <3>1, WindowSizes DEF Index
      <4>5. TestBit(ShiftRight(b, n), d) <=>
                i - 1 >= p /\ j + ByteBits - k \in b[i - 1 - p]
        BY <1>2, <2>1, <3>1, <4>2, <4>3, <4>4
      <4>6. CASE i - 1 >= p
        <5>1. ByteBits * (i - 1 - p) \in Nat
          BY <1>1, <1>2, <3>1, <4>6
        <5>2. d >= n /\ d - n \in Nat
          BY <1>1, <1>2, <3>1, <4>3, <5>1 DEF Bits
        <5>3. /\ (d - n) \div ByteBits = i - 1 - p
              /\ (d - n) % ByteBits = j + ByteBits - k
          BY <1>2, <3>1, <4>3, <5>2, Place
        <5> QED
          BY <4>5, <4>6, <5>2, <5>3 DEF TestBit
      <4>7. CASE i - 1 < p
        <5>1. ByteBits * (p - (i - 1)) >= ByteBits
          BY <1>1, <1>2, <3>1, <4>7
        <5>2. ByteBits * (i - 1 - p) = -(ByteBits * (p - (i - 1)))
          BY <1>1, <1>2, <3>1
        <5>3. ~(d >= n)
          BY <1>1, <1>2, <3>1, <4>3, <5>1, <5>2 DEF Bits
        <5> QED
          BY <1>2, <3>1, <4>5, <4>7, <5>3
      <4> QED
        BY <1>2, <3>1, <4>6, <4>7
    <3> QED
      BY <1>2, <3>1, <3>3, <3>4 DEF Bits
  <2> QED
    BY <2>4, <2>5
<1> QED
  BY <1>1, <1>3, <1>4, <1>5

-----------------------------------------------------------------------------
(* Windows.                                                                *)

Numbers == 0 .. LongRun

\* A window that has accepted a number.
Used == {w \in [valid : BOOLEAN, maxSeq : Numbers, bitmap : Bitmaps] :
            w.valid /\ TestBit(w.bitmap, 0)}

\* Distances are not cut.
LEMMA UsizeExact == \A d \in Numbers : AsUsize(d) = d
<1>1. Word \in Nat /\ LongRun \in Nat /\ LongRun < Word
  BY WindowSizes, Bounds, WithinWord
<1> QED
  BY <1>1 DEF AsUsize, Numbers

LEMMA ZeroDistance ==
    /\ 0 \in Distances /\ Width \in Nat
    /\ \A d \in Distances : d \in Nat /\ d < Width
    /\ \A d \in Nat : d < Width => d \in Distances
    /\ LongRun \in Nat
<1>1. Width \in Nat /\ Width > 0
  BY WindowSizes DEF Width
<1> QED
  BY <1>1, Bounds DEF Distances

\* A bit is set for exactly the numbers that the window remembers.
LEMMA BitsAreNumbers ==
    ASSUME NEW w \in Used, NEW d \in Distances
    PROVE  TestBit(w.bitmap, d) <=> w.maxSeq - d \in Remembered(w)
<1>1. w.valid /\ w.maxSeq \in Int
  BY ZeroDistance DEF Used, Numbers
<1>2. w.maxSeq - d \in Remembered(w) <=>
          \E e \in Distances : TestBit(w.bitmap, e) /\ w.maxSeq - d = w.maxSeq - e
  BY <1>1 DEF Remembered, Distances
<1> QED
  BY <1>1, <1>2, ZeroDistance

\* A used window refuses what it remembers and what is out of its reach.
LEMMA WindowRefuses ==
    ASSUME NEW w \in Used, NEW q \in Numbers
    PROVE  ~CanAccept(w, q) <=>
               q <= w.maxSeq /\ (w.maxSeq - q >= Width \/ q \in Remembered(w))
<1>1. w.valid /\ w.maxSeq \in Numbers /\ w.maxSeq \in Int /\ q \in Int
  BY ZeroDistance DEF Used, Numbers
<1>2. CASE q > w.maxSeq
  BY <1>1, <1>2 DEF CanAccept
<1>3. CASE q <= w.maxSeq
  <2> DEFINE d == w.maxSeq - q
  <2>1. d \in Numbers /\ d \in Nat /\ w.maxSeq - d = q
    BY <1>1, <1>3, ZeroDistance DEF Numbers
  <2>2. CanAccept(w, q) <=> d < Width /\ ~TestBit(w.bitmap, d)
    BY <1>1, <1>3, <2>1, UsizeExact DEF CanAccept
  <2> HIDE DEF d
  <2>3. d < Width => d \in Distances
    BY <2>1, ZeroDistance
  <2>4. d < Width => (TestBit(w.bitmap, d) <=> q \in Remembered(w))
    BY <2>1, <2>3, BitsAreNumbers
  <2>5. ~CanAccept(w, q) <=> (d >= Width \/ q \in Remembered(w))
    BY <2>1, <2>2, <2>4, ZeroDistance
  <2> QED
    BY <1>3, <2>5 DEF d
<1> QED
  BY <1>1, <1>2, <1>3

\* The newest number a window accepted is remembered.
LEMMA RemembersItsNewest ==
    ASSUME NEW w \in Used
    PROVE  w.maxSeq \in Remembered(w)
<1>1. w.maxSeq \in Int /\ TestBit(w.bitmap, 0)
  BY DEF Used, Numbers
<1> QED
  BY <1>1, BitsAreNumbers, ZeroDistance

\* The first number of a slot.
LEMMA FirstAccepted ==
    ASSUME NEW q \in Numbers
    PROVE  /\ Accept(EmptyWindow, q) \in Used
           /\ Remembered(Accept(EmptyWindow, q)) = {q}
           /\ ~CanAccept(Accept(EmptyWindow, q), q)
<1> DEFINE w == Accept(EmptyWindow, q)
<1>1. Zero \in Bitmaps /\ \A d \in Distances : ~TestBit(Zero, d)
  <2>1. \A d \in Distances : d \div ByteBits \in Index
    BY ZeroDistance, InBitmap
  <2> QED
    BY <2>1 DEF Zero, Bitmaps, TestBit
<1>2. w = [valid |-> TRUE, maxSeq |-> q, bitmap |-> SetBit(Zero, 0)]
  BY DEF Accept, EmptyWindow
<1>3. /\ SetBit(Zero, 0) \in Bitmaps
      /\ \A d \in Distances : TestBit(SetBit(Zero, 0), d) <=> d = 0
  BY <1>1, SetBitAdds, ZeroDistance
<1>4. w \in Used
  BY <1>2, <1>3, ZeroDistance DEF Used
<1>5. Remembered(w) = {q}
  <2>1. Remembered(w) = {q - d : d \in {d \in Distances : TestBit(SetBit(Zero, 0), d)}}
    BY <1>2 DEF Remembered, Distances
  <2>2. {d \in Distances : TestBit(SetBit(Zero, 0), d)} = {0}
    BY <1>3, ZeroDistance
  <2> QED
    BY <2>1, <2>2 DEF Numbers
<1>6. ~CanAccept(w, q)
  <2>1. w.maxSeq = q
    BY <1>2
  <2> HIDE DEF w
  <2> QED
    BY <1>4, <1>5, <2>1, WindowRefuses DEF Numbers
<1> QED
  BY <1>4, <1>5, <1>6

\* accept: the number is remembered, none that was not accepted is, and what
\* the window refused it goes on to refuse.
LEMMA AcceptRecords ==
    ASSUME NEW w \in Used, NEW q \in Numbers, CanAccept(w, q)
    PROVE  /\ Accept(w, q) \in Used
           /\ Remembered(Accept(w, q)) \subseteq Remembered(w) \cup {q}
           /\ ~CanAccept(Accept(w, q), q)
           /\ \A r \in Numbers : ~CanAccept(w, r) => ~CanAccept(Accept(w, q), r)
<1> DEFINE v == Accept(w, q)
<1>1. /\ w.valid /\ w.maxSeq \in Numbers /\ w.maxSeq \in Int /\ q \in Int
      /\ w.bitmap \in Bitmaps /\ TestBit(w.bitmap, 0)
  BY ZeroDistance DEF Used, Numbers
<1>2. CASE q > w.maxSeq
  <2> DEFINE n == q - w.maxSeq
             b == ShiftRight(w.bitmap, n)
  <2>1. n \in Nat /\ n > 0 /\ AsUsize(q - w.maxSeq) = n
    <3>1. n \in Numbers /\ n > 0
      BY <1>1, <1>2, ZeroDistance DEF Numbers
    <3> QED
      BY <3>1, UsizeExact, ZeroDistance DEF Numbers
  <2>2. v = [w EXCEPT !.maxSeq = q, !.bitmap = SetBit(b, 0)]
    BY <1>1, <1>2, <2>1 DEF Accept
  <2>3. /\ b \in Bitmaps
        /\ \A d \in Distances : TestBit(b, d) <=> d >= n /\ TestBit(w.bitmap, d - n)
    BY <1>1, <2>1, ShiftRightMoves
  <2> HIDE DEF n, b
  <2>4. /\ SetBit(b, 0) \in Bitmaps
        /\ \A d \in Distances : TestBit(SetBit(b, 0), d) <=> TestBit(b, d) \/ d = 0
    BY <2>3, SetBitAdds, ZeroDistance
  <2>5. v \in Used /\ v.maxSeq = q /\ v.bitmap = SetBit(b, 0)
    BY <1>1, <2>2, <2>4, ZeroDistance DEF Used
  <2> HIDE DEF v
  <2>6. ASSUME NEW d \in Distances
        PROVE  q - d \in Remembered(v) <=> d = 0 \/ q - d \in Remembered(w)
    <3>1. q - d \in Remembered(v) <=> d = 0 \/ (d >= n /\ TestBit(w.bitmap, d - n))
      BY <2>3, <2>4, <2>5, BitsAreNumbers
    <3>2. CASE d >= n
      <4>1. d - n \in Distances /\ w.maxSeq - (d - n) = q - d
        BY <1>1, <2>1, <3>2, ZeroDistance DEF n
      <4> QED
        BY <3>1, <3>2, <4>1, BitsAreNumbers
    <3>3. CASE d < n
      <4>1. q - d > w.maxSeq
        BY <1>1, <3>3, ZeroDistance DEF n
      <4>2. \A e \in Distances : w.maxSeq - e # q - d
        BY <1>1, <4>1, ZeroDistance
      <4>3. q - d \notin Remembered(w)
        BY <1>1, <4>2 DEF Remembered, Distances
      <4> QED
        BY <2>1, <3>1, <3>3, <4>3, ZeroDistance
    <3> QED
      BY <2>1, <3>2, <3>3, ZeroDistance
  <2>7. Remembered(v) \subseteq Remembered(w) \cup {q}
    <3>1. \A r \in Remembered(v) : \E d \in Distances : r = q - d
      BY <2>5 DEF Remembered, Distances
    <3>2. q - 0 = q
      BY <1>1
    <3> QED
      BY <2>6, <3>1, <3>2
  <2>8. ~CanAccept(v, q)
    <3>1. q \in Remembered(v)
      BY <2>5, RemembersItsNewest
    <3> QED
      BY <1>1, <2>5, <3>1, WindowRefuses
  <2>9. ASSUME NEW r \in Numbers, ~CanAccept(w, r)
        PROVE  ~CanAccept(v, r)
    <3>1. r <= w.maxSeq /\ (w.maxSeq - r >= Width \/ r \in Remembered(w))
      BY <2>9, WindowRefuses
    <3>2. r \in Int /\ r <= q
      BY <1>1, <1>2, <3>1 DEF Numbers
    <3>3. CASE q - r >= Width
      BY <2>5, <3>2, <3>3, WindowRefuses
    <3>4. CASE q - r < Width
      <4>1. q - r \in Distances /\ q - (q - r) = r
        BY <1>1, <3>2, <3>4, ZeroDistance
      <4>2. r \in Remembered(w)
        BY <1>1, <1>2, <3>1, <3>2, <3>4, ZeroDistance
      <4>3. r \in Remembered(v)
        BY <2>6, <4>1, <4>2
      <4> QED
        BY <2>5, <3>2, <4>3, WindowRefuses
    <3> QED
      BY <1>1, <3>2, <3>3, <3>4, ZeroDistance
  <2> QED
    BY <2>5, <2>7, <2>8, <2>9 DEF v
<1>3. CASE q <= w.maxSeq
  <2> DEFINE d == w.maxSeq - q
  <2>1. d \in Nat /\ AsUsize(w.maxSeq - q) = d /\ w.maxSeq - d = q
    <3>1. d \in Numbers
      BY <1>1, <1>3, ZeroDistance DEF Numbers
    <3> QED
      BY <1>1, <3>1, UsizeExact, ZeroDistance DEF Numbers
  <2>2. d \in Distances
    BY <1>1, <1>3, <2>1, ZeroDistance DEF CanAccept
  <2>3. v = [w EXCEPT !.bitmap = SetBit(w.bitmap, d)]
    BY <1>1, <1>3, <2>1 DEF Accept
  <2> HIDE DEF d
  <2>4. /\ SetBit(w.bitmap, d) \in Bitmaps
        /\ \A e \in Distances :
              TestBit(SetBit(w.bitmap, d), e) <=> TestBit(w.bitmap, e) \/ e = d
    BY <1>1, <2>2, SetBitAdds
  <2>5. v \in Used /\ v.maxSeq = w.maxSeq /\ v.bitmap = SetBit(w.bitmap, d)
    BY <1>1, <2>3, <2>4, ZeroDistance DEF Used
  <2> HIDE DEF v
  <2>6. \A e \in Distances : w.maxSeq - e \in Remembered(v) <=>
                                 e = d \/ w.maxSeq - e \in Remembered(w)
    BY <2>4, <2>5, BitsAreNumbers
  <2>7. /\ Remembered(v) \subseteq Remembered(w) \cup {q}
        /\ Remembered(w) \cup {q} \subseteq Remembered(v)
    <3>1. \A r \in Remembered(v) \cup Remembered(w) :
              \E e \in Distances : r = w.maxSeq - e
      BY <2>5 DEF Remembered, Distances
    <3> QED
      BY <2>1, <2>2, <2>6, <3>1
  <2>8. ~CanAccept(v, q)
    BY <1>3, <2>5, <2>7, WindowRefuses
  <2>9. \A r \in Numbers : ~CanAccept(w, r) => ~CanAccept(v, r)
    BY <2>5, <2>7, WindowRefuses
  <2> QED
    BY <2>5, <2>7, <2>8, <2>9 DEF v
<1> QED
  BY <1>1, <1>2, <1>3

-----------------------------------------------------------------------------
(* The slots, as the record that precheck_replay and commit_replay see.    *)

Slots == {NoSlot} \cup [epoch : Epochs, window : Used]
Quads == [cur : Slots, prev : Slots, gcur : Slots, gprev : Slots]

\* No epoch has a slot in the grace and another one beside it.
Apart(r) ==
    \A e \in Epochs : ~ /\ For(r.cur, e) \/ For(r.prev, e)
                        /\ For(r.gcur, e) \/ For(r.gprev, e)

InOrder(r) == r.cur # NoSlot /\ r.prev # NoSlot => r.prev.epoch <= r.cur.epoch

\* The epoch of n is one that the slots can say something about.
Covered(r, n) ==
    \/ For(r.gcur, n.epoch) \/ For(r.gprev, n.epoch)
    \/ r.cur # NoSlot /\ n.epoch <= r.cur.epoch

\* ... and they say no.
Refused(r, n) ==
    LET j == Judge(r, n.epoch)
    IN  Covered(r, n) /\ (j # "none" => ~CanAccept(r[j].window, n.seq))

\* The epoch e has a slot.
Holds(r, e) == For(r.cur, e) \/ For(r.prev, e) \/ For(r.gcur, e) \/ For(r.gprev, e)

\* The slots remember only what is in H.
HoldOnly(r, H) ==
    \A s \in {r.cur, r.prev, r.gcur, r.gprev} \ {NoSlot} :
        \A q \in Remembered(s.window) : [epoch |-> s.epoch, seq |-> q] \in H

LEMMA SlotTypes ==
    /\ \A s \in Slots : s # NoSlot <=> s \in [epoch : Epochs, window : Used]
    /\ Epochs \subseteq Nat /\ MaxEpoch \in Nat
<1>1. Epochs \subseteq Nat /\ Numbers \subseteq Nat /\ MaxEpoch \in Nat
  BY Bounds DEF Epochs, Numbers
<1>2. [epoch : Epochs, window : Used] \subseteq
          [epoch : Nat, window : [valid : BOOLEAN, maxSeq : Nat,
                                  bitmap : [Index -> SUBSET Bits]]]
  BY <1>1 DEF Used, Bitmaps
<1> QED
  BY <1>1, <1>2, NoSlotApart DEF Slots

LEMMA EpochsOfTwo ==
    ASSUME NEW a \in Slots, NEW b \in Slots, NEW e
    PROVE  e \in EpochsOf({a, b}) <=> For(a, e) \/ For(b, e)
BY DEF EpochsOf, For

\* The slot that judges an epoch is a slot of that epoch.
LEMMA JudgeIs ==
    ASSUME NEW r \in Quads, NEW e
    PROVE  /\ Judge(r, e) \in {"gcur", "gprev", "cur", "prev", "none"}
           /\ Judge(r, e) # "none" => /\ r[Judge(r, e)] \in [epoch : Epochs, window : Used]
                                      /\ r[Judge(r, e)].epoch = e
<1>1. CASE For(r.gcur, e)
  BY <1>1, SlotTypes DEF Judge, For, Quads
<1>2. CASE ~For(r.gcur, e) /\ For(r.gprev, e)
  BY <1>2, SlotTypes DEF Judge, For, Quads
<1>3. CASE ~For(r.gcur, e) /\ ~For(r.gprev, e) /\ r.cur = NoSlot
  BY <1>3 DEF Judge
<1>4. CASE ~For(r.gcur, e) /\ ~For(r.gprev, e) /\ r.cur # NoSlot /\ For(r.cur, e)
  BY <1>4, SlotTypes DEF Judge, For, Quads
<1>5. CASE ~For(r.gcur, e) /\ ~For(r.gprev, e) /\ r.cur # NoSlot /\ ~For(r.cur, e)
  BY <1>5, SlotTypes DEF Judge, For, Quads
<1> QED
  BY <1>1, <1>2, <1>3, <1>4, <1>5

\* precheck_replay drops what is refused.
LEMMA RefusedIsDropped ==
    ASSUME NEW r \in Quads, NEW n \in Packets, Refused(r, n)
    PROVE  ~MayAccept(r, n)
<1>1. CASE Judge(r, n.epoch) # "none"
  BY <1>1 DEF Refused, MayAccept
<1>2. CASE Judge(r, n.epoch) = "none"
  <2>1. ~For(r.gcur, n.epoch) /\ ~For(r.gprev, n.epoch)
    BY <1>2 DEF Judge
  <2>2. r.cur # NoSlot /\ n.epoch <= r.cur.epoch
    BY <2>1 DEF Refused, Covered
  <2>3. n.epoch \in Nat /\ r.cur.epoch \in Nat
    BY <2>2, SlotTypes DEF Packets, Quads
  <2> QED
    BY <1>2, <2>2, <2>3 DEF MayAccept
<1> QED
  BY <1>1, <1>2

\* An eviction keeps the order, and takes nothing back that is still covered.
LEMMA AgingKeeps ==
    ASSUME NEW r \in Quads, Apart(r), InOrder(r), NEW s,
           s \in [cur : {r.cur, NoSlot}, prev : {r.prev, NoSlot},
                  gcur : {r.gcur, NoSlot}, gprev : {r.gprev, NoSlot}],
           OldestFirst(r.gcur, r.gprev, s.gcur, s.gprev)
    PROVE  /\ s \in Quads /\ Apart(s) /\ InOrder(s)
           /\ \A H : HoldOnly(r, H) => HoldOnly(s, H)
           /\ \A n \in Packets : Refused(r, n) /\ Covered(s, n) => Refused(s, n)
<1>1. /\ s \in Quads
      /\ s.cur \in {r.cur, NoSlot} /\ s.prev \in {r.prev, NoSlot}
      /\ s.gcur \in {r.gcur, NoSlot} /\ s.gprev \in {r.gprev, NoSlot}
  BY DEF Quads, Slots
<1>2. Apart(s)
  BY <1>1 DEF Apart, For
<1>3. InOrder(s)
  BY <1>1 DEF InOrder
<1>4. \A H : HoldOnly(r, H) => HoldOnly(s, H)
  <2>1. {s.cur, s.prev, s.gcur, s.gprev} \ {NoSlot}
            \subseteq {r.cur, r.prev, r.gcur, r.gprev} \ {NoSlot}
    BY <1>1
  <2> QED
    BY <2>1 DEF HoldOnly
<1>5. ASSUME NEW n \in Packets, Refused(r, n), Covered(s, n)
      PROVE  Refused(s, n)
  <2> DEFINE e == n.epoch
  <2>1. e \in Epochs
    BY DEF Packets
  <2>2. SUFFICES ASSUME Judge(s, e) # "none"
                 PROVE  /\ Judge(r, e) = Judge(s, e)
                        /\ r[Judge(s, e)] = s[Judge(s, e)]
    BY <1>5 DEF Refused
  <2>3. CASE For(s.gcur, e)
    BY <1>1, <2>3 DEF Judge, For
  <2>4. CASE ~For(s.gcur, e) /\ For(s.gprev, e)
    <3>1. s.gprev = r.gprev /\ For(r.gprev, e) /\ s.gprev # NoSlot
      BY <1>1, <2>4 DEF For
    <3>2. ~For(r.gcur, e)
      BY <1>1, <2>4, <3>1 DEF For, OldestFirst
    <3> QED
      BY <2>4, <3>1, <3>2 DEF Judge
  <2>5. CASE ~For(s.gcur, e) /\ ~For(s.gprev, e) /\ For(s.cur, e)
    <3>1. s.cur = r.cur /\ For(r.cur, e) /\ s.cur # NoSlot
      BY <1>1, <2>5 DEF For
    <3>2. ~For(r.gcur, e) /\ ~For(r.gprev, e)
      BY <2>1, <3>1 DEF Apart
    <3> QED
      BY <2>5, <3>1, <3>2 DEF Judge
  <2>6. CASE ~For(s.gcur, e) /\ ~For(s.gprev, e) /\ ~For(s.cur, e)
    <3>1. s.cur # NoSlot /\ For(s.prev, e)
      BY <2>2, <2>6 DEF Judge
    <3>2. s.cur = r.cur /\ s.prev = r.prev /\ For(r.prev, e) /\ ~For(r.cur, e)
      BY <1>1, <2>6, <3>1 DEF For
    <3>3. ~For(r.gcur, e) /\ ~For(r.gprev, e)
      BY <2>1, <3>2 DEF Apart
    <3> QED
      BY <2>6, <3>1, <3>2, <3>3 DEF Judge
  <2> QED
    BY <2>3, <2>4, <2>5, <2>6
<1> QED
  BY <1>1, <1>2, <1>3, <1>4, <1>5

\* What commit_replay of the packet n makes of the slots r is t: the order is
\* kept, n is refused from now on, what was refused still is, only n is
\* remembered anew, and an epoch loses its slot only if n is far beyond it.
Keeps(r, n, t) ==
    /\ t \in Quads /\ Apart(t) /\ InOrder(t)
    /\ Refused(t, n) /\ Holds(t, n.epoch)
    /\ \A k \in Packets : Refused(r, k) => Refused(t, k)
    /\ \A e \in Epochs : Holds(r, e) => Holds(t, e) \/ n.epoch > e + 1
    /\ \A H : HoldOnly(r, H) => HoldOnly(t, H \cup {n})
    /\ \A e : (For(t.gcur, e) <=> For(r.gcur, e)) /\ (For(t.gprev, e) <=> For(r.gprev, e))
    /\ t.cur # NoSlot =>
           \/ r.cur # NoSlot /\ t.cur.epoch = r.cur.epoch
           \/ t.cur.epoch = n.epoch /\ (r.cur # NoSlot => n.epoch > r.cur.epoch)
    /\ t.prev # NoSlot =>
           \/ r.prev # NoSlot /\ t.prev.epoch = r.prev.epoch
           \/ r.cur # NoSlot /\ t.prev.epoch = r.cur.epoch /\ n.epoch > r.cur.epoch

LEMMA PacketParts ==
    ASSUME NEW n \in Packets
    PROVE  /\ n.epoch \in Epochs /\ n.epoch \in Nat /\ n.seq \in Numbers
           /\ n = [epoch |-> n.epoch, seq |-> n.seq]
BY SlotTypes DEF Packets, Numbers

\* A packet for a slot there is.
LEMMA CommitInSlot ==
    ASSUME NEW r \in Quads, Apart(r), InOrder(r), NEW n \in Packets,
           MayAccept(r, n), Judge(r, n.epoch) # "none"
    PROVE  Keeps(r, n, Committed(r, n))
<1> DEFINE j == Judge(r, n.epoch)
           Fields == {"cur", "prev", "gcur", "gprev"}
           x == InSlot(r[j], n)
           t == Committed(r, n)
<1>1. n.epoch \in Epochs /\ n.epoch \in Nat /\ n.seq \in Numbers
  BY PacketParts
<1>2. /\ j \in Fields /\ r[j] \in [epoch : Epochs, window : Used]
      /\ r[j].epoch = n.epoch /\ CanAccept(r[j].window, n.seq)
  BY JudgeIs DEF MayAccept
<1>3. t = [r EXCEPT ![j] = x]
  BY DEF Committed
<1>4. /\ x.epoch = n.epoch /\ x.window = Accept(r[j].window, n.seq)
      /\ x \in [epoch : Epochs, window : Used] /\ x \in Slots /\ x # NoSlot
      /\ Remembered(x.window) \subseteq Remembered(r[j].window) \cup {n.seq}
      /\ ~CanAccept(x.window, n.seq)
      /\ \A q \in Numbers : ~CanAccept(r[j].window, q) => ~CanAccept(x.window, q)
  <2>1. x = [epoch |-> n.epoch, window |-> Accept(r[j].window, n.seq)]
    BY DEF InSlot, Slot
  <2>2. r[j].window \in Used
    BY <1>2
  <2> HIDE DEF x, j
  <2> QED
    BY <1>1, <1>2, <2>1, <2>2, AcceptRecords, SlotTypes DEF Slots
<1> HIDE DEF j, x, t
<1>5. t \in Quads /\ t[j] = x /\ \A f \in Fields : f # j => t[f] = r[f]
  BY <1>2, <1>3, <1>4 DEF Quads
<1>6. /\ t["cur"] = t.cur /\ t["prev"] = t.prev
      /\ t["gcur"] = t.gcur /\ t["gprev"] = t.gprev
      /\ r["cur"] = r.cur /\ r["prev"] = r.prev
      /\ r["gcur"] = r.gcur /\ r["gprev"] = r.gprev
  BY <1>5 DEF Quads
<1>7. \A f \in Fields : /\ t[f] = NoSlot <=> r[f] = NoSlot
                        /\ r[f] # NoSlot => t[f].epoch = r[f].epoch
  <2>1. r[j] \in Slots /\ r[j] # NoSlot
    BY <1>2, SlotTypes DEF Slots
  <2> QED
    BY <1>2, <1>4, <1>5, <2>1
<1>8. /\ t.cur = NoSlot <=> r.cur = NoSlot
      /\ t.prev = NoSlot <=> r.prev = NoSlot
      /\ t.gcur = NoSlot <=> r.gcur = NoSlot
      /\ t.gprev = NoSlot <=> r.gprev = NoSlot
      /\ r.cur # NoSlot => t.cur.epoch = r.cur.epoch
      /\ r.prev # NoSlot => t.prev.epoch = r.prev.epoch
      /\ r.gcur # NoSlot => t.gcur.epoch = r.gcur.epoch
      /\ r.gprev # NoSlot => t.gprev.epoch = r.gprev.epoch
  BY <1>6, <1>7
<1>9. \A e : /\ For(t.cur, e) <=> For(r.cur, e)
             /\ For(t.prev, e) <=> For(r.prev, e)
             /\ For(t.gcur, e) <=> For(r.gcur, e)
             /\ For(t.gprev, e) <=> For(r.gprev, e)
  BY <1>8 DEF For
<1>10. \A e : Judge(t, e) = Judge(r, e)
  BY <1>8, <1>9 DEF Judge
<1>11. \A k : Covered(t, k) <=> Covered(r, k)
  BY <1>8, <1>9 DEF Covered
<1>12. Apart(t) /\ InOrder(t)
  BY <1>8, <1>9 DEF Apart, InOrder
<1>13. Refused(t, n)
  <2>1. Covered(r, n)
    <3>1. CASE j = "prev"
      <4>1. r.cur # NoSlot /\ For(r.prev, n.epoch)
        BY <3>1 DEF j, Judge
      <4> QED
        BY <4>1 DEF Covered, InOrder, For
    <3>2. CASE j = "cur"
      <4>1. For(r.cur, n.epoch)
        BY <3>2 DEF j, Judge
      <4> QED
        BY <1>1, <4>1 DEF Covered, For
    <3>3. CASE j \in {"gcur", "gprev"}
      BY <3>3 DEF j, Judge, Covered
    <3> QED
      BY <1>2, <3>1, <3>2, <3>3
  <2> QED
    BY <1>4, <1>5, <1>10, <1>11, <2>1 DEF Refused, j
<1>14. ASSUME NEW k \in Packets, Refused(r, k)
       PROVE  Refused(t, k)
  <2> DEFINE l == Judge(r, k.epoch)
  <2>1. k.seq \in Numbers /\ l \in Fields \cup {"none"}
    BY PacketParts, JudgeIs
  <2>2. Covered(t, k) /\ Judge(t, k.epoch) = l
    BY <1>10, <1>11, <1>14 DEF Refused
  <2>3. l # "none" => ~CanAccept(r[l].window, k.seq)
    BY <1>14 DEF Refused
  <2> HIDE DEF l
  <2>4. l # "none" => ~CanAccept(t[l].window, k.seq)
    BY <1>4, <1>5, <2>1, <2>3
  <2> QED
    BY <2>2, <2>4 DEF Refused
<1>15. ASSUME NEW H, HoldOnly(r, H)
       PROVE  HoldOnly(t, H \cup {n})
  <2>1. \A f \in Fields : r[f] # NoSlot =>
            \A q \in Remembered(r[f].window) : [epoch |-> r[f].epoch, seq |-> q] \in H
    BY <1>6, <1>15 DEF HoldOnly
  <2>2. \A f \in Fields : t[f] # NoSlot =>
            \A q \in Remembered(t[f].window) :
                [epoch |-> t[f].epoch, seq |-> q] \in H \cup {n}
    <3> SUFFICES ASSUME NEW f \in Fields, t[f] # NoSlot,
                        NEW q \in Remembered(t[f].window)
                 PROVE  [epoch |-> t[f].epoch, seq |-> q] \in H \cup {n}
      OBVIOUS
    <3>1. CASE f # j
      BY <1>5, <2>1, <3>1
    <3>2. CASE f = j
      <4>1. q \in Remembered(r[j].window) \/ q = n.seq
        BY <1>4, <1>5, <3>2
      <4>2. t[f].epoch = n.epoch /\ r[j] # NoSlot
        BY <1>2, <1>4, <1>5, <3>2, SlotTypes DEF Slots
      <4> QED
        BY <1>2, <2>1, <4>1, <4>2, PacketParts
    <3> QED
      BY <3>1, <3>2
  <2> QED
    BY <1>6, <2>2 DEF HoldOnly
<1>16. Holds(t, n.epoch) /\ \A e : Holds(r, e) => Holds(t, e)
  <2>1. t[j].epoch = n.epoch /\ t[j] # NoSlot
    BY <1>4, <1>5
  <2> QED
    BY <1>2, <1>6, <1>9, <2>1 DEF Holds, For
<1> QED
  BY <1>5, <1>8, <1>9, <1>12, <1>13, <1>14, <1>15, <1>16 DEF Keeps, t

\* What a slot that is set up for n alone is like.
LEMMA FreshSlot ==
    ASSUME NEW n \in Packets
    PROVE  /\ Fresh(n) \in Slots /\ Fresh(n) # NoSlot /\ Fresh(n).epoch = n.epoch
           /\ Remembered(Fresh(n).window) = {n.seq}
           /\ ~CanAccept(Fresh(n).window, n.seq)
<1>1. Fresh(n) = [epoch |-> n.epoch, window |-> Accept(EmptyWindow, n.seq)]
  BY DEF Fresh, Slot
<1>2. Fresh(n) \in [epoch : Epochs, window : Used]
  BY <1>1, PacketParts, FirstAccepted
<1> QED
  BY <1>1, <1>2, PacketParts, FirstAccepted, SlotTypes DEF Slots

\* A packet of an epoch that has no slot, when there is no current one.
LEMMA CommitFirst ==
    ASSUME NEW r \in Quads, Apart(r), InOrder(r), NEW n \in Packets,
           Judge(r, n.epoch) = "none", r.cur = NoSlot,
           r.prev # NoSlot => r.prev.epoch <= n.epoch
    PROVE  Keeps(r, n, Committed(r, n))
<1> DEFINE x == Fresh(n)
           t == Committed(r, n)
<1>1. t = [r EXCEPT !.cur = x]
  BY DEF Committed
<1>2. /\ x \in Slots /\ x # NoSlot /\ x.epoch = n.epoch
      /\ Remembered(x.window) = {n.seq} /\ ~CanAccept(x.window, n.seq)
  BY FreshSlot
<1> HIDE DEF x, t
<1>3. /\ t \in Quads /\ t.cur = x /\ t.prev = r.prev
      /\ t.gcur = r.gcur /\ t.gprev = r.gprev
  BY <1>1, <1>2 DEF Quads
<1>4. ~For(r.gcur, n.epoch) /\ ~For(r.gprev, n.epoch)
  BY DEF Judge
<1>5. Apart(t)
  BY <1>2, <1>3, <1>4 DEF Apart, For
<1>6. InOrder(t)
  BY <1>2, <1>3 DEF InOrder
<1>7. Judge(t, n.epoch) = "cur"
  BY <1>2, <1>3, <1>4 DEF Judge, For
<1>8. Refused(t, n)
  BY <1>2, <1>3, <1>7, PacketParts DEF Refused, Covered
<1>9. ASSUME NEW k \in Packets, Refused(r, k)
      PROVE  Refused(t, k)
  <2>1. For(r.gcur, k.epoch) \/ For(r.gprev, k.epoch)
    BY <1>9 DEF Refused, Covered
  <2>2. /\ Judge(t, k.epoch) = Judge(r, k.epoch)
        /\ Judge(r, k.epoch) \in {"gcur", "gprev"}
    BY <1>3, <2>1 DEF Judge
  <2>3. t[Judge(r, k.epoch)] = r[Judge(r, k.epoch)]
    BY <1>3, <2>2 DEF Quads
  <2>4. Covered(t, k)
    BY <1>3, <2>1 DEF Covered
  <2> QED
    BY <1>9, <2>2, <2>3, <2>4 DEF Refused
<1>10. ASSUME NEW H, HoldOnly(r, H)
       PROVE  HoldOnly(t, H \cup {n})
  BY <1>2, <1>3, <1>10, PacketParts DEF HoldOnly
<1>11. t.prev # NoSlot => r.prev # NoSlot /\ t.prev.epoch = r.prev.epoch
  BY <1>3
<1>12. Holds(t, n.epoch) /\ \A e : Holds(r, e) => Holds(t, e)
  BY <1>2, <1>3 DEF Holds, For
<1> QED
  BY <1>2, <1>3, <1>5, <1>6, <1>8, <1>9, <1>10, <1>11, <1>12 DEF Keeps, t

\* A packet of an epoch after the current one: the current slot is now the
\* previous one.
LEMMA CommitNewEpoch ==
    ASSUME NEW r \in Quads, Apart(r), InOrder(r), NEW n \in Packets,
           MayAccept(r, n), Judge(r, n.epoch) = "none", r.cur # NoSlot
    PROVE  Keeps(r, n, Committed(r, n))
<1> DEFINE x == Fresh(n)
           t == Committed(r, n)
<1>1. t = [r EXCEPT !.cur = x, !.prev = r.cur]
  BY DEF Committed
<1>2. /\ x \in Slots /\ x # NoSlot /\ x.epoch = n.epoch
      /\ Remembered(x.window) = {n.seq} /\ ~CanAccept(x.window, n.seq)
  BY FreshSlot
<1> HIDE DEF x, t
<1>3. /\ t \in Quads /\ t.cur = x /\ t.prev = r.cur
      /\ t.gcur = r.gcur /\ t.gprev = r.gprev
  BY <1>1, <1>2 DEF Quads
<1>4. ~For(r.gcur, n.epoch) /\ ~For(r.gprev, n.epoch)
  BY DEF Judge
<1>5. n.epoch > r.cur.epoch /\ n.epoch \in Nat /\ r.cur.epoch \in Nat
  BY PacketParts, SlotTypes DEF MayAccept, Quads
<1>6. Apart(t)
  BY <1>2, <1>3, <1>4 DEF Apart, For
<1>7. InOrder(t)
  BY <1>2, <1>3, <1>5 DEF InOrder
<1>8. Judge(t, n.epoch) = "cur"
  BY <1>2, <1>3, <1>4 DEF Judge, For
<1>9. Refused(t, n)
  BY <1>2, <1>3, <1>5, <1>8 DEF Refused, Covered
<1>10. ASSUME NEW k \in Packets, Refused(r, k)
       PROVE  Refused(t, k)
  <2> DEFINE e == k.epoch
  <2>1. e \in Nat /\ e \in Epochs
    BY PacketParts
  <2>2. Covered(r, k) /\ (Judge(r, e) # "none" => ~CanAccept(r[Judge(r, e)].window, k.seq))
    BY <1>10 DEF Refused
  <2> HIDE DEF e
  <2>3. CASE For(r.gcur, e) \/ For(r.gprev, e)
    <3>1. Judge(t, e) = Judge(r, e) /\ Judge(r, e) \in {"gcur", "gprev"}
      BY <1>3, <2>3 DEF Judge
    <3>2. t[Judge(r, e)] = r[Judge(r, e)]
      BY <1>3, <3>1 DEF Quads
    <3>3. Covered(t, k)
      BY <1>3, <2>3 DEF Covered, e
    <3> QED
      BY <2>2, <3>1, <3>2, <3>3 DEF Refused, e
  <2>4. CASE ~For(r.gcur, e) /\ ~For(r.gprev, e)
    <3>1. e <= r.cur.epoch
      BY <2>2, <2>4 DEF Covered, e
    <3>2. e < n.epoch
      BY <1>5, <2>1, <3>1
    <3>3. Covered(t, k)
      BY <1>2, <1>3, <1>5, <2>1, <3>2 DEF Covered, e
    <3>4. ~For(t.cur, e)
      BY <1>2, <1>3, <1>5, <2>1, <3>2 DEF For
    <3>5. CASE r.cur.epoch = e
      <4>1. Judge(t, e) = "prev" /\ Judge(r, e) = "cur"
        BY <1>2, <1>3, <2>4, <3>4, <3>5 DEF Judge, For
      <4>2. t["prev"] = r["cur"]
        BY <1>3 DEF Quads
      <4> QED
        BY <2>2, <3>3, <4>1, <4>2 DEF Refused, e
    <3>6. CASE r.cur.epoch # e
      <4>1. Judge(t, e) = "none"
        BY <1>2, <1>3, <2>4, <3>4, <3>6 DEF Judge, For
      <4> QED
        BY <3>3, <4>1 DEF Refused, e
    <3> QED
      BY <3>5, <3>6
  <2> QED
    BY <2>3, <2>4
<1>11. ASSUME NEW H, HoldOnly(r, H)
       PROVE  HoldOnly(t, H \cup {n})
  BY <1>2, <1>3, <1>11, PacketParts DEF HoldOnly
<1>12. /\ t.cur.epoch = n.epoch /\ n.epoch > r.cur.epoch
       /\ t.prev.epoch = r.cur.epoch
  BY <1>2, <1>3, <1>5
<1>13. ASSUME NEW e \in Epochs, Holds(r, e), ~Holds(t, e)
       PROVE  n.epoch > e + 1
  <2>1. e \in Nat
    BY SlotTypes
  <2>2. For(r.prev, e) /\ ~For(r.cur, e)
    BY <1>3, <1>13 DEF Holds
  <2>3. e <= r.cur.epoch /\ e # r.cur.epoch
    BY <2>2 DEF InOrder, For
  <2> QED
    BY <1>5, <2>1, <2>3
<1>14. Holds(t, n.epoch)
  BY <1>2, <1>3 DEF Holds, For
<1> QED
  BY <1>3, <1>6, <1>7, <1>9, <1>10, <1>11, <1>12, <1>13, <1>14 DEF Keeps, t

\* commit_replay of a packet that precheck_replay let through.
LEMMA CommitKeeps ==
    ASSUME NEW r \in Quads, Apart(r), InOrder(r), NEW n \in Packets, MayAccept(r, n),
           r.cur = NoSlot /\ r.prev # NoSlot => r.prev.epoch <= n.epoch
    PROVE  Keeps(r, n, Committed(r, n))
BY CommitInSlot, CommitFirst, CommitNewEpoch

-----------------------------------------------------------------------------
(* The inductive invariant.                                                *)

Peers == [arrived : Epochs, epoch : Epochs, seq : 0 .. LongRun + 1]

Typed ==
    /\ Now \in Quads
    /\ sendEpoch \in Epochs
    /\ peer \in Peers
    /\ sealed \subseteq Packets /\ heard \subseteq sealed /\ known \subseteq heard
    /\ evicted \subseteq known
    /\ again \in BOOLEAN /\ lost \in BOOLEAN

\* A previous slot of r was followed by a packet of a later epoch.
Followed(r, S) == r.prev # NoSlot => \E m \in S : m.epoch > r.prev.epoch

\* Grace epochs came before the last Sync.
GraceOver(r, e) == \A s \in {r.gcur, r.gprev} \ {NoSlot} : s.epoch < e

\* The epoch e is at most d beyond what r and the sending epoch f are at.
Within(r, f, e, d) == e <= f + d \/ e <= r.cur.epoch + d

\* The peer has not gone further than the server accepts.
InReach(r, f, p, S) ==
    r.cur # NoSlot =>
        /\ Within(r, f, p.arrived, 0)
        /\ \A m \in S : Within(r, f, m.epoch, EpochsAhead)

PeerSealed == peer.epoch <= sendEpoch \/ \E m \in sealed : m.epoch = peer.epoch

\* A packet so old that it is not under way any more.
Passed(n, S) == \E m \in S : m.epoch > n.epoch + 1

\* What is known is refused if it comes again, and until its slot is evicted it
\* is a slot that tells.
Known(r, K, S) == \A n \in K : Refused(r, n) \/ Passed(n, S)
Recorded(r, K, S) == \A n \in K : Holds(r, n.epoch) \/ Passed(n, S)

IInv ==
    /\ Typed
    /\ Apart(Now) /\ InOrder(Now)
    /\ HoldOnly(Now, heard)
    /\ Followed(Now, sealed)
    /\ GraceOver(Now, sendEpoch)
    /\ InReach(Now, sendEpoch, peer, sealed)
    /\ PeerSealed
    /\ Known(Now, known, sealed)
    /\ Recorded(Now, known \ evicted, sealed)
    /\ ~again /\ ~lost

\* The largest of an epoch and those of two slots.
LEMMA LargestOfSlots ==
    ASSUME NEW a \in Nat, NEW x \in Slots, NEW y \in Slots
    PROVE  LET L == Largest({a} \cup EpochsOf({x, y}))
           IN  /\ L \in Nat /\ L >= a
               /\ x # NoSlot => L >= x.epoch
               /\ y # NoSlot => L >= y.epoch
<1> DEFINE S == {a} \cup EpochsOf({x, y})
           L == Largest(S)
<1>1. S \subseteq Nat /\ a \in S
  BY SlotTypes DEF EpochsOf
<1>2. (x # NoSlot => x.epoch \in S) /\ (y # NoSlot => y.epoch \in S)
  BY DEF EpochsOf
<1>3. \A e \in S : e = a \/ (x # NoSlot /\ e = x.epoch) \/ (y # NoSlot /\ e = y.epoch)
  BY DEF EpochsOf
<1> HIDE DEF S
<1>4. \E m \in S : \A e \in S : m >= e
  <2>1. \E b \in S : b >= a /\ (x # NoSlot => b >= x.epoch)
    <3>1. CASE x # NoSlot /\ x.epoch > a
      <4>1. x.epoch \in S /\ x.epoch \in Nat
        BY <1>1, <1>2, <3>1
      <4> QED
        BY <3>1, <4>1
    <3>2. CASE ~(x # NoSlot /\ x.epoch > a)
      <4>1. x # NoSlot => x.epoch \in Nat
        BY <1>1, <1>2
      <4>2. a >= a /\ (x # NoSlot => a >= x.epoch)
        BY <3>2, <4>1
      <4> QED
        BY <1>1, <4>2
    <3> QED
      BY <3>1, <3>2
  <2>2. PICK b \in S : b >= a /\ (x # NoSlot => b >= x.epoch)
    BY <2>1
  <2>3. CASE y # NoSlot /\ y.epoch > b
    <3>1. \A e \in S : y.epoch >= e
      <4>1. y.epoch \in Nat /\ b \in Nat /\ (x # NoSlot => x.epoch \in Nat)
        BY <1>1, <1>2, <2>2, <2>3
      <4>2. y.epoch >= a /\ (x # NoSlot => y.epoch >= x.epoch)
        BY <2>2, <2>3, <4>1
      <4> QED
        BY <1>1, <1>3, <4>1, <4>2
    <3> QED
      BY <1>2, <2>3, <3>1
  <2>4. CASE ~(y # NoSlot /\ y.epoch > b)
    <3>1. \A e \in S : b >= e
      BY <1>1, <1>2, <1>3, <2>2, <2>4
    <3> QED
      BY <3>1
  <2> QED
    BY <2>3, <2>4
<1>5. L \in S /\ \A e \in S : L >= e
  BY <1>4 DEF Largest
<1> QED
  BY <1>1, <1>2, <1>5 DEF S

\* What any eviction leaves of the invariant.
LEMMA AgedKeeps ==
    ASSUME IInv, NEW s \in Aged
    PROVE  /\ s \in Quads /\ Apart(s) /\ InOrder(s)
           /\ HoldOnly(s, heard)
           /\ Followed(s, sealed)
           /\ GraceOver(s, sendEpoch)
           /\ InReach(s, sendEpoch, peer, sealed)
           /\ Known(s, StillKnown(s), sealed)
           /\ Recorded(s, StillKnown(s) \ NowEvicted(s), sealed)
<1>1. /\ Now \in Quads /\ Apart(Now) /\ InOrder(Now)
      /\ known \subseteq Packets
  BY DEF IInv, Typed
<1>2. /\ s \in [cur : {Now.cur, NoSlot}, prev : {Now.prev, NoSlot},
                gcur : {Now.gcur, NoSlot}, gprev : {Now.gprev, NoSlot}]
      /\ OldestFirst(Now.gcur, Now.gprev, s.gcur, s.gprev)
  BY DEF Aged, Now
<1>3. /\ s \in Quads /\ Apart(s) /\ InOrder(s)
      /\ \A H : HoldOnly(Now, H) => HoldOnly(s, H)
      /\ \A n \in Packets : Refused(Now, n) /\ Covered(s, n) => Refused(s, n)
  BY <1>1, <1>2, AgingKeeps
<1>4. HoldOnly(s, heard)
  BY <1>3 DEF IInv
<1>5. Followed(s, sealed)
  BY <1>2 DEF IInv, Followed
<1>6. GraceOver(s, sendEpoch)
  BY <1>2 DEF IInv, GraceOver
<1>7. InReach(s, sendEpoch, peer, sealed)
  <2>1. s.cur # NoSlot => s.cur = Now.cur
    BY <1>2
  <2> QED
    BY <2>1 DEF IInv, InReach, Within
<1>8. ASSUME NEW n \in StillKnown(s), ~Passed(n, sealed)
      PROVE  Refused(s, n)
  <2>1. n \in known /\ Refused(Now, n) /\ n \in Packets
    BY <1>1, <1>8 DEF StillKnown, IInv, Known
  <2>2. Covered(s, n)
    BY <1>3, <2>1, EpochsOfTwo DEF StillKnown, Refused, Covered, Quads
  <2> QED
    BY <1>3, <2>1, <2>2
<1>9. ASSUME NEW n \in StillKnown(s) \ NowEvicted(s), ~Passed(n, sealed)
      PROVE  Holds(s, n.epoch)
  <2>1. n \in known \ evicted /\ n.epoch \notin HeldEpochs(Now) \ HeldEpochs(s)
    BY <1>9 DEF StillKnown, NowEvicted
  <2>2. Holds(Now, n.epoch)
    BY <1>9, <2>1 DEF IInv, Recorded
  <2> QED
    BY <2>1, <2>2 DEF Holds, For, HeldEpochs, EpochsOf
<1>10. Known(s, StillKnown(s), sealed)
  BY <1>8 DEF Known
<1>11. Recorded(s, StillKnown(s) \ NowEvicted(s), sealed)
  BY <1>9 DEF Recorded
<1> QED
  BY <1>3, <1>4, <1>5, <1>6, <1>7, <1>10, <1>11

\* The slots become those of a record.
LEMMA NowBecomes ==
    ASSUME NEW s \in Quads, Becomes(s)
    PROVE  Now' = s
BY DEF Becomes, Now, Quads

LEMMA InvInit == Init => IInv
<1> SUFFICES ASSUME Init PROVE IInv
  OBVIOUS
<1>1. 0 \in Epochs /\ 0 \in 0 .. LongRun + 1
  BY Bounds DEF Epochs
<1>2. /\ Now = [cur |-> NoSlot, prev |-> NoSlot, gcur |-> NoSlot, gprev |-> NoSlot]
      /\ Now \in Quads
  BY DEF Init, Now, Quads, Slots
<1>3. Typed
  BY <1>1, <1>2 DEF Init, Typed, Peers
<1>4. Apart(Now) /\ InOrder(Now)
  BY <1>2 DEF Apart, InOrder, For
<1>5. HoldOnly(Now, heard)
  BY <1>2 DEF HoldOnly
<1>6. Followed(Now, sealed) /\ GraceOver(Now, sendEpoch) /\ InReach(Now, sendEpoch, peer, sealed)
  BY <1>2 DEF Followed, GraceOver, InReach
<1>7. PeerSealed
  BY DEF Init, PeerSealed
<1> QED
  BY <1>3, <1>4, <1>5, <1>6, <1>7 DEF IInv, Init, Known, Recorded

LEMMA SealKeeps == IInv /\ Seal => IInv'
<1> SUFFICES ASSUME IInv, Seal PROVE IInv'
  OBVIOUS
<1>1. PICK e \in {peer.epoch, peer.epoch + 1} \cap Epochs :
          /\ e > peer.epoch => e <= peer.arrived + EpochsAhead
          /\ sealed' = sealed \cup {[epoch |-> e, seq |-> peer.seq]}
          /\ peer' = [peer EXCEPT !.epoch = e, !.seq = @ + 1]
  BY DEF Seal
<1> DEFINE m == [epoch |-> e, seq |-> peer.seq]
<1>2. /\ Now' = Now /\ sendEpoch' = sendEpoch /\ heard' = heard /\ known' = known
      /\ evicted' = evicted /\ again' = again /\ lost' = lost
  BY DEF Seal, slots, Now
<1>3. /\ peer \in Peers /\ peer.epoch \in Nat /\ peer.arrived \in Nat /\ e \in Nat
      /\ sendEpoch \in Nat /\ EpochsAhead \in Nat /\ EpochsAhead >= 1
      /\ LongRun \in Nat /\ MaxSeq <= LongRun /\ MaxSeq \in Nat
  BY <1>1, SlotTypes, Limits, Bounds DEF IInv, Typed, Peers
<1>4. peer.seq \in 0 .. LongRun
  <2>1. peer.seq \in 0 .. LongRun + 1
    BY DEF IInv, Typed, Peers
  <2>2. peer.seq <= LongRun \/ peer.seq <= MaxSeq
    BY DEF Seal
  <2> QED
    BY <1>3, <2>1, <2>2
<1>5. m \in Packets /\ m.epoch = e
  BY <1>1, <1>4 DEF Packets
<1>6. peer' \in Peers /\ peer'.arrived = peer.arrived /\ peer'.epoch = e
  <2>1. peer' = [arrived |-> peer.arrived, epoch |-> e, seq |-> peer.seq + 1]
    BY <1>1, <1>3 DEF Peers
  <2>2. peer.arrived \in Epochs /\ peer.seq + 1 \in 0 .. LongRun + 1
    BY <1>3, <1>4 DEF Peers
  <2> QED
    BY <1>1, <2>1, <2>2 DEF Peers
<1> HIDE DEF m
<1>7. sealed' = sealed \cup {m}
  BY <1>1 DEF m
<1>8. Typed'
  BY <1>2, <1>5, <1>6, <1>7 DEF IInv, Typed
<1>9. Followed(Now', sealed')
  BY <1>2, <1>7 DEF IInv, Followed
<1>10. InReach(Now', sendEpoch', peer', sealed')
  <2> SUFFICES ASSUME Now.cur # NoSlot
               PROVE  Within(Now, sendEpoch, e, EpochsAhead)
    BY <1>2, <1>5, <1>6, <1>7 DEF IInv, InReach, Within
  <2>1. Now.cur.epoch \in Nat
    BY SlotTypes DEF IInv, Typed, Quads
  <2>2. /\ Within(Now, sendEpoch, peer.arrived, 0)
        /\ \A k \in sealed : Within(Now, sendEpoch, k.epoch, EpochsAhead)
    BY DEF IInv, InReach
  <2>3. CASE e = peer.epoch
    BY <1>3, <2>1, <2>2, <2>3 DEF IInv, PeerSealed, Within
  <2>4. CASE e > peer.epoch
    BY <1>1, <1>3, <2>1, <2>2, <2>4 DEF Within
  <2> QED
    BY <1>1, <1>3, <2>3, <2>4
<1>11. PeerSealed'
  BY <1>5, <1>6, <1>7 DEF PeerSealed
<1>12. Apart(Now') /\ InOrder(Now') /\ HoldOnly(Now', heard') /\ GraceOver(Now', sendEpoch')
  BY <1>2 DEF IInv
<1>13. /\ Known(Now', known', sealed')
       /\ Recorded(Now', known' \ evicted', sealed')
  BY <1>2, <1>7 DEF IInv, Known, Recorded, Passed
<1> QED
  BY <1>2, <1>8, <1>9, <1>10, <1>11, <1>12, <1>13 DEF IInv

LEMMA RotateKeeps == IInv /\ Rotate => IInv'
<1> SUFFICES ASSUME IInv, Rotate PROVE IInv'
  OBVIOUS
<1>1. /\ Now' = Now /\ peer' = peer /\ sealed' = sealed /\ heard' = heard
      /\ known' = known /\ evicted' = evicted /\ again' = again /\ lost' = lost
      /\ sendEpoch' = sendEpoch + 1
  BY DEF Rotate, slots, Now
<1>2. /\ sendEpoch \in Nat /\ sendEpoch' \in Epochs /\ sendEpoch' \in Nat
      /\ peer.epoch \in Nat /\ peer.arrived \in Nat /\ EpochsAhead \in Nat
      /\ \A m \in sealed : m.epoch \in Nat
  BY SlotTypes, Limits, Bounds DEF IInv, Typed, Rotate, Epochs, Peers, Packets
<1>3. Typed'
  BY <1>1, <1>2 DEF IInv, Typed
<1>4. GraceOver(Now', sendEpoch')
  <2>1. \A s \in {Now.gcur, Now.gprev} \ {NoSlot} : s.epoch \in Nat
    BY SlotTypes DEF IInv, Typed, Quads
  <2> QED
    BY <1>1, <1>2, <2>1 DEF IInv, GraceOver
<1>5. InReach(Now', sendEpoch', peer', sealed')
  <2>1. ASSUME NEW e \in Nat, NEW d \in Nat, Within(Now, sendEpoch, e, d)
        PROVE  Within(Now, sendEpoch + 1, e, d)
    BY <1>2, <2>1 DEF Within
  <2> QED
    BY <1>1, <1>2, <2>1 DEF IInv, InReach
<1>6. PeerSealed'
  BY <1>1, <1>2 DEF IInv, PeerSealed
<1>7. /\ Known(Now', known', sealed')
      /\ Recorded(Now', known' \ evicted', sealed')
  BY <1>1 DEF IInv
<1> QED
  BY <1>1, <1>3, <1>4, <1>5, <1>6, <1>7 DEF IInv

\* A step that only evicts.
LEMMA EvictionKeeps ==
    ASSUME IInv, NEW s \in Aged, Becomes(s), Ages(s),
           UNCHANGED <<sendEpoch, peer, sealed, heard, again>>, lost' = FALSE
    PROVE  IInv'
<1>1. /\ s \in Quads /\ Apart(s) /\ InOrder(s)
      /\ HoldOnly(s, heard) /\ Followed(s, sealed)
      /\ GraceOver(s, sendEpoch) /\ InReach(s, sendEpoch, peer, sealed)
      /\ Known(s, StillKnown(s), sealed)
      /\ Recorded(s, StillKnown(s) \ NowEvicted(s), sealed)
  BY AgedKeeps
<1>2. Now' = s
  BY <1>1, NowBecomes
<1>3. known' \subseteq known /\ evicted' \subseteq known'
  BY DEF Ages, StillKnown, NowEvicted
<1>4. Typed'
  BY <1>1, <1>2, <1>3 DEF IInv, Typed
<1>5. PeerSealed'
  BY DEF IInv, PeerSealed
<1>6. /\ Known(Now', known', sealed')
      /\ Recorded(Now', known' \ evicted', sealed')
  BY <1>1, <1>2 DEF Ages
<1> QED
  BY <1>1, <1>2, <1>4, <1>5, <1>6 DEF IInv

LEMMA GarbledKeeps == IInv /\ Garbled => IInv'
<1> SUFFICES ASSUME IInv, Garbled PROVE IInv'
  OBVIOUS
<1>1. PICK s \in Aged : Becomes(s) /\ Ages(s)
  BY DEF Garbled
<1>2. lost' = FALSE
  BY DEF Garbled, IInv, Typed
<1> QED
  BY <1>1, <1>2, EvictionKeeps DEF Garbled

\* A packet that the slots refuse, or that is beyond their reach, was
\* superseded: the window that refuses it holds it or a newer one, and beyond
\* the reach there is nothing.
LEMMA RejectedWasSuperseded ==
    ASSUME IInv, NEW s \in Aged, NEW n \in sealed, ~MayAccept(s, n)
    PROVE  Superseded(n)
<1>1. /\ s \in Quads /\ HoldOnly(s, heard) /\ InReach(s, sendEpoch, peer, sealed)
      /\ n \in Packets /\ sendEpoch \in Nat
  BY AgedKeeps, SlotTypes DEF IInv, Typed
<1>2. n.epoch \in Nat /\ n.seq \in Numbers /\ n = [epoch |-> n.epoch, seq |-> n.seq]
  BY <1>1, PacketParts
<1> DEFINE j == Judge(s, n.epoch)
<1>3. CASE j # "none"
  <2>1. /\ j \in {"gcur", "gprev", "cur", "prev"}
        /\ s[j] \in [epoch : Epochs, window : Used]
        /\ s[j].epoch = n.epoch /\ ~CanAccept(s[j].window, n.seq)
    BY <1>1, <1>3, JudgeIs DEF MayAccept
  <2> DEFINE w == s[j].window
  <2>2. w \in Used /\ w.maxSeq \in Numbers
    BY <2>1 DEF Used
  <2>3. \A q \in Remembered(w) : [epoch |-> n.epoch, seq |-> q] \in heard
    <3>1. s[j] \in {s.cur, s.prev, s.gcur, s.gprev} \ {NoSlot}
      <4>1. s[j] # NoSlot
        BY <2>1, SlotTypes DEF Slots
      <4> QED
        BY <1>1, <2>1, <4>1 DEF Quads
    <3> QED
      BY <1>1, <2>1, <3>1 DEF HoldOnly
  <2>4. w.maxSeq - n.seq >= Width \/ n.seq \in Remembered(w)
    BY <1>2, <2>1, <2>2, WindowRefuses
  <2> HIDE DEF w, j
  <2>5. CASE n.seq \in Remembered(w)
    BY <1>2, <2>3, <2>5 DEF Superseded
  <2>6. CASE w.maxSeq - n.seq >= Width
    <3>1. [epoch |-> n.epoch, seq |-> w.maxSeq] \in heard
      BY <2>2, <2>3, RemembersItsNewest
    <3>2. w.maxSeq >= n.seq + Width
      BY <1>2, <2>2, <2>6, ZeroDistance DEF Numbers
    <3> QED
      BY <3>1, <3>2 DEF Superseded
  <2> QED
    BY <2>4, <2>5, <2>6
<1>4. CASE j = "none"
  <2>1. /\ s.cur # NoSlot /\ ~For(s.cur, n.epoch)
        /\ ~(n.epoch > s.cur.epoch /\ n.epoch <= Baseline(s) + EpochsAhead)
    BY <1>4 DEF MayAccept, Judge
  <2>2. s.cur \in [epoch : Epochs, window : Used] /\ s.cur.epoch \in Nat
    BY <1>1, <2>1, SlotTypes DEF Quads
  <2>3. n.epoch # s.cur.epoch
    BY <2>1 DEF For
  <2>4. /\ Baseline(s) \in Nat /\ Baseline(s) >= sendEpoch
        /\ Baseline(s) >= s.cur.epoch
    BY <1>1, <2>1, LargestOfSlots DEF Baseline, Quads
  <2>5. Within(s, sendEpoch, n.epoch, EpochsAhead)
    BY <1>1, <2>1 DEF InReach
  <2>6. EpochsAhead \in Nat
    BY Limits
  <2>7. n.epoch < s.cur.epoch
    BY <1>1, <1>2, <2>1, <2>2, <2>3, <2>4, <2>5, <2>6 DEF Within
  <2>8. [epoch |-> s.cur.epoch, seq |-> s.cur.window.maxSeq] \in heard
    BY <1>1, <2>1, <2>2, RemembersItsNewest DEF HoldOnly
  <2> QED
    BY <2>7, <2>8 DEF Superseded
<1> QED
  BY <1>3, <1>4

LEMMA RejectKeeps ==
    ASSUME IInv, NEW n \in sealed, Reject(n)
    PROVE  IInv'
<1>1. PICK s \in Aged : ~MayAccept(s, n) /\ Becomes(s) /\ Ages(s)
  BY DEF Reject
<1>2. lost' = FALSE
  <2>1. Superseded(n)
    BY <1>1, RejectedWasSuperseded
  <2> QED
    BY <2>1 DEF Reject, IInv
<1> QED
  BY <1>1, <1>2, EvictionKeeps DEF Reject

LEMMA DeliverKeeps ==
    ASSUME IInv, NEW n \in sealed, Deliver(n)
    PROVE  IInv'
<1>1. PICK s \in Aged : /\ MayAccept(s, n)
                        /\ Becomes(Committed(s, n))
                        /\ known' = StillKnown(s) \cup {n}
                        /\ evicted' = NowEvicted(s) \ {n}
                        /\ again' = (again \/ n \in StillKnown(s))
  BY DEF Deliver
<1> DEFINE t == Committed(s, n)
<1>2. /\ s \in Quads /\ Apart(s) /\ InOrder(s)
      /\ HoldOnly(s, heard) /\ Followed(s, sealed)
      /\ GraceOver(s, sendEpoch) /\ InReach(s, sendEpoch, peer, sealed)
      /\ Known(s, StillKnown(s), sealed)
      /\ Recorded(s, StillKnown(s) \ NowEvicted(s), sealed)
  BY AgedKeeps
<1>3. /\ n \in Packets /\ n.epoch \in Epochs /\ n.epoch \in Nat
      /\ \A m \in sealed : m.epoch \in Nat /\ m.epoch <= n.epoch + 1
      /\ sendEpoch \in Nat /\ EpochsAhead \in Nat /\ EpochsAhead >= 1
      /\ known \subseteq Packets /\ StillKnown(s) \subseteq known
      /\ NowEvicted(s) \subseteq StillKnown(s)
  BY SlotTypes, Limits DEF IInv, Typed, Packets, Deliver, Timely, StillKnown, NowEvicted
<1>4. Keeps(s, n, t)
  <2>1. s.prev # NoSlot => s.prev.epoch <= n.epoch
    <3> SUFFICES ASSUME s.prev # NoSlot PROVE s.prev.epoch <= n.epoch
      OBVIOUS
    <3>1. PICK m \in sealed : m.epoch > s.prev.epoch
      BY <1>2 DEF Followed
    <3>2. s.prev.epoch \in Nat
      BY <1>2, SlotTypes DEF Quads
    <3> QED
      BY <1>3, <3>1, <3>2
  <2> QED
    BY <1>1, <1>2, <1>3, <2>1, CommitKeeps
<1> HIDE DEF t
<1>5. t \in Quads /\ Now' = t
  BY <1>1, <1>4, NowBecomes DEF Keeps, t
<1>6. /\ sealed' = sealed /\ sendEpoch' = sendEpoch /\ lost' = lost
      /\ heard' = heard \cup {n} /\ peer' = [peer EXCEPT !.arrived = n.epoch]
  BY DEF Deliver
<1>7. peer' \in Peers /\ peer'.arrived = n.epoch /\ peer'.epoch = peer.epoch
  BY <1>3, <1>6 DEF IInv, Typed, Peers
<1>8. again' = FALSE
  <2>1. ~Passed(n, sealed)
    BY <1>3 DEF Passed
  <2>2. n \notin StillKnown(s)
    BY <1>1, <1>2, <1>3, <2>1, RefusedIsDropped DEF Known
  <2> QED
    BY <1>1, <2>2 DEF IInv
<1>9. Typed'
  BY <1>1, <1>3, <1>5, <1>6, <1>7, <1>8 DEF IInv, Typed
<1>10. Followed(t, sealed)
  BY <1>2, <1>4 DEF Keeps, Followed
<1>11. GraceOver(t, sendEpoch)
  BY <1>2, <1>4 DEF Keeps, GraceOver, For
<1>12. InReach(t, sendEpoch, peer', sealed)
  <2> SUFFICES ASSUME t.cur # NoSlot PROVE InReach(t, sendEpoch, peer', sealed)
    BY DEF InReach
  <2>1. t.cur.epoch \in Nat
    BY <1>5, SlotTypes DEF Quads
  <2>2. Within(t, sendEpoch, n.epoch, 0)
    <3>1. Covered(t, n)
      BY <1>4 DEF Keeps, Refused
    <3>2. CASE n.epoch <= t.cur.epoch
      BY <1>3, <2>1, <3>2 DEF Within
    <3>3. CASE For(t.gcur, n.epoch) \/ For(t.gprev, n.epoch)
      <4>1. n.epoch < sendEpoch
        BY <1>11, <3>3 DEF GraceOver, For
      <4> QED
        BY <1>3, <4>1 DEF Within
    <3> QED
      BY <3>1, <3>2, <3>3 DEF Covered
  <2>3. ASSUME NEW m \in sealed
        PROVE  Within(t, sendEpoch, m.epoch, EpochsAhead)
    <3>1. CASE s.cur # NoSlot /\ (t.cur.epoch = s.cur.epoch \/ t.cur.epoch > s.cur.epoch)
      <4>1. s.cur.epoch \in Nat
        BY <1>2, <3>1, SlotTypes DEF Quads
      <4>2. Within(s, sendEpoch, m.epoch, EpochsAhead)
        BY <1>2, <3>1 DEF InReach
      <4> QED
        BY <1>3, <2>1, <3>1, <4>1, <4>2 DEF Within
    <3>2. CASE t.cur.epoch = n.epoch
      BY <1>3, <3>2 DEF Within
    <3> QED
      BY <1>4, <3>1, <3>2 DEF Keeps
  <2> QED
    BY <1>7, <2>2, <2>3 DEF InReach
<1>13. PeerSealed'
  BY <1>6, <1>7 DEF IInv, PeerSealed
<1>14. HoldOnly(t, heard')
  BY <1>2, <1>4, <1>6 DEF Keeps
<1>15. Known(t, known', sealed)
  BY <1>1, <1>2, <1>3, <1>4 DEF Keeps, Known
<1>16. Recorded(t, known' \ evicted', sealed)
  <2> SUFFICES ASSUME NEW k \in known' \ evicted', k # n, ~Passed(k, sealed)
               PROVE  Holds(t, k.epoch)
    BY <1>4 DEF Keeps, Recorded
  <2>1. k \in StillKnown(s) \ NowEvicted(s) /\ k \in Packets
    BY <1>1, <1>3
  <2>2. Holds(s, k.epoch) /\ k.epoch \in Epochs
    BY <1>2, <2>1, PacketParts DEF Recorded
  <2>3. ~(n.epoch > k.epoch + 1)
    BY DEF Passed
  <2> QED
    BY <1>4, <2>2, <2>3 DEF Keeps
<1>17. Apart(t) /\ InOrder(t)
  BY <1>4 DEF Keeps
<1> QED
  BY <1>5, <1>6, <1>8, <1>9, <1>10, <1>11, <1>12, <1>13, <1>14, <1>15, <1>16, <1>17 DEF IInv

LEMMA SyncKeeps == IInv /\ Sync => IInv'
<1> SUFFICES ASSUME IInv, Sync PROVE IInv'
  OBVIOUS
<1> DEFINE t == [cur |-> NoSlot, prev |-> NoSlot, gcur |-> cur, gprev |-> prev]
<1>1. /\ Now \in Quads /\ Apart(Now) /\ InOrder(Now) /\ cur \in Slots /\ prev \in Slots
      /\ Now.cur = cur /\ Now.prev = prev /\ Now.gcur = gcur /\ Now.gprev = gprev
      /\ sendEpoch \in Nat
  BY SlotTypes DEF IInv, Typed, Now, Quads
<1>2. Now' = t /\ t \in Quads
  BY <1>1 DEF Sync, Grace, Now, Quads, Slots
<1>3. /\ sealed' = sealed /\ heard' = heard /\ again' = again /\ lost' = lost
      /\ sendEpoch' = SyncEpoch /\ SyncEpoch \in Epochs
      /\ peer' = [arrived |-> SyncEpoch, epoch |-> SyncEpoch, seq |-> 0]
      /\ known' = known \ (Overwritten \cup evicted) /\ evicted' = {}
  BY DEF Sync
<1>4. /\ SyncEpoch \in Nat /\ SyncEpoch > sendEpoch
      /\ cur # NoSlot => SyncEpoch > cur.epoch
      /\ prev # NoSlot => SyncEpoch > prev.epoch
  <2> DEFINE L == Largest({sendEpoch} \cup EpochsOf({cur, prev}))
  <2>1. /\ L \in Nat /\ L >= sendEpoch
        /\ cur # NoSlot => L >= cur.epoch
        /\ prev # NoSlot => L >= prev.epoch
    BY <1>1, LargestOfSlots
  <2>2. SyncEpoch = L + 1
    BY DEF SyncEpoch
  <2>3. (cur # NoSlot => cur.epoch \in Nat) /\ (prev # NoSlot => prev.epoch \in Nat)
    BY <1>1, SlotTypes
  <2> HIDE DEF L
  <2> QED
    BY <1>1, <2>1, <2>2, <2>3
<1>5. peer' \in Peers
  <2>1. 0 \in 0 .. LongRun + 1
    BY Bounds
  <2> QED
    BY <1>3, <2>1 DEF Peers
<1>6. Typed'
  BY <1>2, <1>3, <1>5 DEF IInv, Typed
<1>7. Apart(t) /\ InOrder(t) /\ Followed(t, sealed) /\ InReach(t, sendEpoch', peer', sealed)
  BY DEF Apart, InOrder, Followed, InReach, For
<1>8. HoldOnly(t, heard)
  BY <1>1 DEF IInv, HoldOnly
<1>9. GraceOver(t, sendEpoch')
  BY <1>3, <1>4 DEF GraceOver
<1>10. PeerSealed'
  BY <1>3, <1>4 DEF PeerSealed
\* The slots that move to the grace have recorded what is known.
<1>11. ASSUME NEW n \in known', ~Passed(n, sealed)
       PROVE  Refused(t, n) /\ Holds(t, n.epoch)
  <2> DEFINE e == n.epoch
  <2>1. n \in known \ evicted /\ Refused(Now, n) /\ n \in Packets
    BY <1>3, <1>11 DEF IInv, Typed, Known
  <2>2. e \in Epochs /\ ~For(gcur, e) /\ ~For(gprev, e)
    BY <1>3, <2>1 DEF Packets, Overwritten, EpochsOf, For
  <2>3. For(cur, e) \/ For(prev, e)
    BY <1>1, <1>11, <2>1, <2>2 DEF IInv, Recorded, Holds
  <2>4. cur # NoSlot
    BY <1>1, <2>1, <2>2 DEF Refused, Covered
  <2>5. Covered(t, n) /\ Holds(t, e)
    BY <2>3 DEF Covered, Holds
  <2>6. CASE For(cur, e)
    <3>1. Judge(Now, e) = "cur" /\ Judge(t, e) = "gcur"
      BY <1>1, <2>2, <2>4, <2>6 DEF Judge
    <3>2. Now["cur"] = cur /\ t["gcur"] = cur
      BY DEF Now
    <3> QED
      BY <2>1, <2>5, <3>1, <3>2 DEF Refused
  <2>7. CASE ~For(cur, e)
    <3>1. Judge(Now, e) = "prev" /\ Judge(t, e) = "gprev"
      BY <1>1, <2>2, <2>3, <2>4, <2>7 DEF Judge
    <3>2. Now["prev"] = prev /\ t["gprev"] = prev
      BY DEF Now
    <3> QED
      BY <2>1, <2>5, <3>1, <3>2 DEF Refused
  <2> QED
    BY <2>6, <2>7
<1> HIDE DEF t
<1>12. /\ Known(Now', known', sealed')
       /\ Recorded(Now', known' \ evicted', sealed')
  BY <1>2, <1>3, <1>11 DEF Known, Recorded
<1> QED
  BY <1>2, <1>3, <1>6, <1>7, <1>8, <1>9, <1>10, <1>12 DEF IInv

LEMMA InvStutter == IInv /\ UNCHANGED vars => IInv'
<1> SUFFICES ASSUME IInv, UNCHANGED vars PROVE IInv'
  OBVIOUS
<1>1. /\ Now' = Now /\ peer' = peer /\ sealed' = sealed /\ heard' = heard
      /\ known' = known /\ evicted' = evicted /\ again' = again /\ lost' = lost
      /\ sendEpoch' = sendEpoch
  BY DEF vars, slots, Now
<1>2. Typed' /\ PeerSealed'
  BY <1>1 DEF IInv, Typed, PeerSealed
<1>3. /\ Known(Now', known', sealed')
      /\ Recorded(Now', known' \ evicted', sealed')
  BY <1>1 DEF IInv
<1> QED
  BY <1>1, <1>2, <1>3 DEF IInv

LEMMA InvNext == IInv /\ [Next]_vars => IInv'
<1> SUFFICES ASSUME IInv, [Next]_vars PROVE IInv'
  OBVIOUS
<1>1. CASE Seal
  BY <1>1, SealKeeps
<1>2. CASE Rotate
  BY <1>2, RotateKeeps
<1>3. CASE Sync
  BY <1>3, SyncKeeps
<1>4. CASE Garbled
  BY <1>4, GarbledKeeps
<1>5. CASE \E n \in sealed : Deliver(n)
  BY <1>5, DeliverKeeps
<1>6. CASE \E n \in sealed : Reject(n)
  BY <1>6, RejectKeeps
<1>7. CASE UNCHANGED vars
  BY <1>7, InvStutter
<1> QED
  BY <1>1, <1>2, <1>3, <1>4, <1>5, <1>6, <1>7 DEF Next

LEMMA Invariant == Spec => []IInv
BY InvInit, InvNext, PTL DEF Spec

LEMMA InvImplies == IInv => TypeOK /\ AtMostOnce /\ RejectedForCause
<1> SUFFICES ASSUME IInv PROVE TypeOK /\ AtMostOnce /\ RejectedForCause
  OBVIOUS
<1>1. ASSUME NEW s \in {cur, prev, gcur, gprev} \ {NoSlot}
      PROVE  /\ s.epoch \in Epochs
             /\ s.window.bitmap \in [Index -> SUBSET Bits]
             /\ s.window.valid /\ TestBit(s.window.bitmap, 0)
             /\ \A q \in Remembered(s.window) : [epoch |-> s.epoch, seq |-> q] \in heard
  <2>1. s \in Slots /\ s # NoSlot
    BY DEF IInv, Typed, Now, Quads
  <2>2. s.epoch \in Epochs /\ s.window \in Used
    BY <2>1, SlotTypes
  <2>3. \A q \in Remembered(s.window) : [epoch |-> s.epoch, seq |-> q] \in heard
    BY DEF IInv, HoldOnly, Now
  <2> QED
    BY <2>2, <2>3 DEF Used, Bitmaps
<1>2. TypeOK
  BY <1>1 DEF IInv, Typed, TypeOK, Peers
<1> QED
  BY <1>2 DEF IInv, AtMostOnce, RejectedForCause

-----------------------------------------------------------------------------
(* The theorems.                                                           *)

\* Every variable has its type, and a window remembers only what was delivered:
\* a packet that does not open (decrypt_payload) uses up no number.
THEOREM ReceiveTypeCorrect == Spec => []TypeOK
BY Invariant, InvImplies, PTL

\* precheck_replay and commit_replay deliver a packet that is under way once,
\* with windows of any size, over any number of epochs, through rotations and a
\* Sync, unless an eviction or a second Sync has taken the slot that recorded it.
THEOREM DeliveredOnce == Spec => []AtMostOnce
BY Invariant, InvImplies, PTL

\* What precheck_replay drops was delivered before or something newer was.
THEOREM DroppedForCause == Spec => []RejectedForCause
BY Invariant, InvImplies, PTL

-----------------------------------------------------------------------------
(* The other direction: the send window of the connection (SendWindow).    *)

\* What SendWindow assumes of its constants.
LEMMA SendLimits ==
    /\ Sizes \subseteq Nat /\ Window \in Nat \ {0}
    /\ MaxBytes \in Nat /\ MaxFrames \in Nat
BY WindowLimits DEF WindowLimits

\* The history r of one kind of count against what the window has counted, e
\* steps after it began.
Split(e, r, sent, limit) ==
    /\ \A k, m \in Spans : k <= m => r[k] <= r[m]
    /\ e < Window => r[e + 1] = sent /\ r[Window] <= sent + limit
    /\ e = Window => r[Window] <= sent /\ r[1] = 0

SWInv ==
    /\ SWTypeOK
    /\ Split(elapsed, recentBytes, sentBytes, MaxBytes)
    /\ Split(elapsed, recentFrames, sentFrames, MaxFrames)

\* A send adds to the whole history and to the window's count, which a new
\* window starts from 0.
LEMMA SplitSend ==
    ASSUME NEW r \in [Spans -> Nat], NEW limit \in Nat, NEW sent \in 0 .. limit,
           NEW e \in 0 .. Window, Split(e, r, sent, limit), NEW s \in Nat
    PROVE  Split(StartedAt(e), [k \in Spans |-> r[k] + s],
                 (IF Over(e) THEN 0 ELSE sent) + s, limit)
<1> DEFINE q == [k \in Spans |-> r[k] + s]
<1>1. 1 \in Spans /\ Window \in Spans
  BY SendLimits DEF Spans
<1>2. \A k, m \in Spans : k <= m => q[k] <= q[m]
  BY DEF Split
<1>3. CASE e < Window
  <2>1. e + 1 \in Spans /\ StartedAt(e) = e /\ ~Over(e)
    BY <1>3, SendLimits DEF Spans, StartedAt, Over
  <2>2. q[e + 1] = sent + s /\ q[Window] <= sent + s + limit
    BY <1>1, <1>3, <2>1 DEF Split
  <2> QED
    BY <1>2, <1>3, <2>1, <2>2 DEF Split
<1>4. CASE e = Window
  <2>1. StartedAt(e) = 0 /\ Over(e)
    BY <1>4, SendLimits DEF StartedAt, Over
  <2>2. q[0 + 1] = s /\ q[Window] <= s + limit
    BY <1>1, <1>4 DEF Split
  <2> QED
    BY <1>2, <2>1, <2>2, SendLimits DEF Split
<1> QED
  BY <1>3, <1>4, SendLimits

\* Time makes the history older; nothing in it grows.
LEMMA SplitTick ==
    ASSUME NEW r \in [Spans -> Nat], NEW limit \in Nat, NEW sent \in 0 .. limit,
           NEW e \in 0 .. Window, Split(e, r, sent, limit)
    PROVE  Split(IF e < Window THEN e + 1 ELSE e, Older(r), sent, limit)
<1> DEFINE q == Older(r)
           d == IF e < Window THEN e + 1 ELSE e
<1>1. /\ 1 \in Spans /\ Window \in Spans /\ q[1] = 0
      /\ \A k \in Spans \ {1} : k - 1 \in Spans /\ q[k] = r[k - 1]
  BY SendLimits DEF Spans, Older
<1>2. \A k, m \in Spans : k <= m => q[k] <= q[m]
  <2> SUFFICES ASSUME NEW k \in Spans, NEW m \in Spans, k <= m PROVE q[k] <= q[m]
    OBVIOUS
  <2>1. CASE k = 1
    BY <1>1, <2>1 DEF Spans
  <2>2. CASE k # 1
    BY <1>1, <2>2 DEF Split, Spans
  <2> QED
    BY <2>1, <2>2
<1>3. q[Window] <= r[Window]
  BY <1>1 DEF Split, Spans
<1>4. q \in [Spans -> Nat]
  BY <1>1 DEF Older
<1>5. CASE e + 1 < Window
  <2>1. e + 2 \in Spans \ {1} /\ d = e + 1 /\ d < Window
    BY <1>5, SendLimits DEF Spans
  <2>2. q[d + 1] = sent
    BY <1>1, <1>5, <2>1 DEF Split
  <2>3. q[Window] <= sent + limit
    <3>1. r[Window] <= sent + limit
      BY <1>5, SendLimits DEF Split
    <3>2. q[Window] \in Nat /\ r[Window] \in Nat /\ sent + limit \in Nat
      BY <1>1, <1>4
    <3> HIDE DEF q
    <3> QED
      BY <1>3, <3>1, <3>2
  <2> QED
    BY <1>2, <2>1, <2>2, <2>3 DEF Split
<1>6. CASE ~(e + 1 < Window)
  <2>1. d = Window /\ r[Window] <= sent
    BY <1>1, <1>6, SendLimits DEF Split
  <2>2. q[Window] <= sent
    BY <1>1, <1>3, <1>4, <2>1
  <2> QED
    BY <1>1, <1>2, <2>1, <2>2, SendLimits DEF Split
<1> QED
  BY <1>5, <1>6

-----------------------------------------------------------------------------
LEMMA SWInitially == SWInit => SWInv
BY SendLimits DEF SWInit, SWInv, SWTypeOK, Split, Spans

LEMMA SWSends ==
    ASSUME SWInv, NEW s \in Sizes, Send(s)
    PROVE  SWInv'
<1>1. s \in Nat /\ elapsed' = StartedAt(elapsed) /\ elapsed' \in 0 .. Window
  BY SendLimits DEF SWInv, SWTypeOK, Send, StartedAt
<1>2. /\ sentBytes' = (IF Over(elapsed) THEN 0 ELSE sentBytes) + s
      /\ sentFrames' = (IF Over(elapsed) THEN 0 ELSE sentFrames) + 1
      /\ sentBytes' \in 0 .. MaxBytes /\ sentFrames' \in 0 .. MaxFrames
  BY <1>1, SendLimits DEF SWInv, SWTypeOK, Send, Refuses, Full, Counted
<1>3. Split(elapsed', recentBytes', sentBytes', MaxBytes)
  BY <1>1, <1>2, SplitSend, SendLimits DEF SWInv, SWTypeOK, Send
<1>4. Split(elapsed', recentFrames', sentFrames', MaxFrames)
  <2>1. 1 \in Nat
    OBVIOUS
  <2> QED
    BY <1>1, <1>2, <2>1, SplitSend, SendLimits DEF SWInv, SWTypeOK, Send
<1>5. SWTypeOK'
  BY <1>1, <1>2 DEF SWTypeOK, SWInv, Send
<1> QED
  BY <1>3, <1>4, <1>5 DEF SWInv, Split

LEMMA SWTicks ==
    ASSUME SWInv, Tick
    PROVE  SWInv'
<1>1. elapsed' = (IF elapsed < Window THEN elapsed + 1 ELSE elapsed)
      /\ elapsed' \in 0 .. Window
  BY SendLimits DEF SWInv, SWTypeOK, Tick
<1>2. Split(elapsed', recentBytes', sentBytes', MaxBytes)
  BY <1>1, SplitTick, SendLimits DEF SWInv, SWTypeOK, Tick, counts
<1>3. Split(elapsed', recentFrames', sentFrames', MaxFrames)
  BY <1>1, SplitTick, SendLimits DEF SWInv, SWTypeOK, Tick, counts
<1>4. SWTypeOK'
  <2>1. recentBytes' \in [Spans -> Nat] /\ recentFrames' \in [Spans -> Nat]
    BY SendLimits DEF SWInv, SWTypeOK, Tick, Older, Spans
  <2> QED
    BY <1>1, <2>1 DEF SWTypeOK, SWInv, Tick, counts
<1> QED
  BY <1>2, <1>3, <1>4 DEF SWInv, Split

LEMMA SWStep ==
    SWInv /\ [SWNext]_swvars => SWInv'
<1> SUFFICES ASSUME SWInv, [SWNext]_swvars PROVE SWInv'
  OBVIOUS
<1>1. ASSUME NEW s \in Sizes, Send(s) PROVE SWInv'
  BY <1>1, SWSends
<1>2. ASSUME UNCHANGED <<elapsed, counts, history>>,
             socket' \in {"open", "broken", "closed"}
      PROVE  SWInv'
  BY <1>2 DEF SWInv, SWTypeOK, Split, counts, history
<1>3. ASSUME NEW s \in Sizes, Refuse(s) PROVE SWInv'
  BY <1>2, <1>3 DEF Refuse
<1>4. CASE Break
  BY <1>2, <1>4 DEF Break
<1>5. CASE CloseEvent
  BY <1>2, <1>5 DEF CloseEvent
<1>6. CASE Tick
  BY <1>6, SWTicks
<1>7. CASE UNCHANGED swvars
  BY <1>2, <1>7 DEF swvars, SWInv, SWTypeOK
<1> QED
  BY <1>1, <1>3, <1>4, <1>5, <1>6, <1>7 DEF SWNext

LEMMA SWInvariant == SWSpec => []SWInv
<1>1. SWInit => SWInv
  BY SWInitially
<1>2. SWInv /\ [SWNext]_swvars => SWInv'
  BY SWStep
<1> QED
  BY <1>1, <1>2, PTL DEF SWSpec

\* A window that is not over has counted no more than was really sent.
LEMMA CountsAreRecent ==
    ASSUME SWInv
    PROVE  /\ recentBytes[Window] \in Nat /\ recentFrames[Window] \in Nat
           /\ Counted(sentBytes) \in Nat /\ Counted(sentFrames) \in Nat
           /\ Counted(sentBytes) <= recentBytes[Window]
           /\ Counted(sentFrames) <= recentFrames[Window]
<1>1. Window \in Spans /\ recentBytes[Window] \in Nat /\ recentFrames[Window] \in Nat
  BY SendLimits DEF SWInv, SWTypeOK, Spans
<1>2. CASE Over(elapsed)
  BY <1>1, <1>2 DEF Counted
<1>3. CASE ~Over(elapsed)
  <2>1. elapsed < Window /\ elapsed + 1 \in Spans /\ elapsed + 1 <= Window
    BY <1>3, SendLimits DEF SWInv, SWTypeOK, Over, Spans
  <2> QED
    BY <1>1, <1>3, <2>1, SendLimits DEF SWInv, SWTypeOK, Split, Counted
<1> QED
  BY <1>2, <1>3

-----------------------------------------------------------------------------
\* The counters of connection.ts have their types, and a window never counts
\* more than the limits of sendConnection.
THEOREM WindowTypeCorrect == SWSpec => []SWTypeOK
<1>1. SWInv => SWTypeOK
  BY DEF SWInv
<1> QED
  BY <1>1, SWInvariant, PTL

\* Restarting the window instead of moving it lets through at most twice the
\* limits in any SEND_WINDOW_MS, however long that is and whatever is sent.
THEOREM BurstAtMostDouble == SWSpec => []BurstBounded
<1>1. SWInv => BurstBounded
  <2> SUFFICES ASSUME SWInv PROVE BurstBounded
    OBVIOUS
  <2>1. Window \in Spans /\ recentBytes[Window] \in Nat /\ recentFrames[Window] \in Nat
    BY CountsAreRecent, SendLimits DEF Spans
  <2>2. recentBytes[Window] <= sentBytes + MaxBytes
    BY <2>1, SendLimits DEF SWInv, SWTypeOK, Split
  <2>3. recentFrames[Window] <= sentFrames + MaxFrames
    BY <2>1, SendLimits DEF SWInv, SWTypeOK, Split
  <2> QED
    BY <2>1, <2>2, <2>3, SendLimits DEF SWInv, SWTypeOK, BurstBounded
<1> QED
  BY <1>1, SWInvariant, PTL

\* sendConnection refuses an open socket only when the limit really is
\* reached within one SEND_WINDOW_MS: the count of a window that is over, or
\* one not yet reset, never closes a connection.
THEOREM RefusedForItsTraffic == SWSpec => RefusedOnlyWhenBusy
<1> DEFINE Busy == \/ recentFrames[Window] >= MaxFrames
                   \/ \E s \in Sizes : recentBytes[Window] + s > MaxBytes
<1>1. ASSUME SWInv, [SWNext]_swvars, socket = "open", socket' = "closed"
      PROVE  Busy
  <2>1. PICK s \in Sizes : Refuse(s)
    BY <1>1 DEF SWNext, Send, Break, CloseEvent, Tick, swvars
  <2>2. s \in Nat /\ MaxBytes \in Nat /\ MaxFrames \in Nat /\ Refuses(s)
    BY <1>1, <2>1, SendLimits DEF Refuse
  <2> QED
    BY <1>1, <2>2, CountsAreRecent DEF Refuses, Full
<1>2. SWInv /\ [SWNext]_swvars => [socket = "open" /\ socket' = "closed" => Busy]_swvars
  BY <1>1
<1> QED
  BY <1>2, SWInvariant, PTL DEF SWSpec, RefusedOnlyWhenBusy
=============================================================================
