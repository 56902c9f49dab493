---------------------------- MODULE Sht1xCrcProof ----------------------------
(***************************************************************************)
(* Proofs about Sht1xCrc for any readings and any values of the register.  *)
(*                                                                         *)
(* The argument is linear.  A remainder's bits are sums of the bits of     *)
(* what is divided (IsRemainder), once for the sensor's eight steps of     *)
(* division and once, row by row, for the driver's table, so the two agree *)
(* on every byte.  Two checksums then differ by the checksum of the        *)
(* difference of what they are of: an answer damaged on the wire still     *)
(* fits exactly if the damage is a multiple of the polynomial.  That takes *)
(* an even number of bits, and not two of the 24.  The invariant says      *)
(* which bits have been received, and that they differ from the stream     *)
(* exactly at the damaged positions.                                       *)
(***************************************************************************)
EXTENDS Sht1xCrc, FiniteSetTheorems, TLAPS

-----------------------------------------------------------------------------
(* Bytes and their bits *)

Bit(v, i) == BitOf(v, i) = 1

Either(p, q) == ~(p <=> q)

\* The places of a byte's bits.
LEMMA Places ==
  ASSUME NEW v \in Nat
  PROVE  /\ BitOf(v, 0) = v % 2 /\ BitOf(v, 1) = (v \div 2) % 2
         /\ BitOf(v, 2) = (v \div 4) % 2 /\ BitOf(v, 3) = (v \div 8) % 2
         /\ BitOf(v, 4) = (v \div 16) % 2 /\ BitOf(v, 5) = (v \div 32) % 2
         /\ BitOf(v, 6) = (v \div 64) % 2 /\ BitOf(v, 7) = (v \div 128) % 2
<1>1. 2^0 = 1 /\ 2^1 = 2 /\ 2^2 = 4 /\ 2^3 = 8 /\ 2^4 = 16 /\ 2^5 = 32 /\ 2^6 = 64 /\ 2^7 = 128
  OBVIOUS
<1>2. v \div 1 = v
  OBVIOUS
<1> QED
  BY <1>1, <1>2 DEF BitOf

\* A bit is 0 or 1.
LEMMA BitsAreBits ==
  ASSUME NEW v \in Nat
  PROVE  /\ BitOf(v, 0) \in {0, 1} /\ BitOf(v, 1) \in {0, 1} /\ BitOf(v, 2) \in {0, 1}
         /\ BitOf(v, 3) \in {0, 1} /\ BitOf(v, 4) \in {0, 1} /\ BitOf(v, 5) \in {0, 1}
         /\ BitOf(v, 6) \in {0, 1} /\ BitOf(v, 7) \in {0, 1}
<1>1. /\ v \div 2 \in Nat /\ v \div 4 \in Nat /\ v \div 8 \in Nat /\ v \div 16 \in Nat
      /\ v \div 32 \in Nat /\ v \div 64 \in Nat /\ v \div 128 \in Nat
  OBVIOUS
<1>2. \A q \in Nat : q % 2 \in {0, 1}
  OBVIOUS
<1>3. /\ v % 2 \in {0, 1} /\ (v \div 2) % 2 \in {0, 1} /\ (v \div 4) % 2 \in {0, 1}
      /\ (v \div 8) % 2 \in {0, 1} /\ (v \div 16) % 2 \in {0, 1}
      /\ (v \div 32) % 2 \in {0, 1} /\ (v \div 64) % 2 \in {0, 1}
      /\ (v \div 128) % 2 \in {0, 1}
  BY <1>1, <1>2, Zenon
<1>4. /\ BitOf(v, 0) = v % 2 /\ BitOf(v, 1) = (v \div 2) % 2
      /\ BitOf(v, 2) = (v \div 4) % 2 /\ BitOf(v, 3) = (v \div 8) % 2
      /\ BitOf(v, 4) = (v \div 16) % 2 /\ BitOf(v, 5) = (v \div 32) % 2
      /\ BitOf(v, 6) = (v \div 64) % 2 /\ BitOf(v, 7) = (v \div 128) % 2
  BY Places, Zenon
<1> QED
  BY <1>3, <1>4

\* A byte is the sum of its bits at their places.
LEMMA ByteOfBits ==
  ASSUME NEW v \in Byte
  PROVE  v = BitOf(v, 0) + 2 * BitOf(v, 1) + 4 * BitOf(v, 2) + 8 * BitOf(v, 3)
               + 16 * BitOf(v, 4) + 32 * BitOf(v, 5) + 64 * BitOf(v, 6) + 128 * BitOf(v, 7)
<1>1. v \in Nat
  BY DEF Byte
<1>2. v = (v % 2) + 2 * ((v \div 2) % 2) + 4 * ((v \div 4) % 2) + 8 * ((v \div 8) % 2)
            + 16 * ((v \div 16) % 2) + 32 * ((v \div 32) % 2) + 64 * ((v \div 64) % 2)
            + 128 * ((v \div 128) % 2)
  BY DEF Byte
<1>3. /\ BitOf(v, 0) = v % 2 /\ BitOf(v, 1) = (v \div 2) % 2
      /\ BitOf(v, 2) = (v \div 4) % 2 /\ BitOf(v, 3) = (v \div 8) % 2
      /\ BitOf(v, 4) = (v \div 16) % 2 /\ BitOf(v, 5) = (v \div 32) % 2
      /\ BitOf(v, 6) = (v \div 64) % 2 /\ BitOf(v, 7) = (v \div 128) % 2
  BY <1>1, Places, Zenon
<1> QED
  BY <1>2, <1>3, Zenon

\* And a sum of bits at their places is a byte of these bits.
LEMMA BitsOfSum ==
  ASSUME NEW a \in {0, 1}, NEW b \in {0, 1}, NEW c \in {0, 1}, NEW d \in {0, 1},
         NEW e \in {0, 1}, NEW f \in {0, 1}, NEW g \in {0, 1}, NEW h \in {0, 1}
  PROVE  LET v == a + 2 * b + 4 * c + 8 * d + 16 * e + 32 * f + 64 * g + 128 * h
         IN /\ v \in Byte
            /\ BitOf(v, 0) = a /\ BitOf(v, 1) = b /\ BitOf(v, 2) = c /\ BitOf(v, 3) = d
            /\ BitOf(v, 4) = e /\ BitOf(v, 5) = f /\ BitOf(v, 6) = g /\ BitOf(v, 7) = h
<1> DEFINE v == a + 2 * b + 4 * c + 8 * d + 16 * e + 32 * f + 64 * g + 128 * h
<1>1. v \in Byte /\ v \in Nat
  BY DEF Byte
<1>2. /\ v % 2 = a /\ (v \div 2) % 2 = b /\ (v \div 4) % 2 = c /\ (v \div 8) % 2 = d
      /\ (v \div 16) % 2 = e /\ (v \div 32) % 2 = f /\ (v \div 64) % 2 = g
      /\ (v \div 128) % 2 = h
  OBVIOUS
<1> HIDE DEF v
<1>3. /\ BitOf(v, 0) = a /\ BitOf(v, 1) = b /\ BitOf(v, 2) = c /\ BitOf(v, 3) = d
      /\ BitOf(v, 4) = e /\ BitOf(v, 5) = f /\ BitOf(v, 6) = g /\ BitOf(v, 7) = h
  <2>1. /\ BitOf(v, 0) = v % 2 /\ BitOf(v, 1) = (v \div 2) % 2
        /\ BitOf(v, 2) = (v \div 4) % 2 /\ BitOf(v, 3) = (v \div 8) % 2
        /\ BitOf(v, 4) = (v \div 16) % 2 /\ BitOf(v, 5) = (v \div 32) % 2
        /\ BitOf(v, 6) = (v \div 64) % 2 /\ BitOf(v, 7) = (v \div 128) % 2
    BY <1>1, Places, Zenon
  <2> QED
    BY <1>2, <2>1, Zenon
<1> QED
  BY <1>1, <1>3 DEF v

\* Bytes with the same bits are the same.
LEMMA SameBits ==
  ASSUME NEW v \in Byte, NEW w \in Byte,
         Bit(v, 0) <=> Bit(w, 0), Bit(v, 1) <=> Bit(w, 1), Bit(v, 2) <=> Bit(w, 2),
         Bit(v, 3) <=> Bit(w, 3), Bit(v, 4) <=> Bit(w, 4), Bit(v, 5) <=> Bit(w, 5),
         Bit(v, 6) <=> Bit(w, 6), Bit(v, 7) <=> Bit(w, 7)
  PROVE  v = w
<1>1. v \in Nat /\ w \in Nat
  BY DEF Byte
<1>2. /\ BitOf(v, 0) = BitOf(w, 0) /\ BitOf(v, 1) = BitOf(w, 1) /\ BitOf(v, 2) = BitOf(w, 2)
      /\ BitOf(v, 3) = BitOf(w, 3) /\ BitOf(v, 4) = BitOf(w, 4) /\ BitOf(v, 5) = BitOf(w, 5)
      /\ BitOf(v, 6) = BitOf(w, 6) /\ BitOf(v, 7) = BitOf(w, 7)
  BY <1>1, BitsAreBits DEF Bit
<1>3. /\ v = BitOf(v, 0) + 2 * BitOf(v, 1) + 4 * BitOf(v, 2) + 8 * BitOf(v, 3)
               + 16 * BitOf(v, 4) + 32 * BitOf(v, 5) + 64 * BitOf(v, 6) + 128 * BitOf(v, 7)
      /\ w = BitOf(w, 0) + 2 * BitOf(w, 1) + 4 * BitOf(w, 2) + 8 * BitOf(w, 3)
               + 16 * BitOf(w, 4) + 32 * BitOf(w, 5) + 64 * BitOf(w, 6) + 128 * BitOf(w, 7)
  BY ByteOfBits
<1> QED
  BY <1>2, <1>3

-----------------------------------------------------------------------------
(* The bits of a remainder *)

\* A byte of which these are the bits, the lowest first.
HasBits(v, p0, p1, p2, p3, p4, p5, p6, p7) ==
  /\ v \in Byte
  /\ Bit(v, 0) <=> p0
  /\ Bit(v, 1) <=> p1
  /\ Bit(v, 2) <=> p2
  /\ Bit(v, 3) <=> p3
  /\ Bit(v, 4) <=> p4
  /\ Bit(v, 5) <=> p5
  /\ Bit(v, 6) <=> p6
  /\ Bit(v, 7) <=> p7

\* Xor is an exclusive or of each bit.
LEMMA XorBits ==
  ASSUME NEW v \in Byte, NEW w \in Byte
  PROVE  HasBits(Xor(v, w),
           Either(Bit(v, 0), Bit(w, 0)), Either(Bit(v, 1), Bit(w, 1)),
           Either(Bit(v, 2), Bit(w, 2)), Either(Bit(v, 3), Bit(w, 3)),
           Either(Bit(v, 4), Bit(w, 4)), Either(Bit(v, 5), Bit(w, 5)),
           Either(Bit(v, 6), Bit(w, 6)), Either(Bit(v, 7), Bit(w, 7)))
<1> DEFINE b(i) == (BitOf(v, i) + BitOf(w, i)) % 2
           x == b(0) + 2 * b(1) + 4 * b(2) + 8 * b(3) + 16 * b(4) + 32 * b(5)
                  + 64 * b(6) + 128 * b(7)
<1>1. v \in Nat /\ w \in Nat
  BY DEF Byte
<1>2. /\ b(0) \in {0, 1} /\ b(1) \in {0, 1} /\ b(2) \in {0, 1} /\ b(3) \in {0, 1}
      /\ b(4) \in {0, 1} /\ b(5) \in {0, 1} /\ b(6) \in {0, 1} /\ b(7) \in {0, 1}
      /\ (b(0) = 1) <=> Either(Bit(v, 0), Bit(w, 0))
      /\ (b(1) = 1) <=> Either(Bit(v, 1), Bit(w, 1))
      /\ (b(2) = 1) <=> Either(Bit(v, 2), Bit(w, 2))
      /\ (b(3) = 1) <=> Either(Bit(v, 3), Bit(w, 3))
      /\ (b(4) = 1) <=> Either(Bit(v, 4), Bit(w, 4))
      /\ (b(5) = 1) <=> Either(Bit(v, 5), Bit(w, 5))
      /\ (b(6) = 1) <=> Either(Bit(v, 6), Bit(w, 6))
      /\ (b(7) = 1) <=> Either(Bit(v, 7), Bit(w, 7))
  BY <1>1, BitsAreBits DEF Bit, Either
<1>3. Xor(v, w) = x
  BY DEF Xor
<1> HIDE DEF b
<1>4. /\ x \in Byte
      /\ BitOf(x, 0) = b(0) /\ BitOf(x, 1) = b(1) /\ BitOf(x, 2) = b(2) /\ BitOf(x, 3) = b(3)
      /\ BitOf(x, 4) = b(4) /\ BitOf(x, 5) = b(5) /\ BitOf(x, 6) = b(6) /\ BitOf(x, 7) = b(7)
  BY <1>2, BitsOfSum
<1> HIDE DEF x
<1> QED
  BY <1>2, <1>3, <1>4 DEF Bit, HasBits

\* A byte moved up by one place, with a bit at the bottom.
LEMMA ShiftedBits ==
  ASSUME NEW c \in Byte, NEW x \in {0, 1}
  PROVE  HasBits(ShiftIn(c, 8, x), x = 1, Bit(c, 0), Bit(c, 1), Bit(c, 2), Bit(c, 3),
                 Bit(c, 4), Bit(c, 5), Bit(c, 6))
<1> DEFINE r == ShiftIn(c, 8, x)
<1>1. c \in Nat
  BY DEF Byte
<1>2. /\ BitOf(c, 0) \in {0, 1} /\ BitOf(c, 1) \in {0, 1} /\ BitOf(c, 2) \in {0, 1}
      /\ BitOf(c, 3) \in {0, 1} /\ BitOf(c, 4) \in {0, 1} /\ BitOf(c, 5) \in {0, 1}
      /\ BitOf(c, 6) \in {0, 1} /\ BitOf(c, 7) \in {0, 1}
  BY <1>1, BitsAreBits
<1>3. r = (2 * c + x) % 256
  BY DEF ShiftIn
<1> HIDE DEF r
<1>4. r = x + 2 * BitOf(c, 0) + 4 * BitOf(c, 1) + 8 * BitOf(c, 2) + 16 * BitOf(c, 3)
            + 32 * BitOf(c, 4) + 64 * BitOf(c, 5) + 128 * BitOf(c, 6)
  BY <1>2, <1>3, ByteOfBits
<1>5. /\ r \in Byte /\ BitOf(r, 0) = x /\ BitOf(r, 1) = BitOf(c, 0)
      /\ BitOf(r, 2) = BitOf(c, 1) /\ BitOf(r, 3) = BitOf(c, 2) /\ BitOf(r, 4) = BitOf(c, 3)
      /\ BitOf(r, 5) = BitOf(c, 4) /\ BitOf(r, 6) = BitOf(c, 5) /\ BitOf(r, 7) = BitOf(c, 6)
  BY <1>2, <1>4, BitsOfSum
<1>6. HasBits(r, x = 1, Bit(c, 0), Bit(c, 1), Bit(c, 2), Bit(c, 3), Bit(c, 4), Bit(c, 5),
              Bit(c, 6))
  BY <1>5 DEF HasBits, Bit
<1> QED
  BY <1>6 DEF r

\* One bit of the division: all bits move up, and the one that leaves at the top,
\* with the one that is added, changes the bits of the polynomial.
LEMMA AddBitBits ==
  ASSUME NEW c \in Byte, NEW x \in {0, 1}
  PROVE  LET t == Either(Bit(c, 7), x = 1)
         IN HasBits(AddBit(c, x), t, Bit(c, 0), Bit(c, 1), Bit(c, 2), Either(Bit(c, 3), t),
                    Either(Bit(c, 4), t), Bit(c, 5), Bit(c, 6))
<1> DEFINE r == (2 * c) % 256
<1>1. BitOf(c, 7) \in {0, 1}
  BY BitsAreBits DEF Byte
<1>2. r = ShiftIn(c, 8, 0)
  BY DEF Byte, ShiftIn
<1> HIDE DEF r
<1>3. HasBits(r, 0 = 1, Bit(c, 0), Bit(c, 1), Bit(c, 2), Bit(c, 3), Bit(c, 4), Bit(c, 5),
              Bit(c, 6))
  BY <1>2, ShiftedBits
<1>4. /\ 49 \in Byte
      /\ BitOf(49, 0) = 1 /\ BitOf(49, 1) = 0 /\ BitOf(49, 2) = 0 /\ BitOf(49, 3) = 0
      /\ BitOf(49, 4) = 1 /\ BitOf(49, 5) = 1 /\ BitOf(49, 6) = 0 /\ BitOf(49, 7) = 0
  BY Places DEF Byte
<1>5. HasBits(Xor(r, 49),
        Either(Bit(r, 0), Bit(49, 0)), Either(Bit(r, 1), Bit(49, 1)),
        Either(Bit(r, 2), Bit(49, 2)), Either(Bit(r, 3), Bit(49, 3)),
        Either(Bit(r, 4), Bit(49, 4)), Either(Bit(r, 5), Bit(49, 5)),
        Either(Bit(r, 6), Bit(49, 6)), Either(Bit(r, 7), Bit(49, 7)))
  BY <1>3, <1>4, XorBits DEF HasBits
<1>6. AddBit(c, x) = IF BitOf(c, 7) # x THEN Xor(r, 49) ELSE r
  BY DEF AddBit, r
<1>7. (BitOf(c, 7) # x) <=> Either(Bit(c, 7), x = 1)
  BY <1>1 DEF Bit, Either
<1> QED
  BY <1>3, <1>4, <1>5, <1>6, <1>7 DEF HasBits, Bit, Either

\* A byte's bits are added the highest first.
LEMMA AddBitsSteps ==
  ASSUME NEW c, NEW b
  PROVE  LET c1 == AddBit(c, BitOf(b, 7))
             c2 == AddBit(c1, BitOf(b, 6))
             c3 == AddBit(c2, BitOf(b, 5))
             c4 == AddBit(c3, BitOf(b, 4))
             c5 == AddBit(c4, BitOf(b, 3))
             c6 == AddBit(c5, BitOf(b, 2))
             c7 == AddBit(c6, BitOf(b, 1))
         IN AddBits(c, b) = AddBit(c7, BitOf(b, 0))
<1> DEFINE c1 == AddBit(c, BitOf(b, 7))
           c2 == AddBit(c1, BitOf(b, 6))
           c3 == AddBit(c2, BitOf(b, 5))
           c4 == AddBit(c3, BitOf(b, 4))
           c5 == AddBit(c4, BitOf(b, 3))
           c6 == AddBit(c5, BitOf(b, 2))
           c7 == AddBit(c6, BitOf(b, 1))
           c8 == AddBit(c7, BitOf(b, 0))
           g == [i \in 0 .. 8 |->
                   IF i = 0 THEN c ELSE IF i = 1 THEN c1 ELSE IF i = 2 THEN c2
                   ELSE IF i = 3 THEN c3 ELSE IF i = 4 THEN c4 ELSE IF i = 5 THEN c5
                   ELSE IF i = 6 THEN c6 ELSE IF i = 7 THEN c7 ELSE c8]
           P(f) == f = [i \in 0 .. 8 |-> IF i = 0 THEN c
                                         ELSE AddBit(f[i - 1], BitOf(b, 8 - i))]
           rest == CHOOSE f : P(f)
<1>1. P(g)
  <2> HIDE DEF c1, c2, c3, c4, c5, c6, c7, c8
  <2>1. \A i \in 0 .. 8 : i \in {0, 1, 2, 3, 4, 5, 6, 7, 8}
    OBVIOUS
  <2>2. \A i \in 0 .. 8 : g[i] = IF i = 0 THEN c ELSE AddBit(g[i - 1], BitOf(b, 8 - i))
    BY <2>1 DEF c1, c2, c3, c4, c5, c6, c7, c8
  <2> QED
    BY <2>2
<1>2. P(rest)
  BY <1>1, Zenon
<1> HIDE DEF rest
<1>3. /\ rest[0] = c
      /\ rest[1] = AddBit(rest[0], BitOf(b, 7)) /\ rest[2] = AddBit(rest[1], BitOf(b, 6))
      /\ rest[3] = AddBit(rest[2], BitOf(b, 5)) /\ rest[4] = AddBit(rest[3], BitOf(b, 4))
      /\ rest[5] = AddBit(rest[4], BitOf(b, 3)) /\ rest[6] = AddBit(rest[5], BitOf(b, 2))
      /\ rest[7] = AddBit(rest[6], BitOf(b, 1)) /\ rest[8] = AddBit(rest[7], BitOf(b, 0))
  BY <1>2
<1>4. AddBits(c, b) = rest[8]
  BY DEF AddBits, rest
<1> QED
  BY <1>3, <1>4, Zenon

Sum3(p, q, r) == Either(p, Either(q, r))
Sum4(p, q, r, s) == Either(p, Sum3(q, r, s))
Sum5(p, q, r, s, t) == Either(p, Sum4(q, r, s, t))

\* w is the remainder of eight places of v: each of its bits is a sum of bits of v.
IsRemainder(w, v) ==
  HasBits(w,
    Sum4(Bit(v, 0), Bit(v, 3), Bit(v, 4), Bit(v, 6)),
    Sum4(Bit(v, 1), Bit(v, 4), Bit(v, 5), Bit(v, 7)),
    Sum3(Bit(v, 2), Bit(v, 5), Bit(v, 6)),
    Sum3(Bit(v, 3), Bit(v, 6), Bit(v, 7)),
    Sum4(Bit(v, 0), Bit(v, 3), Bit(v, 6), Bit(v, 7)),
    Sum5(Bit(v, 0), Bit(v, 1), Bit(v, 3), Bit(v, 6), Bit(v, 7)),
    Sum4(Bit(v, 1), Bit(v, 2), Bit(v, 4), Bit(v, 7)),
    Sum3(Bit(v, 2), Bit(v, 3), Bit(v, 5)))

\* The sensor's division of a byte adds it to the remainder and carries the sum
\* eight places.
LEMMA AddBitsBits ==
  ASSUME NEW c \in Byte, NEW b \in Byte
  PROVE  IsRemainder(AddBits(c, b), Xor(c, b))
<1> DEFINE c1 == AddBit(c, BitOf(b, 7))
           c2 == AddBit(c1, BitOf(b, 6))
           c3 == AddBit(c2, BitOf(b, 5))
           c4 == AddBit(c3, BitOf(b, 4))
           c5 == AddBit(c4, BitOf(b, 3))
           c6 == AddBit(c5, BitOf(b, 2))
           c7 == AddBit(c6, BitOf(b, 1))
           c8 == AddBit(c7, BitOf(b, 0))
           Step(r, a, p) ==
             HasBits(r, Either(Bit(a, 7), p), Bit(a, 0), Bit(a, 1), Bit(a, 2),
                     Either(Bit(a, 3), Either(Bit(a, 7), p)),
                     Either(Bit(a, 4), Either(Bit(a, 7), p)), Bit(a, 5), Bit(a, 6))
<1>1. AddBits(c, b) = c8
  BY AddBitsSteps, Zenon
<1>2. ASSUME NEW a \in Byte, NEW i \in {0, 1, 2, 3, 4, 5, 6, 7}
      PROVE  AddBit(a, BitOf(b, i)) \in Byte /\ Step(AddBit(a, BitOf(b, i)), a, Bit(b, i))
  <2>1. BitOf(b, i) \in {0, 1}
    BY BitsAreBits DEF Byte
  <2>2. Step(AddBit(a, BitOf(b, i)), a, BitOf(b, i) = 1)
    BY <2>1, AddBitBits
  <2> QED
    BY <2>2 DEF HasBits, Bit
<1> HIDE DEF Step
<1>3. c1 \in Byte /\ Step(c1, c, Bit(b, 7))
  BY <1>2
<1> HIDE DEF c1
<1>4. c2 \in Byte /\ Step(c2, c1, Bit(b, 6))
  BY <1>2, <1>3
<1> HIDE DEF c2
<1>5. c3 \in Byte /\ Step(c3, c2, Bit(b, 5))
  BY <1>2, <1>4
<1> HIDE DEF c3
<1>6. c4 \in Byte /\ Step(c4, c3, Bit(b, 4))
  BY <1>2, <1>5
<1> HIDE DEF c4
<1>7. c5 \in Byte /\ Step(c5, c4, Bit(b, 3))
  BY <1>2, <1>6
<1> HIDE DEF c5
<1>8. c6 \in Byte /\ Step(c6, c5, Bit(b, 2))
  BY <1>2, <1>7
<1> HIDE DEF c6
<1>9. c7 \in Byte /\ Step(c7, c6, Bit(b, 1))
  BY <1>2, <1>8
<1> HIDE DEF c7
<1>10. c8 \in Byte /\ Step(c8, c7, Bit(b, 0))
  BY <1>2, <1>9
<1> HIDE DEF c8
<1> DEFINE v == Xor(c, b)
<1>11. HasBits(v,
         Either(Bit(c, 0), Bit(b, 0)), Either(Bit(c, 1), Bit(b, 1)),
         Either(Bit(c, 2), Bit(b, 2)), Either(Bit(c, 3), Bit(b, 3)),
         Either(Bit(c, 4), Bit(b, 4)), Either(Bit(c, 5), Bit(b, 5)),
         Either(Bit(c, 6), Bit(b, 6)), Either(Bit(c, 7), Bit(b, 7)))
  BY XorBits
<1> HIDE DEF v
\* After four bits, the four lower ones of c are left at the top.
<1>12. HasBits(c4,
         Either(Bit(v, 4), Bit(v, 7)), Bit(v, 5), Bit(v, 6), Bit(v, 7),
         Sum3(Bit(c, 0), Bit(v, 4), Bit(v, 7)),
         Sum4(Bit(c, 1), Bit(v, 4), Bit(v, 5), Bit(v, 7)),
         Sum3(Bit(c, 2), Bit(v, 5), Bit(v, 6)), Sum3(Bit(c, 3), Bit(v, 6), Bit(v, 7)))
  BY <1>3, <1>4, <1>5, <1>6, <1>11 DEF Step, HasBits, Either, Sum3, Sum4
<1>13. IsRemainder(c8, v)
  BY <1>7, <1>8, <1>9, <1>10, <1>11, <1>12
    DEF Step, IsRemainder, HasBits, Either, Sum3, Sum4, Sum5
<1> QED
  BY <1>1, <1>13 DEF v

-----------------------------------------------------------------------------
(* The table *)

\* w is the remainder of v, in arithmetic.
Parities(w, v) ==
  /\ w \in 0 .. 255
  /\ w % 2 = ((v % 2) + v \div 8 + v \div 16 + v \div 64) % 2
  /\ (w \div 2) % 2 = (v \div 2 + v \div 16 + v \div 32 + v \div 128) % 2
  /\ (w \div 4) % 2 = (v \div 4 + v \div 32 + v \div 64) % 2
  /\ (w \div 8) % 2 = (v \div 8 + v \div 64 + v \div 128) % 2
  /\ (w \div 16) % 2 = ((v % 2) + v \div 8 + v \div 64 + v \div 128) % 2
  /\ (w \div 32) % 2 = ((v % 2) + v \div 2 + v \div 8 + v \div 64 + v \div 128) % 2
  /\ (w \div 64) % 2 = (v \div 2 + v \div 4 + v \div 16 + v \div 128) % 2
  /\ (w \div 128) % 2 = (v \div 4 + v \div 8 + v \div 32) % 2

\* The bits of a number as parities of its halves.
LEMMA BitParity ==
  ASSUME NEW v \in Nat
  PROVE  /\ (Bit(v, 0) <=> v % 2 = 1) /\ (Bit(v, 1) <=> (v \div 2) % 2 = 1)
         /\ (Bit(v, 2) <=> (v \div 4) % 2 = 1) /\ (Bit(v, 3) <=> (v \div 8) % 2 = 1)
         /\ (Bit(v, 4) <=> (v \div 16) % 2 = 1) /\ (Bit(v, 5) <=> (v \div 32) % 2 = 1)
         /\ (Bit(v, 6) <=> (v \div 64) % 2 = 1) /\ (Bit(v, 7) <=> (v \div 128) % 2 = 1)
<1>1. /\ BitOf(v, 0) = v % 2 /\ BitOf(v, 1) = (v \div 2) % 2
      /\ BitOf(v, 2) = (v \div 4) % 2 /\ BitOf(v, 3) = (v \div 8) % 2
      /\ BitOf(v, 4) = (v \div 16) % 2 /\ BitOf(v, 5) = (v \div 32) % 2
      /\ BitOf(v, 6) = (v \div 64) % 2 /\ BitOf(v, 7) = (v \div 128) % 2
  BY Places, Zenon
<1> QED
  BY <1>1, ZenonT(30) DEF Bit

\* And that is what IsRemainder says.
LEMMA ParitiesAreRemainder ==
  ASSUME NEW v \in Byte, NEW w, Parities(w, v)
  PROVE  IsRemainder(w, v)
<1> DEFINE v0 == v % 2
           v1 == v \div 2
           v2 == v \div 4
           v3 == v \div 8
           v4 == v \div 16
           v5 == v \div 32
           v6 == v \div 64
           v7 == v \div 128
<1>1. v \in Nat /\ w \in Nat /\ w \in Byte
  BY DEF Parities, Byte
<1>2. /\ v0 \in Nat /\ v1 \in Nat /\ v2 \in Nat /\ v3 \in Nat
      /\ v4 \in Nat /\ v5 \in Nat /\ v6 \in Nat /\ v7 \in Nat
  BY <1>1
<1>3. /\ (Bit(v, 0) <=> v0 % 2 = 1) /\ (Bit(v, 1) <=> v1 % 2 = 1)
      /\ (Bit(v, 2) <=> v2 % 2 = 1) /\ (Bit(v, 3) <=> v3 % 2 = 1)
      /\ (Bit(v, 4) <=> v4 % 2 = 1) /\ (Bit(v, 5) <=> v5 % 2 = 1)
      /\ (Bit(v, 6) <=> v6 % 2 = 1) /\ (Bit(v, 7) <=> v7 % 2 = 1)
  <2>1. v0 % 2 = v0
    BY <1>1
  <2> QED
    BY <1>1, <2>1, BitParity, ZenonT(30)
<1>4. /\ w % 2 = (v0 + v3 + v4 + v6) % 2 /\ (w \div 2) % 2 = (v1 + v4 + v5 + v7) % 2
      /\ (w \div 4) % 2 = (v2 + v5 + v6) % 2 /\ (w \div 8) % 2 = (v3 + v6 + v7) % 2
      /\ (w \div 16) % 2 = (v0 + v3 + v6 + v7) % 2
      /\ (w \div 32) % 2 = (v0 + v1 + v3 + v6 + v7) % 2
      /\ (w \div 64) % 2 = (v1 + v2 + v4 + v7) % 2 /\ (w \div 128) % 2 = (v2 + v3 + v5) % 2
  BY Zenon DEF Parities
<1> HIDE DEF v0, v1, v2, v3, v4, v5, v6, v7
<1>5. /\ (Bit(w, 0) <=> (v0 + v3 + v4 + v6) % 2 = 1)
      /\ (Bit(w, 1) <=> (v1 + v4 + v5 + v7) % 2 = 1)
      /\ (Bit(w, 2) <=> (v2 + v5 + v6) % 2 = 1)
      /\ (Bit(w, 3) <=> (v3 + v6 + v7) % 2 = 1)
      /\ (Bit(w, 4) <=> (v0 + v3 + v6 + v7) % 2 = 1)
      /\ (Bit(w, 5) <=> (v0 + v1 + v3 + v6 + v7) % 2 = 1)
      /\ (Bit(w, 6) <=> (v1 + v2 + v4 + v7) % 2 = 1)
      /\ (Bit(w, 7) <=> (v2 + v3 + v5) % 2 = 1)
  <2>1. /\ (Bit(w, 0) <=> w % 2 = 1) /\ (Bit(w, 1) <=> (w \div 2) % 2 = 1)
        /\ (Bit(w, 2) <=> (w \div 4) % 2 = 1) /\ (Bit(w, 3) <=> (w \div 8) % 2 = 1)
        /\ (Bit(w, 4) <=> (w \div 16) % 2 = 1) /\ (Bit(w, 5) <=> (w \div 32) % 2 = 1)
        /\ (Bit(w, 6) <=> (w \div 64) % 2 = 1) /\ (Bit(w, 7) <=> (w \div 128) % 2 = 1)
    BY <1>1, BitParity, ZenonT(30)
  <2> QED
    BY <1>4, <2>1
<1>6. Bit(w, 0) <=> Sum4(Bit(v, 0), Bit(v, 3), Bit(v, 4), Bit(v, 6))
  BY <1>2, <1>3, <1>5 DEF Sum4, Sum3, Either
<1>7. Bit(w, 1) <=> Sum4(Bit(v, 1), Bit(v, 4), Bit(v, 5), Bit(v, 7))
  BY <1>2, <1>3, <1>5 DEF Sum4, Sum3, Either
<1>8. Bit(w, 2) <=> Sum3(Bit(v, 2), Bit(v, 5), Bit(v, 6))
  BY <1>2, <1>3, <1>5 DEF Sum3, Either
<1>9. Bit(w, 3) <=> Sum3(Bit(v, 3), Bit(v, 6), Bit(v, 7))
  BY <1>2, <1>3, <1>5 DEF Sum3, Either
<1>10. Bit(w, 4) <=> Sum4(Bit(v, 0), Bit(v, 3), Bit(v, 6), Bit(v, 7))
  BY <1>2, <1>3, <1>5 DEF Sum4, Sum3, Either
<1>11. Bit(w, 5) <=> Sum5(Bit(v, 0), Bit(v, 1), Bit(v, 3), Bit(v, 6), Bit(v, 7))
  BY <1>2, <1>3, <1>5 DEF Sum5, Sum4, Sum3, Either
<1>12. Bit(w, 6) <=> Sum4(Bit(v, 1), Bit(v, 2), Bit(v, 4), Bit(v, 7))
  BY <1>2, <1>3, <1>5 DEF Sum4, Sum3, Either
<1>13. Bit(w, 7) <=> Sum3(Bit(v, 2), Bit(v, 3), Bit(v, 5))
  BY <1>2, <1>3, <1>5 DEF Sum3, Either
<1> QED
  BY <1>1, <1>6, <1>7, <1>8, <1>9, <1>10, <1>11, <1>12, <1>13 DEF IsRemainder, HasBits

\* Each of the sixteen rows of the table holds remainders.
LEMMA Rows ==
  ASSUME NEW h \in 0 .. 15, NEW l \in 0 .. 15
  PROVE  Parities(crc8_rows[h + 1][l + 1], 16 * h + l)
<1>1. l \in {0, 1, 2, 3, 4, 5, 6, 7, 8, 9, 10, 11, 12, 13, 14, 15}
  OBVIOUS
<1>2. h \in {0, 1, 2, 3, 4, 5, 6, 7, 8, 9, 10, 11, 12, 13, 14, 15}
  OBVIOUS
<1>3. Parities(crc8_rows[1][l + 1], 0 + l)
  BY <1>1, SMTT(40) DEF Parities, crc8_rows
<1>4. Parities(crc8_rows[2][l + 1], 16 + l)
  BY <1>1, SMTT(40) DEF Parities, crc8_rows
<1>5. Parities(crc8_rows[3][l + 1], 32 + l)
  BY <1>1, SMTT(40) DEF Parities, crc8_rows
<1>6. Parities(crc8_rows[4][l + 1], 48 + l)
  BY <1>1, SMTT(40) DEF Parities, crc8_rows
<1>7. Parities(crc8_rows[5][l + 1], 64 + l)
  BY <1>1, SMTT(40) DEF Parities, crc8_rows
<1>8. Parities(crc8_rows[6][l + 1], 80 + l)
  BY <1>1, SMTT(40) DEF Parities, crc8_rows
<1>9. Parities(crc8_rows[7][l + 1], 96 + l)
  BY <1>1, SMTT(40) DEF Parities, crc8_rows
<1>10. Parities(crc8_rows[8][l + 1], 112 + l)
  BY <1>1, SMTT(40) DEF Parities, crc8_rows
<1>11. Parities(crc8_rows[9][l + 1], 128 + l)
  BY <1>1, SMTT(40) DEF Parities, crc8_rows
<1>12. Parities(crc8_rows[10][l + 1], 144 + l)
  BY <1>1, SMTT(40) DEF Parities, crc8_rows
<1>13. Parities(crc8_rows[11][l + 1], 160 + l)
  BY <1>1, SMTT(40) DEF Parities, crc8_rows
<1>14. Parities(crc8_rows[12][l + 1], 176 + l)
  BY <1>1, SMTT(40) DEF Parities, crc8_rows
<1>15. Parities(crc8_rows[13][l + 1], 192 + l)
  BY <1>1, SMTT(40) DEF Parities, crc8_rows
<1>16. Parities(crc8_rows[14][l + 1], 208 + l)
  BY <1>1, SMTT(40) DEF Parities, crc8_rows
<1>17. Parities(crc8_rows[15][l + 1], 224 + l)
  BY <1>1, SMTT(40) DEF Parities, crc8_rows
<1>18. Parities(crc8_rows[16][l + 1], 240 + l)
  BY <1>1, SMTT(40) DEF Parities, crc8_rows
<1> QED
  BY <1>2, <1>3, <1>4, <1>5, <1>6, <1>7, <1>8, <1>9, <1>10, <1>11, <1>12, <1>13, <1>14,
     <1>15, <1>16, <1>17, <1>18

\* So every entry of crc8_lut is the remainder of its index.
LEMMA TableBits ==
  ASSUME NEW v \in Byte
  PROVE  IsRemainder(crc8_lut[v + 1], v)
<1> DEFINE h == v \div 16
           l == v % 16
<1>1. h \in 0 .. 15 /\ l \in 0 .. 15 /\ v = 16 * h + l
  BY DEF Byte
<1>2. crc8_lut[v + 1] = crc8_rows[h + 1][l + 1]
  BY DEF crc8_lut, Byte
<1> HIDE DEF h, l
<1> QED
  BY <1>1, <1>2, Rows, ParitiesAreRemainder

\* A byte is its eight bits.
LEMMA OneRemainder ==
  ASSUME NEW v, NEW w, NEW x, IsRemainder(w, v), IsRemainder(x, v)
  PROVE  w = x
BY SameBits DEF IsRemainder, HasBits

\* The driver's look-up and the sensor's division do the same.
LEMMA SameRemainder ==
  ASSUME NEW c \in Byte, NEW b \in Byte
  PROVE  AddByte(c, b) = AddBits(c, b) /\ AddByte(c, b) \in Byte
<1>1. Xor(c, b) \in Byte
  BY XorBits DEF HasBits
<1>2. IsRemainder(AddByte(c, b), Xor(c, b))
  BY <1>1, TableBits DEF AddByte
<1>3. IsRemainder(AddBits(c, b), Xor(c, b))
  BY AddBitsBits
<1>4. AddByte(c, b) = AddBits(c, b)
  BY <1>2, <1>3, OneRemainder
<1> QED
  BY <1>2, <1>4 DEF IsRemainder, HasBits

-----------------------------------------------------------------------------
(* The loops *)

\* sht1x_crc goes through the bytes from the first to the last, and so does the sensor.
LEMMA CrcOfThree ==
  ASSUME NEW a, NEW b, NEW c, NEW s
  PROVE  sht1x_crc(<<a, b, c>>, s) = AddByte(AddByte(AddByte(s, a), b), c)
<1> DEFINE s1 == AddByte(s, a)
           s2 == AddByte(s1, b)
           s3 == AddByte(s2, c)
           g == [i \in 0 .. 3 |-> IF i = 0 THEN s ELSE IF i = 1 THEN s1
                                  ELSE IF i = 2 THEN s2 ELSE s3]
           P(f) == f = [i \in 0 .. Len(<<a, b, c>>) |->
                          IF i = 0 THEN s ELSE AddByte(f[i - 1], <<a, b, c>>[i])]
           rest == CHOOSE f : P(f)
<1>1. P(g)
  <2> HIDE DEF s1, s2, s3
  <2>1. \A i \in 0 .. 3 : i \in {0, 1, 2, 3}
    OBVIOUS
  <2>2. \A i \in 0 .. 3 : g[i] = IF i = 0 THEN s ELSE AddByte(g[i - 1], <<a, b, c>>[i])
    BY <2>1 DEF s1, s2, s3
  <2> QED
    BY <2>2
<1>2. P(rest)
  BY <1>1, Zenon
<1> HIDE DEF rest
<1>3. /\ rest[0] = s /\ rest[1] = AddByte(rest[0], a) /\ rest[2] = AddByte(rest[1], b)
      /\ rest[3] = AddByte(rest[2], c)
  BY <1>2
<1>4. sht1x_crc(<<a, b, c>>, s) = rest[3]
  BY DEF sht1x_crc, rest
<1> QED
  BY <1>3, <1>4, Zenon

\* The four bytes of a reading.
LEMMA CrcOfFour ==
  ASSUME NEW a, NEW b, NEW c, NEW d, NEW s
  PROVE  sht1x_crc(<<a, b, c, d>>, s) = AddByte(AddByte(AddByte(AddByte(s, a), b), c), d)
<1> DEFINE s1 == AddByte(s, a)
           s2 == AddByte(s1, b)
           s3 == AddByte(s2, c)
           s4 == AddByte(s3, d)
           g == [i \in 0 .. 4 |-> IF i = 0 THEN s ELSE IF i = 1 THEN s1 ELSE IF i = 2 THEN s2
                                  ELSE IF i = 3 THEN s3 ELSE s4]
           P(f) == f = [i \in 0 .. Len(<<a, b, c, d>>) |->
                          IF i = 0 THEN s ELSE AddByte(f[i - 1], <<a, b, c, d>>[i])]
           rest == CHOOSE f : P(f)
<1>1. P(g)
  <2> HIDE DEF s1, s2, s3, s4
  <2>1. \A i \in 0 .. 4 : i \in {0, 1, 2, 3, 4}
    OBVIOUS
  <2>2. \A i \in 0 .. 4 : g[i] = IF i = 0 THEN s ELSE AddByte(g[i - 1], <<a, b, c, d>>[i])
    BY <2>1 DEF s1, s2, s3, s4
  <2> QED
    BY <2>2
<1>2. P(rest)
  BY <1>1, Zenon
<1> HIDE DEF rest
<1>3. /\ rest[0] = s /\ rest[1] = AddByte(rest[0], a) /\ rest[2] = AddByte(rest[1], b)
      /\ rest[3] = AddByte(rest[2], c) /\ rest[4] = AddByte(rest[3], d)
  BY <1>2
<1>4. sht1x_crc(<<a, b, c, d>>, s) = rest[4]
  BY DEF sht1x_crc, rest
<1> QED
  BY <1>3, <1>4, Zenon

\* The sensor's checksum of the register.
LEMMA RemainderOfTwo ==
  ASSUME NEW a, NEW b, NEW s
  PROVE  Remainder(<<a, b>>, s) = AddBits(AddBits(s, a), b)
<1> DEFINE s1 == AddBits(s, a)
           s2 == AddBits(s1, b)
           g == [i \in 0 .. 2 |-> IF i = 0 THEN s ELSE IF i = 1 THEN s1 ELSE s2]
           P(f) == f = [i \in 0 .. Len(<<a, b>>) |->
                          IF i = 0 THEN s ELSE AddBits(f[i - 1], <<a, b>>[i])]
           rest == CHOOSE f : P(f)
<1>1. P(g)
  <2> HIDE DEF s1, s2
  <2>1. \A i \in 0 .. 2 : i \in {0, 1, 2}
    OBVIOUS
  <2>2. \A i \in 0 .. 2 : g[i] = IF i = 0 THEN s ELSE AddBits(g[i - 1], <<a, b>>[i])
    BY <2>1 DEF s1, s2
  <2> QED
    BY <2>2
<1>2. P(rest)
  BY <1>1, Zenon
<1> HIDE DEF rest
<1>3. rest[0] = s /\ rest[1] = AddBits(rest[0], a) /\ rest[2] = AddBits(rest[1], b)
  BY <1>2
<1>4. Remainder(<<a, b>>, s) = rest[2]
  BY DEF Remainder, rest
<1> QED
  BY <1>3, <1>4, Zenon

\* And of a reading.
LEMMA RemainderOfThree ==
  ASSUME NEW a, NEW b, NEW c, NEW s
  PROVE  Remainder(<<a, b, c>>, s) = AddBits(AddBits(AddBits(s, a), b), c)
<1> DEFINE s1 == AddBits(s, a)
           s2 == AddBits(s1, b)
           s3 == AddBits(s2, c)
           g == [i \in 0 .. 3 |-> IF i = 0 THEN s ELSE IF i = 1 THEN s1
                                  ELSE IF i = 2 THEN s2 ELSE s3]
           P(f) == f = [i \in 0 .. Len(<<a, b, c>>) |->
                          IF i = 0 THEN s ELSE AddBits(f[i - 1], <<a, b, c>>[i])]
           rest == CHOOSE f : P(f)
<1>1. P(g)
  <2> HIDE DEF s1, s2, s3
  <2>1. \A i \in 0 .. 3 : i \in {0, 1, 2, 3}
    OBVIOUS
  <2>2. \A i \in 0 .. 3 : g[i] = IF i = 0 THEN s ELSE AddBits(g[i - 1], <<a, b, c>>[i])
    BY <2>1 DEF s1, s2, s3
  <2> QED
    BY <2>2
<1>2. P(rest)
  BY <1>1, Zenon
<1> HIDE DEF rest
<1>3. /\ rest[0] = s /\ rest[1] = AddBits(rest[0], a) /\ rest[2] = AddBits(rest[1], b)
      /\ rest[3] = AddBits(rest[2], c)
  BY <1>2
<1>4. Remainder(<<a, b, c>>, s) = rest[3]
  BY DEF Remainder, rest
<1> QED
  BY <1>3, <1>4, Zenon

\* The seed's bits are the register's in the reverse order.
LEMMA SeedBits ==
  ASSUME NEW v \in Byte
  PROVE  HasBits(Seed(v), Bit(v, 7), Bit(v, 6), Bit(v, 5), Bit(v, 4), Bit(v, 3), Bit(v, 2),
                 Bit(v, 1), Bit(v, 0))
<1>1. /\ BitOf(v, 0) \in {0, 1} /\ BitOf(v, 1) \in {0, 1} /\ BitOf(v, 2) \in {0, 1}
      /\ BitOf(v, 3) \in {0, 1} /\ BitOf(v, 4) \in {0, 1} /\ BitOf(v, 5) \in {0, 1}
      /\ BitOf(v, 6) \in {0, 1} /\ BitOf(v, 7) \in {0, 1}
  BY BitsAreBits DEF Byte
<1>2. Seed(v) = BitOf(v, 7) + 2 * BitOf(v, 6) + 4 * BitOf(v, 5) + 8 * BitOf(v, 4)
                  + 16 * BitOf(v, 3) + 32 * BitOf(v, 2) + 64 * BitOf(v, 1)
                  + 128 * BitOf(v, 0)
  BY Zenon DEF Seed
<1>3. /\ Seed(v) \in Byte
      /\ BitOf(Seed(v), 0) = BitOf(v, 7) /\ BitOf(Seed(v), 1) = BitOf(v, 6)
      /\ BitOf(Seed(v), 2) = BitOf(v, 5) /\ BitOf(Seed(v), 3) = BitOf(v, 4)
      /\ BitOf(Seed(v), 4) = BitOf(v, 3) /\ BitOf(Seed(v), 5) = BitOf(v, 2)
      /\ BitOf(Seed(v), 6) = BitOf(v, 1) /\ BitOf(Seed(v), 7) = BitOf(v, 0)
  BY <1>1, <1>2, BitsOfSum
<1> QED
  BY <1>3 DEF HasBits, Bit

\* The eight rounds of sht1x_reverse_bits push out the value they start from and leave
\* its bits in the reverse order.
LEMMA ReverseIsSeed ==
  ASSUME NEW v \in Byte
  PROVE  sht1x_reverse_bits(v) = Seed(v)
<1> DEFINE r1 == ReverseRound(v, v, 0)
           r2 == ReverseRound(r1, v, 1)
           r3 == ReverseRound(r2, v, 2)
           r4 == ReverseRound(r3, v, 3)
           r5 == ReverseRound(r4, v, 4)
           r6 == ReverseRound(r5, v, 5)
           r7 == ReverseRound(r6, v, 6)
           r8 == ReverseRound(r7, v, 7)
           g == [i \in 0 .. 8 |->
                   IF i = 0 THEN v ELSE IF i = 1 THEN r1 ELSE IF i = 2 THEN r2
                   ELSE IF i = 3 THEN r3 ELSE IF i = 4 THEN r4 ELSE IF i = 5 THEN r5
                   ELSE IF i = 6 THEN r6 ELSE IF i = 7 THEN r7 ELSE r8]
           P(f) == f = [i \in 0 .. 8 |-> IF i = 0 THEN v
                                         ELSE ReverseRound(f[i - 1], v, i - 1)]
           reversed == CHOOSE f : P(f)
<1>1. P(g)
  <2> HIDE DEF r1, r2, r3, r4, r5, r6, r7, r8
  <2>1. \A i \in 0 .. 8 : i \in {0, 1, 2, 3, 4, 5, 6, 7, 8}
    OBVIOUS
  <2>2. \A i \in 0 .. 8 : g[i] = IF i = 0 THEN v ELSE ReverseRound(g[i - 1], v, i - 1)
    BY <2>1 DEF r1, r2, r3, r4, r5, r6, r7, r8
  <2> QED
    BY <2>2
<1>2. P(reversed)
  BY <1>1, Zenon
<1> HIDE DEF reversed
<1>3. /\ reversed[0] = v
      /\ reversed[1] = ReverseRound(reversed[0], v, 0)
      /\ reversed[2] = ReverseRound(reversed[1], v, 1)
      /\ reversed[3] = ReverseRound(reversed[2], v, 2)
      /\ reversed[4] = ReverseRound(reversed[3], v, 3)
      /\ reversed[5] = ReverseRound(reversed[4], v, 4)
      /\ reversed[6] = ReverseRound(reversed[5], v, 5)
      /\ reversed[7] = ReverseRound(reversed[6], v, 6)
      /\ reversed[8] = ReverseRound(reversed[7], v, 7)
  BY <1>2
<1>4. sht1x_reverse_bits(v) = reversed[8]
  BY DEF sht1x_reverse_bits, reversed
<1>5. sht1x_reverse_bits(v) = r8
  BY <1>3, <1>4, Zenon
<1> DEFINE Step(r, a, p) ==
             HasBits(r, p, Bit(a, 0), Bit(a, 1), Bit(a, 2), Bit(a, 3), Bit(a, 4), Bit(a, 5),
                     Bit(a, 6))
<1>6. ASSUME NEW a \in Byte, NEW i \in {0, 1, 2, 3, 4, 5, 6, 7}
      PROVE  LET r == ReverseRound(a, v, i) IN r \in Byte /\ Step(r, a, Bit(v, i))
  <2>1. BitOf(v, i) \in {0, 1}
    BY BitsAreBits DEF Byte
  <2>2. ReverseRound(a, v, i) = ShiftIn(a, 8, BitOf(v, i))
    BY DEF ReverseRound, ShiftIn
  <2>3. Step(ReverseRound(a, v, i), a, BitOf(v, i) = 1)
    BY <2>1, <2>2, ShiftedBits
  <2> QED
    BY <2>3, Zenon DEF HasBits, Bit
<1> HIDE DEF Step
<1>7. r1 \in Byte /\ Step(r1, v, Bit(v, 0))
  BY <1>6
<1> HIDE DEF r1
<1>8. r2 \in Byte /\ Step(r2, r1, Bit(v, 1))
  BY <1>6, <1>7
<1> HIDE DEF r2
<1>9. r3 \in Byte /\ Step(r3, r2, Bit(v, 2))
  BY <1>6, <1>8
<1> HIDE DEF r3
<1>10. r4 \in Byte /\ Step(r4, r3, Bit(v, 3))
  BY <1>6, <1>9
<1> HIDE DEF r4
<1>11. r5 \in Byte /\ Step(r5, r4, Bit(v, 4))
  BY <1>6, <1>10
<1> HIDE DEF r5
<1>12. r6 \in Byte /\ Step(r6, r5, Bit(v, 5))
  BY <1>6, <1>11
<1> HIDE DEF r6
<1>13. r7 \in Byte /\ Step(r7, r6, Bit(v, 6))
  BY <1>6, <1>12
<1> HIDE DEF r7
<1>14. r8 \in Byte /\ Step(r8, r7, Bit(v, 7))
  BY <1>6, <1>13
<1> HIDE DEF r8
<1>15. HasBits(r8, Bit(v, 7), Bit(v, 6), Bit(v, 5), Bit(v, 4), Bit(v, 3), Bit(v, 2),
               Bit(v, 1), Bit(v, 0))
  BY <1>7, <1>8, <1>9, <1>10, <1>11, <1>12, <1>13, <1>14 DEF Step, HasBits
<1>16. r8 = Seed(v)
  BY <1>15, SeedBits, SameBits DEF HasBits
<1> QED
  BY <1>5, <1>16

-----------------------------------------------------------------------------
(* Differences *)

\* No bit of 0 is set.
LEMMA ZeroBits ==
  HasBits(0, FALSE, FALSE, FALSE, FALSE, FALSE, FALSE, FALSE, FALSE)
<1>1. /\ BitOf(0, 0) = 0 /\ BitOf(0, 1) = 0 /\ BitOf(0, 2) = 0 /\ BitOf(0, 3) = 0
      /\ BitOf(0, 4) = 0 /\ BitOf(0, 5) = 0 /\ BitOf(0, 6) = 0 /\ BitOf(0, 7) = 0
  BY Places
<1> QED
  BY <1>1 DEF HasBits, Bit, Byte

\* Two bytes are the same exactly if their difference is nothing.
LEMMA XorZero ==
  ASSUME NEW v \in Byte, NEW w \in Byte
  PROVE  Xor(v, w) \in Byte /\ (Xor(v, w) = 0 <=> v = w)
<1>1. Xor(v, w) \in Byte
  BY XorBits DEF HasBits
<1>2. ASSUME Xor(v, w) = 0 PROVE v = w
  BY <1>2, XorBits, ZeroBits, SameBits DEF HasBits, Either
<1>3. ASSUME v = w PROVE Xor(v, w) = 0
  BY <1>1, <1>3, XorBits, ZeroBits, SameBits DEF HasBits, Either
<1> QED
  BY <1>1, <1>2, <1>3

\* The difference of two sums is the sum of the differences.
LEMMA XorRegroup ==
  ASSUME NEW a \in Byte, NEW b \in Byte, NEW c \in Byte, NEW d \in Byte
  PROVE  Xor(Xor(a, b), Xor(c, d)) = Xor(Xor(a, c), Xor(b, d))
<1> DEFINE ab == Xor(a, b)
           cd == Xor(c, d)
           ac == Xor(a, c)
           bd == Xor(b, d)
           x == Xor(ab, cd)
           y == Xor(ac, bd)
           Sum(v, p, q) ==
             HasBits(v,
               Either(Bit(p, 0), Bit(q, 0)), Either(Bit(p, 1), Bit(q, 1)),
               Either(Bit(p, 2), Bit(q, 2)), Either(Bit(p, 3), Bit(q, 3)),
               Either(Bit(p, 4), Bit(q, 4)), Either(Bit(p, 5), Bit(q, 5)),
               Either(Bit(p, 6), Bit(q, 6)), Either(Bit(p, 7), Bit(q, 7)))
<1>1. Sum(ab, a, b) /\ Sum(cd, c, d) /\ Sum(ac, a, c) /\ Sum(bd, b, d)
  BY XorBits
<1>2. Sum(x, ab, cd) /\ Sum(y, ac, bd)
  BY <1>1, XorBits DEF HasBits
<1> HIDE DEF ab, cd, ac, bd, x, y
<1>3. x = y
  BY <1>1, <1>2, SameBits DEF HasBits, Either
<1> QED
  BY <1>3 DEF x, y, ab, cd, ac, bd

\* The table's entry of a byte.
Carried(v) == crc8_lut[v + 1]

\* An entry of the table is a byte, the remainder of its index.
LEMMA CarriedBits ==
  ASSUME NEW v \in Byte
  PROVE  Carried(v) \in Byte /\ IsRemainder(Carried(v), v)
BY TableBits DEF Carried, IsRemainder, HasBits

\* Entries differ by the entry of the difference of their indices: the table is linear.
LEMMA CarriedDifference ==
  ASSUME NEW v \in Byte, NEW w \in Byte
  PROVE  Xor(Carried(v), Carried(w)) = Carried(Xor(v, w))
<1> DEFINE cv == Carried(v)
           cw == Carried(w)
           x == Xor(v, w)
           y == Xor(cv, cw)
<1>1. cv \in Byte /\ IsRemainder(cv, v) /\ cw \in Byte /\ IsRemainder(cw, w)
  BY CarriedBits
<1>2. HasBits(x,
        Either(Bit(v, 0), Bit(w, 0)), Either(Bit(v, 1), Bit(w, 1)),
        Either(Bit(v, 2), Bit(w, 2)), Either(Bit(v, 3), Bit(w, 3)),
        Either(Bit(v, 4), Bit(w, 4)), Either(Bit(v, 5), Bit(w, 5)),
        Either(Bit(v, 6), Bit(w, 6)), Either(Bit(v, 7), Bit(w, 7)))
  BY XorBits
<1>3. HasBits(y,
        Either(Bit(cv, 0), Bit(cw, 0)), Either(Bit(cv, 1), Bit(cw, 1)),
        Either(Bit(cv, 2), Bit(cw, 2)), Either(Bit(cv, 3), Bit(cw, 3)),
        Either(Bit(cv, 4), Bit(cw, 4)), Either(Bit(cv, 5), Bit(cw, 5)),
        Either(Bit(cv, 6), Bit(cw, 6)), Either(Bit(cv, 7), Bit(cw, 7)))
  BY <1>1, XorBits
<1> HIDE DEF cv, cw, x, y
<1>4. IsRemainder(y, x)
  BY <1>1, <1>2, <1>3 DEF IsRemainder, HasBits, Sum3, Sum4, Sum5, Either
<1>5. x \in Byte
  BY <1>2 DEF HasBits
<1>6. y = Carried(x)
  BY <1>4, <1>5, CarriedBits, OneRemainder
<1> QED
  BY <1>6 DEF x, y, cv, cw

\* The driver's two sums of a byte differ by the carried difference of what they add.
LEMMA AddByteDifference ==
  ASSUME NEW c \in Byte, NEW b \in Byte, NEW d \in Byte, NEW e \in Byte
  PROVE  Xor(AddByte(c, b), AddByte(d, e)) = Carried(Xor(Xor(c, d), Xor(b, e)))
<1>1. Xor(c, b) \in Byte /\ Xor(d, e) \in Byte
  BY XorZero
<1>2. Xor(AddByte(c, b), AddByte(d, e)) = Carried(Xor(Xor(c, b), Xor(d, e)))
  BY <1>1, CarriedDifference DEF AddByte, Carried
<1> QED
  BY <1>2, XorRegroup

\* Only nothing is carried to nothing.
LEMMA CarriedZero ==
  ASSUME NEW v \in Byte
  PROVE  Carried(v) = 0 <=> v = 0
<1>1. IsRemainder(Carried(v), v)
  BY CarriedBits
<1>2. ASSUME Carried(v) = 0 PROVE v = 0
  BY <1>1, <1>2, ZeroBits, SameBits DEF IsRemainder, HasBits, Sum3, Sum4, Sum5, Either
<1>3. ASSUME v = 0 PROVE Carried(v) = 0
  BY <1>1, <1>3, ZeroBits, SameBits DEF IsRemainder, HasBits, Sum3, Sum4, Sum5, Either
<1> QED
  BY <1>2, <1>3

\* A last byte brings the sum to nothing exactly if it is the sum itself.
LEMMA LastByte ==
  ASSUME NEW c \in Byte, NEW b \in Byte
  PROVE  AddByte(c, b) = 0 <=> c = b
BY XorZero, CarriedZero DEF AddByte, Carried

\* Sums that start apart stay apart while the same bytes are added.
LEMMA AddByteInjective ==
  ASSUME NEW c \in Byte, NEW d \in Byte, NEW b \in Byte, c # d
  PROVE  AddByte(c, b) # AddByte(d, b)
<1>1. Xor(c, d) \in Byte /\ Xor(c, d) # 0 /\ Xor(b, b) = 0
  BY XorZero
<1>2. 0 \in Byte
  BY DEF Byte
<1>3. Xor(Xor(c, d), Xor(b, b)) \in Byte /\ Xor(Xor(c, d), Xor(b, b)) # 0
  BY <1>1, <1>2, XorZero
<1>4. Xor(AddByte(c, b), AddByte(d, b)) # 0
  BY <1>3, AddByteDifference, CarriedZero
<1> QED
  BY <1>4, XorZero, SameRemainder

-----------------------------------------------------------------------------
(* Damage *)

Ones(v) == BitOf(v, 0) + BitOf(v, 1) + BitOf(v, 2) + BitOf(v, 3) + BitOf(v, 4) + BitOf(v, 5)
             + BitOf(v, 6) + BitOf(v, 7)

Odd(v) == Either(Sum4(Bit(v, 0), Bit(v, 1), Bit(v, 2), Bit(v, 3)),
                 Sum4(Bit(v, 4), Bit(v, 5), Bit(v, 6), Bit(v, 7)))

\* Odd tells the parity of the number of bits set.
LEMMA OnesParity ==
  ASSUME NEW v \in Byte
  PROVE  Ones(v) \in Nat /\ (Odd(v) <=> Ones(v) % 2 = 1)
<1>1. /\ BitOf(v, 0) \in {0, 1} /\ BitOf(v, 1) \in {0, 1} /\ BitOf(v, 2) \in {0, 1}
      /\ BitOf(v, 3) \in {0, 1} /\ BitOf(v, 4) \in {0, 1} /\ BitOf(v, 5) \in {0, 1}
      /\ BitOf(v, 6) \in {0, 1} /\ BitOf(v, 7) \in {0, 1}
  BY BitsAreBits DEF Byte
<1> DEFINE low == BitOf(v, 0) + BitOf(v, 1) + BitOf(v, 2) + BitOf(v, 3)
           high == BitOf(v, 4) + BitOf(v, 5) + BitOf(v, 6) + BitOf(v, 7)
<1>2. low \in Nat /\ (Sum4(Bit(v, 0), Bit(v, 1), Bit(v, 2), Bit(v, 3)) <=> low % 2 = 1)
  BY <1>1 DEF Bit, Sum3, Sum4, Either
<1>3. high \in Nat /\ (Sum4(Bit(v, 4), Bit(v, 5), Bit(v, 6), Bit(v, 7)) <=> high % 2 = 1)
  BY <1>1 DEF Bit, Sum3, Sum4, Either
<1>4. Ones(v) = low + high
  BY <1>1 DEF Ones
<1> HIDE DEF low, high
<1> QED
  BY <1>2, <1>3, <1>4 DEF Odd, Either

\* A difference has an odd number of bits if exactly one of the bytes has.
LEMMA XorParity ==
  ASSUME NEW v \in Byte, NEW w \in Byte
  PROVE  Odd(Xor(v, w)) <=> Either(Odd(v), Odd(w))
<1> DEFINE x == Xor(v, w)
<1>1. HasBits(x,
        Either(Bit(v, 0), Bit(w, 0)), Either(Bit(v, 1), Bit(w, 1)),
        Either(Bit(v, 2), Bit(w, 2)), Either(Bit(v, 3), Bit(w, 3)),
        Either(Bit(v, 4), Bit(w, 4)), Either(Bit(v, 5), Bit(w, 5)),
        Either(Bit(v, 6), Bit(w, 6)), Either(Bit(v, 7), Bit(w, 7)))
  BY XorBits
<1> HIDE DEF x
<1>2. Odd(x) <=> Either(Odd(v), Odd(w))
  BY <1>1 DEF HasBits, Odd, Sum3, Sum4, Sum5, Either
<1> QED
  BY <1>2 DEF x

\* Carrying keeps the parity: x + 1 divides the polynomial.
LEMMA CarriedParity ==
  ASSUME NEW v \in Byte
  PROVE  Odd(Carried(v)) <=> Odd(v)
<1>1. IsRemainder(Carried(v), v)
  BY CarriedBits
<1> QED
  BY <1>1 DEF IsRemainder, HasBits, Odd, Sum3, Sum4, Sum5, Either

\* The damage to three bytes of which the last is the checksum of the first two, when
\* the checksum still fits, is an even number of bits.
LEMMA EvenDamage ==
  ASSUME NEW h \in Byte, NEW l \in Byte, NEW c \in Byte, Carried(Xor(Carried(h), l)) = c
  PROVE  (Ones(h) + Ones(l) + Ones(c)) % 2 = 0
<1>1. Carried(h) \in Byte /\ Xor(Carried(h), l) \in Byte
  BY CarriedBits, XorZero
<1>2. Odd(c) <=> Either(Odd(h), Odd(l))
  BY <1>1, CarriedParity, XorParity DEF Either
<1> QED
  BY <1>2, OnesParity DEF Either

\* And more than two bits.
LEMMA FourBitsApart ==
  ASSUME NEW h \in Byte, NEW l \in Byte, NEW c \in Byte, Carried(Xor(Carried(h), l)) = c
  PROVE  Ones(h) + Ones(l) + Ones(c) # 2
<1> SUFFICES ASSUME Ones(h) + Ones(l) + Ones(c) = 2 PROVE FALSE
  OBVIOUS
<1> DEFINE p == Carried(h)
           q == Xor(p, l)
<1>1. p \in Byte /\ IsRemainder(p, h)
  BY CarriedBits
<1>2. HasBits(q,
        Either(Bit(p, 0), Bit(l, 0)), Either(Bit(p, 1), Bit(l, 1)),
        Either(Bit(p, 2), Bit(l, 2)), Either(Bit(p, 3), Bit(l, 3)),
        Either(Bit(p, 4), Bit(l, 4)), Either(Bit(p, 5), Bit(l, 5)),
        Either(Bit(p, 6), Bit(l, 6)), Either(Bit(p, 7), Bit(l, 7)))
  BY <1>1, XorBits
<1>3. q \in Byte
  BY <1>2 DEF HasBits
<1>4. IsRemainder(c, q)
  BY <1>3, CarriedBits
<1> HIDE DEF p, q
<1>5. /\ BitOf(h, 0) \in {0, 1} /\ BitOf(h, 1) \in {0, 1} /\ BitOf(h, 2) \in {0, 1}
      /\ BitOf(h, 3) \in {0, 1} /\ BitOf(h, 4) \in {0, 1} /\ BitOf(h, 5) \in {0, 1}
      /\ BitOf(h, 6) \in {0, 1} /\ BitOf(h, 7) \in {0, 1}
      /\ BitOf(l, 0) \in {0, 1} /\ BitOf(l, 1) \in {0, 1} /\ BitOf(l, 2) \in {0, 1}
      /\ BitOf(l, 3) \in {0, 1} /\ BitOf(l, 4) \in {0, 1} /\ BitOf(l, 5) \in {0, 1}
      /\ BitOf(l, 6) \in {0, 1} /\ BitOf(l, 7) \in {0, 1}
      /\ BitOf(c, 0) \in {0, 1} /\ BitOf(c, 1) \in {0, 1} /\ BitOf(c, 2) \in {0, 1}
      /\ BitOf(c, 3) \in {0, 1} /\ BitOf(c, 4) \in {0, 1} /\ BitOf(c, 5) \in {0, 1}
      /\ BitOf(c, 6) \in {0, 1} /\ BitOf(c, 7) \in {0, 1}
  BY BitsAreBits DEF Byte
<1> QED
  BY <1>1, <1>2, <1>4, <1>5, SMTT(60)
    DEF Ones, IsRemainder, HasBits, Bit, Either, Sum3, Sum4, Sum5

In(S, k) == IF k \in S THEN 1 ELSE 0

\* The members among the first numbers, counted one number at a time.
LEMMA CountStep ==
  ASSUME NEW S, NEW k \in Nat
  PROVE  /\ Cardinality(S \cap (1 .. k)) \in Nat
         /\ Cardinality(S \cap (1 .. (k + 1))) = Cardinality(S \cap (1 .. k)) + In(S, k + 1)
<1> DEFINE T == S \cap (1 .. k)
           U == S \cap (1 .. (k + 1))
<1>1. IsFiniteSet(T)
  <2>1. IsFiniteSet(1 .. k) /\ T \in SUBSET (1 .. k)
    BY FS_Interval
  <2> QED
    BY <2>1, FS_Subset
<1>2. Cardinality(T) \in Nat
  BY <1>1, FS_CardinalityType
<1>3. k + 1 \notin T
  OBVIOUS
<1>4. CASE k + 1 \in S
  <2>1. U = T \cup {k + 1}
    BY <1>4
  <2>2. Cardinality(U) = Cardinality(T) + 1
    BY <1>1, <1>3, <2>1, FS_AddElement
  <2> QED
    BY <1>2, <1>4, <2>2 DEF In
<1>5. CASE k + 1 \notin S
  <2>1. U = T
    BY <1>5
  <2> HIDE DEF T, U
  <2>2. Cardinality(U) = Cardinality(T) + 0
    BY <1>2, <2>1
  <2>3. In(S, k + 1) = 0
    BY <1>5 DEF In
  <2> QED
    BY <1>2, <2>2, <2>3 DEF T, U
<1> QED
  BY <1>4, <1>5

\* Eight numbers further.
LEMMA CountEight ==
  ASSUME NEW S, NEW k \in Nat
  PROVE  /\ Cardinality(S \cap (1 .. k)) \in Nat
         /\ Cardinality(S \cap (1 .. (k + 8))) =
              Cardinality(S \cap (1 .. k))
                + (In(S, k + 1) + In(S, k + 2) + In(S, k + 3) + In(S, k + 4) + In(S, k + 5)
                     + In(S, k + 6) + In(S, k + 7) + In(S, k + 8))
<1> DEFINE N(j) == Cardinality(S \cap (1 .. j))
<1>1. \A j \in Nat : N(j) \in Nat /\ N(j + 1) = N(j) + In(S, j + 1)
  BY CountStep
<1>2. \A j : In(S, j) \in {0, 1}
  BY DEF In
<1> HIDE DEF N
<1>3. /\ k + 1 \in Nat /\ k + 2 \in Nat /\ k + 3 \in Nat /\ k + 4 \in Nat
      /\ k + 5 \in Nat /\ k + 6 \in Nat /\ k + 7 \in Nat /\ k + 8 \in Nat
      /\ (k + 1) + 1 = k + 2 /\ (k + 2) + 1 = k + 3 /\ (k + 3) + 1 = k + 4
      /\ (k + 4) + 1 = k + 5 /\ (k + 5) + 1 = k + 6 /\ (k + 6) + 1 = k + 7
      /\ (k + 7) + 1 = k + 8
  OBVIOUS
<1>4. /\ N(k) \in Nat
      /\ N(k + 1) = N(k) + In(S, k + 1) /\ N(k + 2) = N(k + 1) + In(S, k + 2)
      /\ N(k + 3) = N(k + 2) + In(S, k + 3) /\ N(k + 4) = N(k + 3) + In(S, k + 4)
      /\ N(k + 5) = N(k + 4) + In(S, k + 5) /\ N(k + 6) = N(k + 5) + In(S, k + 6)
      /\ N(k + 7) = N(k + 6) + In(S, k + 7) /\ N(k + 8) = N(k + 7) + In(S, k + 8)
  BY <1>1, <1>3
<1>5. N(k) \in Nat /\ N(k + 8) = N(k) +
        (In(S, k + 1) + In(S, k + 2) + In(S, k + 3) + In(S, k + 4) + In(S, k + 5)
           + In(S, k + 6) + In(S, k + 7) + In(S, k + 8))
  BY <1>2, <1>4
<1> QED
  BY <1>5 DEF N

\* The damage to a byte whose highest bit comes first, after k others.
Down(e, S, k) ==
  HasBits(e, k + 8 \in S, k + 7 \in S, k + 6 \in S, k + 5 \in S, k + 4 \in S, k + 3 \in S,
          k + 2 \in S, k + 1 \in S)

\* The damage to one whose lowest bit comes first.
Up(e, S, k) ==
  HasBits(e, k + 1 \in S, k + 2 \in S, k + 3 \in S, k + 4 \in S, k + 5 \in S, k + 6 \in S,
          k + 7 \in S, k + 8 \in S)

\* Either way it has as many bits as there are damaged positions among the eight.
LEMMA DamageCount ==
  ASSUME NEW e, NEW S, NEW k \in Nat, Down(e, S, k) \/ Up(e, S, k)
  PROVE  /\ Cardinality(S \cap (1 .. k)) \in Nat
         /\ Ones(e) \in Nat
         /\ Cardinality(S \cap (1 .. (k + 8))) = Cardinality(S \cap (1 .. k)) + Ones(e)
<1>1. /\ BitOf(e, 0) \in {0, 1} /\ BitOf(e, 1) \in {0, 1} /\ BitOf(e, 2) \in {0, 1}
      /\ BitOf(e, 3) \in {0, 1} /\ BitOf(e, 4) \in {0, 1} /\ BitOf(e, 5) \in {0, 1}
      /\ BitOf(e, 6) \in {0, 1} /\ BitOf(e, 7) \in {0, 1}
  BY BitsAreBits DEF Byte, Down, Up, HasBits
<1>2. CASE Down(e, S, k)
  <2>1. /\ In(S, k + 8) = BitOf(e, 0) /\ In(S, k + 7) = BitOf(e, 1)
        /\ In(S, k + 6) = BitOf(e, 2) /\ In(S, k + 5) = BitOf(e, 3)
        /\ In(S, k + 4) = BitOf(e, 4) /\ In(S, k + 3) = BitOf(e, 5)
        /\ In(S, k + 2) = BitOf(e, 6) /\ In(S, k + 1) = BitOf(e, 7)
    BY <1>1, <1>2 DEF Down, HasBits, Bit, In
  <2>2. Ones(e) \in Nat /\ Ones(e) = In(S, k + 1) + In(S, k + 2) + In(S, k + 3)
          + In(S, k + 4) + In(S, k + 5) + In(S, k + 6) + In(S, k + 7) + In(S, k + 8)
    BY <1>1, <2>1 DEF Ones
  <2> QED
    BY <2>2, CountEight, Zenon
<1>3. CASE Up(e, S, k)
  <2>1. /\ In(S, k + 1) = BitOf(e, 0) /\ In(S, k + 2) = BitOf(e, 1)
        /\ In(S, k + 3) = BitOf(e, 2) /\ In(S, k + 4) = BitOf(e, 3)
        /\ In(S, k + 5) = BitOf(e, 4) /\ In(S, k + 6) = BitOf(e, 5)
        /\ In(S, k + 7) = BitOf(e, 6) /\ In(S, k + 8) = BitOf(e, 7)
    BY <1>1, <1>3 DEF Up, HasBits, Bit, In
  <2>2. Ones(e) \in Nat /\ Ones(e) = In(S, k + 1) + In(S, k + 2) + In(S, k + 3)
          + In(S, k + 4) + In(S, k + 5) + In(S, k + 6) + In(S, k + 7) + In(S, k + 8)
    BY <1>1, <2>1 DEF Ones
  <2> QED
    BY <2>2, CountEight, Zenon
<1> QED
  BY <1>2, <1>3

-----------------------------------------------------------------------------
(* Words of two bytes *)

Word == {v \in Nat : v < 65536}

\* The bits of a word are those of its two bytes.
LEMMA Halves ==
  ASSUME NEW v \in Word
  PROVE  /\ High(v) \in Byte /\ Low(v) \in Byte /\ v = 256 * High(v) + Low(v)
         /\ BitOf(v, 0) = BitOf(Low(v), 0) /\ BitOf(v, 1) = BitOf(Low(v), 1)
         /\ BitOf(v, 2) = BitOf(Low(v), 2) /\ BitOf(v, 3) = BitOf(Low(v), 3)
         /\ BitOf(v, 4) = BitOf(Low(v), 4) /\ BitOf(v, 5) = BitOf(Low(v), 5)
         /\ BitOf(v, 6) = BitOf(Low(v), 6) /\ BitOf(v, 7) = BitOf(Low(v), 7)
         /\ BitOf(v, 8) = BitOf(High(v), 0) /\ BitOf(v, 9) = BitOf(High(v), 1)
         /\ BitOf(v, 10) = BitOf(High(v), 2) /\ BitOf(v, 11) = BitOf(High(v), 3)
         /\ BitOf(v, 12) = BitOf(High(v), 4) /\ BitOf(v, 13) = BitOf(High(v), 5)
         /\ BitOf(v, 14) = BitOf(High(v), 6) /\ BitOf(v, 15) = BitOf(High(v), 7)
<1>1. v \in Nat /\ v < 65536
  BY DEF Word
<1>2. BitOf(v, 0) = BitOf(Low(v), 0)
  BY <1>1 DEF BitOf, Low
<1>3. BitOf(v, 1) = BitOf(Low(v), 1)
  BY <1>1 DEF BitOf, Low
<1>4. BitOf(v, 2) = BitOf(Low(v), 2)
  BY <1>1 DEF BitOf, Low
<1>5. BitOf(v, 3) = BitOf(Low(v), 3)
  BY <1>1 DEF BitOf, Low
<1>6. BitOf(v, 4) = BitOf(Low(v), 4)
  BY <1>1 DEF BitOf, Low
<1>7. BitOf(v, 5) = BitOf(Low(v), 5)
  BY <1>1 DEF BitOf, Low
<1>8. BitOf(v, 6) = BitOf(Low(v), 6)
  BY <1>1 DEF BitOf, Low
<1>9. BitOf(v, 7) = BitOf(Low(v), 7)
  BY <1>1 DEF BitOf, Low
<1>10. BitOf(v, 8) = BitOf(High(v), 0)
  BY <1>1 DEF BitOf, High
<1>11. BitOf(v, 9) = BitOf(High(v), 1)
  BY <1>1 DEF BitOf, High
<1>12. BitOf(v, 10) = BitOf(High(v), 2)
  BY <1>1 DEF BitOf, High
<1>13. BitOf(v, 11) = BitOf(High(v), 3)
  BY <1>1 DEF BitOf, High
<1>14. BitOf(v, 12) = BitOf(High(v), 4)
  BY <1>1 DEF BitOf, High
<1>15. BitOf(v, 13) = BitOf(High(v), 5)
  BY <1>1 DEF BitOf, High
<1>16. BitOf(v, 14) = BitOf(High(v), 6)
  BY <1>1 DEF BitOf, High
<1>17. BitOf(v, 15) = BitOf(High(v), 7)
  BY <1>1 DEF BitOf, High
<1>18. High(v) \in Byte /\ Low(v) \in Byte /\ v = 256 * High(v) + Low(v)
  BY <1>1 DEF High, Low, Byte
<1> QED
  BY <1>2, <1>3, <1>4, <1>5, <1>6, <1>7, <1>8, <1>9, <1>10, <1>11, <1>12, <1>13, <1>14,
     <1>15, <1>16, <1>17, <1>18

\* A bit of a word is 0 or 1.
LEMMA BitIsBit ==
  ASSUME NEW v \in Word, NEW i \in 0 .. 15
  PROVE  BitOf(v, i) \in {0, 1}
<1>1. i \in {0, 1, 2, 3, 4, 5, 6, 7, 8, 9, 10, 11, 12, 13, 14, 15}
  OBVIOUS
<1>2. High(v) \in Nat /\ Low(v) \in Nat
  BY Halves DEF Byte
<1> QED
  BY <1>1, <1>2, BitsAreBits, Halves

\* A word moved up by one place, with a bit at the bottom.
LEMMA ShiftedWord ==
  ASSUME NEW v \in Word, NEW x \in {0, 1}
  PROVE  /\ ShiftIn(v, 16, x) \in Word
         /\ Bit(ShiftIn(v, 16, x), 0) <=> x = 1
         /\ \A i \in 0 .. 14 : Bit(ShiftIn(v, 16, x), i + 1) <=> Bit(v, i)
<1> DEFINE r == ShiftIn(v, 16, x)
           h == High(v)
           l == Low(v)
           c == BitOf(l, 7)
<1>1. h \in Byte /\ l \in Byte /\ v = 256 * h + l
  BY Halves
<1> HIDE DEF h, l
<1>2. l \in Nat
  BY <1>1 DEF Byte
<1>3. c \in {0, 1} /\ c = (l \div 128) % 2
  <2>1. BitOf(l, 7) \in {0, 1}
    BY <1>2, BitsAreBits
  <2>2. BitOf(l, 7) = (l \div 128) % 2
    BY <1>2, Places, Zenon
  <2> QED
    BY <2>1, <2>2
<1>4. r \in Word
  BY DEF Word, ShiftIn
<1>5. Low(r) = (2 * l + x) % 256
  BY <1>1 DEF Low, Byte, ShiftIn
<1> HIDE DEF c
<1>6. High(r) = (2 * h + c) % 256
  BY <1>1, <1>3 DEF High, Byte, ShiftIn
<1>7. Low(r) = ShiftIn(l, 8, x) /\ High(r) = ShiftIn(h, 8, c)
  BY <1>5, <1>6 DEF ShiftIn
<1> HIDE DEF r
<1>8. HasBits(Low(r), x = 1, Bit(l, 0), Bit(l, 1), Bit(l, 2), Bit(l, 3), Bit(l, 4), Bit(l, 5),
              Bit(l, 6))
  BY <1>1, <1>7, ShiftedBits
<1>9. HasBits(High(r), c = 1, Bit(h, 0), Bit(h, 1), Bit(h, 2), Bit(h, 3), Bit(h, 4),
              Bit(h, 5), Bit(h, 6))
  BY <1>1, <1>3, <1>7, ShiftedBits
<1>10. \A i \in 0 .. 14 : i \in {0, 1, 2, 3, 4, 5, 6, 7, 8, 9, 10, 11, 12, 13, 14}
  OBVIOUS
<1>11. /\ Bit(v, 0) <=> Bit(l, 0)
       /\ Bit(v, 1) <=> Bit(l, 1)
       /\ Bit(v, 2) <=> Bit(l, 2)
       /\ Bit(v, 3) <=> Bit(l, 3)
       /\ Bit(v, 4) <=> Bit(l, 4)
       /\ Bit(v, 5) <=> Bit(l, 5)
       /\ Bit(v, 6) <=> Bit(l, 6)
       /\ Bit(v, 7) <=> c = 1
       /\ Bit(v, 8) <=> Bit(h, 0)
       /\ Bit(v, 9) <=> Bit(h, 1)
       /\ Bit(v, 10) <=> Bit(h, 2)
       /\ Bit(v, 11) <=> Bit(h, 3)
       /\ Bit(v, 12) <=> Bit(h, 4)
       /\ Bit(v, 13) <=> Bit(h, 5)
       /\ Bit(v, 14) <=> Bit(h, 6)
  BY Halves DEF Bit, h, l, c
<1>12. /\ Bit(r, 0) <=> x = 1
       /\ Bit(r, 1) <=> Bit(l, 0)
       /\ Bit(r, 2) <=> Bit(l, 1)
       /\ Bit(r, 3) <=> Bit(l, 2)
       /\ Bit(r, 4) <=> Bit(l, 3)
       /\ Bit(r, 5) <=> Bit(l, 4)
       /\ Bit(r, 6) <=> Bit(l, 5)
       /\ Bit(r, 7) <=> Bit(l, 6)
       /\ Bit(r, 8) <=> c = 1
       /\ Bit(r, 9) <=> Bit(h, 0)
       /\ Bit(r, 10) <=> Bit(h, 1)
       /\ Bit(r, 11) <=> Bit(h, 2)
       /\ Bit(r, 12) <=> Bit(h, 3)
       /\ Bit(r, 13) <=> Bit(h, 4)
       /\ Bit(r, 14) <=> Bit(h, 5)
       /\ Bit(r, 15) <=> Bit(h, 6)
  BY <1>4, <1>8, <1>9, Halves DEF Bit, HasBits
<1>13. \A i \in 0 .. 14 : Bit(r, i + 1) <=> Bit(v, i)
  BY <1>10, <1>11, <1>12
<1> QED
  BY <1>4, <1>12, <1>13 DEF r

-----------------------------------------------------------------------------
(* Checksums *)

\* A byte does not differ from itself, and differs from 0 by itself.
LEMMA XorNothing ==
  ASSUME NEW v \in Byte
  PROVE  0 \in Byte /\ Xor(v, v) = 0 /\ Xor(0, v) = v
<1>1. 0 \in Byte
  BY DEF Byte
<1>2. Xor(v, v) = 0
  BY XorZero
<1>3. HasBits(Xor(0, v),
        Either(Bit(0, 0), Bit(v, 0)), Either(Bit(0, 1), Bit(v, 1)),
        Either(Bit(0, 2), Bit(v, 2)), Either(Bit(0, 3), Bit(v, 3)),
        Either(Bit(0, 4), Bit(v, 4)), Either(Bit(0, 5), Bit(v, 5)),
        Either(Bit(0, 6), Bit(v, 6)), Either(Bit(0, 7), Bit(v, 7)))
  BY <1>1, XorBits
<1>4. Xor(0, v) = v
  BY <1>3, ZeroBits, SameBits DEF HasBits, Either
<1> QED
  BY <1>1, <1>2, <1>4

\* Bytes with the same difference from a third are the same.
LEMMA XorCancel ==
  ASSUME NEW a \in Byte, NEW b \in Byte, NEW c \in Byte
  PROVE  Xor(a, b) = Xor(a, c) <=> b = c
<1>1. ASSUME Xor(a, b) = Xor(a, c) PROVE b = c
  <2>1. Xor(Xor(a, b), Xor(a, c)) = 0
    BY <1>1, XorZero
  <2>2. Xor(0, Xor(b, c)) = 0
    BY <2>1, XorRegroup, XorNothing
  <2> QED
    BY <2>2, XorNothing, XorZero
<1> QED
  BY <1>1

\* A last byte found in place of the checksum of two fits two other bytes exactly if
\* its damage is the checksum of theirs.
LEMMA DamagedSums ==
  ASSUME NEW c \in Byte, NEW h \in Byte, NEW l \in Byte, NEW h2 \in Byte, NEW l2 \in Byte,
         NEW last \in Byte
  PROVE  AddByte(AddByte(c, h2), l2) = last
           <=> Carried(Xor(Carried(Xor(h, h2)), Xor(l, l2)))
                 = Xor(AddByte(AddByte(c, h), l), last)
<1> DEFINE a == AddByte(c, h)
           a2 == AddByte(c, h2)
           b == AddByte(a, l)
           b2 == AddByte(a2, l2)
<1>1. a \in Byte /\ a2 \in Byte /\ b \in Byte /\ b2 \in Byte
  BY SameRemainder
<1>2. Xor(h, h2) \in Byte
  BY XorZero
<1>3. Xor(a, a2) = Carried(Xor(h, h2))
  BY <1>2, AddByteDifference, XorNothing
<1> HIDE DEF a, a2
<1>4. Xor(b, b2) = Carried(Xor(Carried(Xor(h, h2)), Xor(l, l2)))
  BY <1>1, <1>3, AddByteDifference
<1> HIDE DEF b, b2
<1>5. b2 = last <=> Xor(b, b2) = Xor(b, last)
  BY <1>1, XorCancel
<1> QED
  BY <1>4, <1>5 DEF a, a2, b, b2

\* The same of one byte.
LEMMA DamagedSum ==
  ASSUME NEW c \in Byte, NEW l \in Byte, NEW l2 \in Byte, NEW last \in Byte
  PROVE  AddByte(c, l2) = last
           <=> Carried(Xor(Carried(0), Xor(l, l2))) = Xor(AddByte(c, l), last)
<1> DEFINE b == AddByte(c, l)
           b2 == AddByte(c, l2)
<1>1. b \in Byte /\ b2 \in Byte /\ Xor(l, l2) \in Byte /\ 0 \in Byte
  BY SameRemainder, XorZero, XorNothing
<1>2. Carried(0) = 0
  BY <1>1, CarriedZero
<1>3. Xor(b, b2) = Carried(Xor(Carried(0), Xor(l, l2)))
  BY <1>1, <1>2, AddByteDifference, XorNothing
<1> HIDE DEF b, b2
<1>4. b2 = last <=> Xor(b, b2) = Xor(b, last)
  BY <1>1, XorCancel
<1> QED
  BY <1>3, <1>4 DEF b, b2

\* Different registers make different seeds.
LEMMA SeedInjective ==
  ASSUME NEW v \in Byte, NEW w \in Byte
  PROVE  Seed(v) \in Byte /\ (Seed(v) = Seed(w) <=> v = w)
<1>1. Seed(v) \in Byte
  BY SeedBits DEF HasBits
<1>2. ASSUME Seed(v) = Seed(w) PROVE v = w
  BY <1>2, SeedBits, SameBits DEF HasBits
<1> QED
  BY <1>1, <1>2

-----------------------------------------------------------------------------
(* The answer *)

\* The data of an answer: a byte for the register, a word for a reading.
Data(cmd) == IF cmd = 7 THEN Byte ELSE Word

\* A byte is a word
LEMMA ByteIsWord ==
  ASSUME NEW v \in Byte
  PROVE  v \in Word
BY DEF Byte, Word

\* and so is the data of any answer.
LEMMA DataIsWord ==
  ASSUME NEW cmd, NEW word \in Data(cmd)
  PROVE  word \in Word
BY ByteIsWord DEF Data

\* A command fits in a byte and asks for one byte or two.
LEMMA CommandIsByte ==
  ASSUME NEW cmd \in Commands
  PROVE  /\ cmd \in Byte
         /\ Width(cmd) = IF cmd = 7 THEN 8 ELSE 16
         /\ Width(cmd) \in {8, 16}
BY DEF Commands, Byte, Width

\* The sensor's checksum is what the driver's table makes of the same bytes.
LEMMA ChecksumSum ==
  ASSUME NEW cmd \in Commands, NEW word \in Data(cmd), NEW reg \in Byte
  PROVE  /\ Checksum(cmd, word, reg) \in Byte
         /\ AddByte(Seed(reg), cmd) \in Byte
         /\ Checksum(cmd, word, reg) =
              IF cmd = 7 THEN AddByte(AddByte(Seed(reg), cmd), Low(word))
              ELSE AddByte(AddByte(AddByte(Seed(reg), cmd), High(word)), Low(word))
<1>1. cmd \in Byte /\ High(word) \in Byte /\ Low(word) \in Byte /\ Seed(reg) \in Byte
  BY CommandIsByte, DataIsWord, Halves, SeedInjective
<1> DEFINE s == Seed(reg)
           h == High(word)
           l == Low(word)
           c == AddByte(s, cmd)
<1>2. c = AddBits(s, cmd) /\ c \in Byte
  BY <1>1, SameRemainder
<1> HIDE DEF s, h, l, c
<1>3. CASE cmd = 7
  <2>1. Checksum(cmd, word, reg) = Remainder(<<cmd, l>>, s)
    BY <1>3 DEF Checksum, l, s
  <2>2. Checksum(cmd, word, reg) = AddBits(c, l)
    BY <1>2, <2>1, RemainderOfTwo
  <2>3. AddBits(c, l) = AddByte(c, l) /\ AddByte(c, l) \in Byte
    BY <1>1, <1>2, SameRemainder DEF l
  <2> QED
    BY <1>2, <1>3, <2>2, <2>3 DEF c, s, l
<1>4. CASE cmd # 7
  <2>1. Checksum(cmd, word, reg) = Remainder(<<cmd, h, l>>, s)
    BY <1>4 DEF Checksum, h, l, s
  <2>2. Checksum(cmd, word, reg) = AddBits(AddBits(c, h), l)
    BY <1>2, <2>1, RemainderOfThree
  <2>3. AddBits(c, h) = AddByte(c, h) /\ AddByte(c, h) \in Byte
    BY <1>1, <1>2, SameRemainder DEF h
  <2>4. AddBits(AddByte(c, h), l) = AddByte(AddByte(c, h), l) /\ AddByte(AddByte(c, h), l) \in Byte
    BY <1>1, <2>3, SameRemainder DEF l
  <2> QED
    BY <1>2, <1>4, <2>2, <2>3, <2>4 DEF c, s, h, l
<1> QED
  BY <1>3, <1>4

\* The bits of an answer, in the order they are sent.
LEMMA StreamBits ==
  ASSUME NEW cmd \in Commands, NEW word \in Data(cmd), NEW reg \in Byte
  PROVE  LET w == Width(cmd)
             s == Stream(cmd, word, reg)
         IN /\ Len(s) = w + 8
            /\ \A i \in 1 .. w + 8 : s[i] \in {0, 1}
            /\ \A i \in 0 .. w - 1 : s[w - i] = BitOf(word, i)
            /\ \A i \in 0 .. 7 : s[w + 8 - i] = BitOf(Checksum(cmd, word, reg), 7 - i)
<1> DEFINE w == Width(cmd)
           c == Checksum(cmd, word, reg)
           s == Stream(cmd, word, reg)
<1>1. w \in {8, 16}
  BY CommandIsByte
<1>2. s = [i \in 1 .. w + 8 |-> IF i <= w THEN BitOf(word, w - i) ELSE BitOf(c, i - w - 1)]
  BY Zenon DEF Stream
<1>3. \A i \in 0 .. 15 : BitOf(word, i) \in {0, 1}
  BY DataIsWord, BitIsBit
<1>4. \A i \in 0 .. 7 : BitOf(c, i) \in {0, 1}
  <2>1. c \in Word
    BY ChecksumSum, ByteIsWord
  <2> QED
    BY <2>1, BitIsBit
<1> HIDE DEF w, c, s
<1>5. Len(s) = w + 8
  BY <1>1, <1>2
<1>6. \A i \in 1 .. w + 8 : s[i] \in {0, 1}
  <2> SUFFICES ASSUME NEW i \in 1 .. w + 8 PROVE s[i] \in {0, 1}
    OBVIOUS
  <2>1. CASE i <= w
    <3>1. s[i] = BitOf(word, w - i) /\ w - i \in 0 .. 15
      BY <1>1, <1>2, <2>1
    <3> QED
      BY <1>3, <3>1
  <2>2. CASE ~(i <= w)
    <3>1. s[i] = BitOf(c, i - w - 1) /\ i - w - 1 \in 0 .. 7
      BY <1>1, <1>2, <2>2
    <3> QED
      BY <1>4, <3>1
  <2> QED
    BY <2>1, <2>2
<1>7. \A i \in 0 .. w - 1 : s[w - i] = BitOf(word, i)
  <2> SUFFICES ASSUME NEW i \in 0 .. w - 1 PROVE s[w - i] = BitOf(word, i)
    OBVIOUS
  <2>1. w - i \in 1 .. w + 8 /\ w - i <= w /\ w - (w - i) = i
    BY <1>1
  <2> QED
    BY <1>2, <2>1
<1>8. \A i \in 0 .. 7 : s[w + 8 - i] = BitOf(c, 7 - i)
  <2> SUFFICES ASSUME NEW i \in 0 .. 7 PROVE s[w + 8 - i] = BitOf(c, 7 - i)
    OBVIOUS
  <2>1. w + 8 - i \in 1 .. w + 8 /\ ~(w + 8 - i <= w) /\ (w + 8 - i) - w - 1 = 7 - i
    BY <1>1
  <2> QED
    BY <1>2, <2>1
<1> QED
  BY <1>5, <1>6, <1>7, <1>8 DEF w, c, s

-----------------------------------------------------------------------------
(* The invariant *)

\* What the driver samples at a position: the bit sent, unless it is damaged.
Sampled(i) == Either(stream[i] = 1, i \in flips)

\* The bits of data received so far.
Bits == IF n <= DataBits THEN n ELSE DataBits

Types ==
  /\ command \in Commands
  /\ register \in Byte
  /\ status \in Byte
  /\ n \in 0 .. DataBits + 8
  /\ data \in Word
  /\ crc \in Byte

\* The stream is the answer to the command.
Sent == \E word \in Data(command) : stream = Stream(command, word, register)

\* Only received bits are damaged, few enough, and none if the seed is stale.
Damaged ==
  /\ flips \in SUBSET (1 .. n)
  /\ Cardinality(flips) <= MaxFlips
  /\ flips # {} => status = register

\* The data received is at the bottom of device.data, the last bit lowest, with nothing
\* above it.
DataReceived == \A i \in 0 .. 15 : Bit(data, i) <=> i < Bits /\ Sampled(Bits - i)

\* And the checksum's bits at the bottom of device.crc.
CrcReceived == \A i \in 0 .. 7 : DataBits + i < n => (Bit(crc, i) <=> Sampled(n - i))

IInv == Types /\ Sent /\ Damaged /\ DataReceived /\ CrcReceived

\* It holds before the first bit is sampled.
LEMMA InitInv == Init => IInv
<1> SUFFICES ASSUME Init PROVE IInv
  OBVIOUS
<1>1. command \in Commands /\ register \in Byte /\ status \in Byte
  BY RegistersAssumption DEF Init, Byte
<1>2. n = 0 /\ data = 0 /\ crc = 0 /\ flips = {}
  BY DEF Init
<1>3. DataBits \in {8, 16} /\ Bits = 0
  BY <1>1, <1>2, CommandIsByte DEF DataBits, Bits
<1>4. Types
  BY <1>1, <1>2, <1>3 DEF Types, Byte, Word
<1>5. Sent
  <2>1. PICK reading \in Readings :
          stream = Stream(command, IF command = 7 THEN register ELSE reading, register)
    BY DEF Init
  <2>2. reading \in Word
    <3>1. reading \in 0 .. 2^16 - 1
      BY ReadingsAssumption
    <3> QED
      BY <3>1 DEF Word
  <2>3. (IF command = 7 THEN register ELSE reading) \in Data(command)
    BY <1>1, <2>2 DEF Data
  <2> QED
    BY <2>1, <2>3 DEF Sent
<1>6. Damaged
  <2>1. Cardinality({}) = 0
    BY FS_EmptySet
  <2> QED
    BY <1>2, <2>1, FlipsAssumption DEF Damaged
<1>7. DataReceived
  <2>1. High(0) = 0 /\ Low(0) = 0 /\ 0 \in Word
    BY DEF High, Low, Word
  <2>2. \A i \in 0 .. 15 : i \in {0, 1, 2, 3, 4, 5, 6, 7, 8, 9, 10, 11, 12, 13, 14, 15}
    OBVIOUS
  <2>3. \A i \in 0 .. 15 : ~ Bit(0, i)
    BY <2>1, <2>2, Halves, ZeroBits DEF HasBits, Bit
  <2> QED
    BY <1>2, <1>3, <2>3 DEF DataReceived
<1>8. CrcReceived
  BY <1>2, <1>3 DEF CrcReceived
<1> QED
  BY <1>4, <1>5, <1>6, <1>7, <1>8 DEF IInv

\* Sampling a bit keeps it: device.data or device.crc moves up and takes the bit, damaged or
\* not, at the bottom.
LEMMA ReceiveInv == IInv /\ Receive => IInv'
<1> SUFFICES ASSUME IInv, Receive PROVE IInv'
  OBVIOUS
<1>1. Types /\ Sent /\ Damaged /\ DataReceived /\ CrcReceived
  BY DEF IInv
<1> DEFINE w == DataBits
<1>2. /\ w \in {8, 16} /\ Len(stream) = w + 8
      /\ \A i \in 1 .. w + 8 : stream[i] \in {0, 1}
  <2>1. PICK word \in Data(command) : stream = Stream(command, word, register)
    BY <1>1 DEF Sent
  <2> QED
    BY <1>1, <2>1, CommandIsByte, StreamBits DEF Types, DataBits
<1>3. PICK flip \in 0 .. 1 :
        /\ flip = 1 => Cardinality(flips) < MaxFlips /\ status = register
        /\ flips' = IF flip = 1 THEN flips \cup {n + 1} ELSE flips
        /\ IF n < DataBits
           THEN data' = ShiftIn(data, 16, (stream[n + 1] + flip) % 2) /\ UNCHANGED crc
           ELSE crc' = ShiftIn(crc, 8, (stream[n + 1] + flip) % 2) /\ UNCHANGED data
  BY Zenon DEF Receive
<1> DEFINE bit == (stream[n + 1] + flip) % 2
<1>4. /\ n' = n + 1 /\ n < Len(stream)
      /\ command' = command /\ register' = register /\ stream' = stream /\ status' = status
  BY DEF Receive
<1>5. n \in Nat /\ n + 1 \in 1 .. w + 8
  BY <1>1, <1>2, <1>4 DEF Types
<1>6. bit \in {0, 1} /\ (bit = 1 <=> Either(stream[n + 1] = 1, flip = 1))
  BY <1>2, <1>5 DEF Either
<1>7. n + 1 \notin flips /\ flips \in SUBSET (1 .. n)
  BY <1>1, <1>5 DEF Damaged
<1>8. /\ flips' \in SUBSET (1 .. (n + 1))
      /\ n + 1 \in flips' <=> flip = 1
      /\ \A i \in 1 .. n : i \in flips' <=> i \in flips
  BY <1>3, <1>5, <1>7
<1> DEFINE After(i) == Either(stream'[i] = 1, i \in flips')
<1>9. bit = 1 <=> After(n + 1)
  BY <1>4, <1>6, <1>8 DEF Either
<1>10. \A i \in 1 .. n : After(i) <=> Sampled(i)
  BY <1>4, <1>8 DEF Sampled, Either
<1>11. w' = w
  BY <1>4 DEF DataBits
<1>12. /\ n < w => data' = ShiftIn(data, 16, bit) /\ crc' = crc
       /\ ~(n < w) => crc' = ShiftIn(crc, 8, bit) /\ data' = data
  BY <1>3
<1> HIDE DEF w, bit, After
<1>13. Types'
  <2>1. data' \in Word /\ crc' \in Byte
    BY <1>1, <1>6, <1>12, ShiftedWord, ShiftedBits DEF Types, HasBits
  <2>2. n' \in 0 .. DataBits' + 8
    BY <1>2, <1>4, <1>5, <1>11 DEF w
  <2> QED
    BY <1>1, <1>4, <2>1, <2>2 DEF Types
<1>14. Sent'
  BY <1>1, <1>4 DEF Sent
<1>15. Damaged'
  <2>1. IsFiniteSet(flips)
    <3>1. IsFiniteSet(1 .. n)
      BY <1>5, FS_Interval
    <3> QED
      BY <1>7, <3>1, FS_Subset
  <2>2. Cardinality(flips) \in Nat
    BY <2>1, FS_CardinalityType
  <2>3. CASE flip = 1
    <3>1. Cardinality(flips') = Cardinality(flips) + 1
      BY <1>3, <1>7, <2>1, <2>3, FS_AddElement
    <3> QED
      BY <1>3, <1>4, <1>8, <2>2, <2>3, <3>1, FlipsAssumption DEF Damaged
  <2>4. CASE flip # 1
    <3>1. flips' = flips
      BY <1>3, <2>4
    <3> QED
      BY <1>1, <1>4, <1>8, <3>1 DEF Damaged
  <2> QED
    BY <2>3, <2>4
<1>16. DataReceived'
  <2> SUFFICES ASSUME NEW i \in 0 .. 15
               PROVE  Bit(data', i) <=> i < Bits' /\ After(Bits' - i)
    BY DEF DataReceived, Sampled, After
  <2>1. Bit(data, i) <=> i < Bits /\ Sampled(Bits - i)
    BY <1>1 DEF DataReceived
  <2>2. CASE n < w
    <3>1. Bits = n /\ Bits' = n + 1
      BY <1>2, <1>4, <1>5, <1>11, <2>2 DEF Bits, w
    <3>2. CASE i = 0
      <4>1. Bit(data', i) <=> bit = 1
        BY <1>1, <1>6, <1>12, <2>2, <3>2, ShiftedWord DEF Types
      <4>2. i < Bits' /\ Bits' - i = n + 1
        BY <1>5, <3>1, <3>2
      <4> QED
        BY <1>9, <4>1, <4>2
    <3>3. CASE i # 0
      <4> DEFINE j == i - 1
      <4>1. j \in 0 .. 14 /\ j + 1 = i
        BY <3>3
      <4> HIDE DEF j
      <4>2. Bit(data', j + 1) <=> Bit(data, j)
        BY <1>1, <1>6, <1>12, <2>2, <4>1, ShiftedWord DEF Types
      <4>3. Bit(data, j) <=> j < n /\ Sampled(n - j)
        BY <1>1, <3>1, <4>1 DEF DataReceived
      <4>4. ASSUME j < n PROVE After(n - j) <=> Sampled(n - j)
        BY <1>5, <1>10, <4>1, <4>4
      <4>5. Bits' - i = n - j /\ (i < Bits' <=> j < n)
        BY <1>5, <3>1, <4>1
      <4> QED
        BY <4>1, <4>2, <4>3, <4>4, <4>5
    <3> QED
      BY <3>2, <3>3
  <2>3. CASE ~(n < w)
    <3>1. Bits = w /\ Bits' = w /\ data' = data
      BY <1>2, <1>4, <1>5, <1>11, <1>12, <2>3 DEF Bits, w
    <3>2. ASSUME i < w PROVE After(w - i) <=> Sampled(w - i)
      BY <1>2, <1>5, <1>10, <2>3, <3>2
    <3> QED
      BY <2>1, <3>1, <3>2
  <2> QED
    BY <2>2, <2>3
<1>17. CrcReceived'
  <2> SUFFICES ASSUME NEW i \in 0 .. 7, DataBits' + i < n'
               PROVE  Bit(crc', i) <=> After(n' - i)
    BY DEF CrcReceived, Sampled, After
  <2>0. w + i < n + 1 /\ n' - i = n + 1 - i
    <3>1. DataBits' = w
      BY <1>11 DEF w
    <3> QED
      BY <1>2, <1>4, <1>5, <3>1
  <2>1. ~(n < w) /\ crc' = ShiftIn(crc, 8, bit)
    BY <1>2, <1>5, <1>12, <2>0
  <2>2. HasBits(crc', bit = 1, Bit(crc, 0), Bit(crc, 1), Bit(crc, 2), Bit(crc, 3),
                Bit(crc, 4), Bit(crc, 5), Bit(crc, 6))
    BY <1>1, <1>6, <2>1, ShiftedBits DEF Types
  <2>3. CASE i = 0
    BY <1>4, <1>5, <1>9, <2>2, <2>3 DEF HasBits
  <2>4. CASE i # 0
    <3> DEFINE j == i - 1
    <3>1. j \in 0 .. 6 /\ j + 1 = i /\ j \in {0, 1, 2, 3, 4, 5, 6} /\ j \in 0 .. 7
      BY <2>4
    <3> HIDE DEF j
    <3>2. Bit(crc', j + 1) <=> Bit(crc, j)
      BY <2>2, <3>1 DEF HasBits
    <3>3. w + j < n /\ n + 1 - i = n - j /\ n - j \in 1 .. n
      BY <1>2, <1>5, <2>0, <3>1
    <3>4. Bit(crc, j) <=> Sampled(n - j)
      BY <1>1, <3>1, <3>3 DEF CrcReceived, w
    <3> QED
      BY <1>10, <2>0, <3>1, <3>2, <3>3, <3>4
  <2> QED
    BY <2>3, <2>4
<1> QED
  BY <1>13, <1>14, <1>15, <1>16, <1>17 DEF IInv

\* It is about the variables only.
LEMMA StutterInv == IInv /\ UNCHANGED vars => IInv'
BY DEF IInv, vars, Types, Sent, Damaged, DataReceived, CrcReceived, Sampled, Bits, DataBits

\* In every state of a transfer the received bits are where the driver expects them, and
\* differ from the stream exactly at the damaged positions.
THEOREM Invariance == Spec => []IInv
<1>1. IInv /\ [Next]_vars => IInv'
  BY ReceiveInv, StutterInv DEF Next
<1> QED
  BY InitInv, <1>1, PTL DEF Spec

-----------------------------------------------------------------------------
(* The table, and the data *)

\* Whatever the state, the table's entries are remainders: the sensor's division and the
\* driver's look-up agree.
THEOREM Table == Spec => []TableIsPolynomial
<1>1. TableIsPolynomial
  <2> SUFFICES ASSUME NEW b \in Byte PROVE crc8_lut[b + 1] = AddBits(0, b)
    BY DEF TableIsPolynomial
  <2>1. AddByte(0, b) = AddBits(0, b)
    BY XorNothing, SameRemainder
  <2> QED
    BY <2>1, XorNothing DEF AddByte
<1> QED
  BY <1>1, PTL

\* What has arrived when the last bit has been sampled.
LEMMA Arrived ==
  ASSUME IInv, n = Len(stream), NEW word \in Data(command),
         stream = Stream(command, word, register)
  PROVE  LET r == Checksum(command, word, register)
         IN /\ n = DataBits + 8
            /\ \A i \in 0 .. 15 :
                 Bit(data, i) <=> i < DataBits /\ Either(Bit(word, i), DataBits - i \in flips)
            /\ \A i \in 0 .. 7 :
                 Bit(crc, i) <=> Either(Bit(r, 7 - i), DataBits + 8 - i \in flips)
<1> DEFINE w == DataBits
           r == Checksum(command, word, register)
<1>1. Types /\ DataReceived /\ CrcReceived
  BY DEF IInv
<1>2. /\ w \in {8, 16} /\ n = w + 8
      /\ \A i \in 0 .. w - 1 : stream[w - i] = BitOf(word, i)
      /\ \A i \in 0 .. 7 : stream[w + 8 - i] = BitOf(r, 7 - i)
  BY <1>1, CommandIsByte, StreamBits DEF Types, DataBits
<1>3. Bits = w
  BY <1>2 DEF Bits
<1>4. \A i \in 0 .. 15 : Bit(data, i) <=> i < w /\ Sampled(w - i)
  BY <1>1, <1>3 DEF DataReceived
<1>5. \A i \in 0 .. 7 : w + i < n => (Bit(crc, i) <=> Sampled(n - i))
  BY <1>1 DEF CrcReceived
<1> HIDE DEF w, r
<1>6. ASSUME NEW i \in 0 .. 15
      PROVE  Bit(data, i) <=> i < w /\ Either(Bit(word, i), w - i \in flips)
  <2>1. CASE i < w
    <3>1. i \in 0 .. w - 1
      BY <1>2, <2>1
    <3>2. stream[w - i] = BitOf(word, i)
      BY <1>2, <3>1, Zenon
    <3> QED
      BY <1>4, <2>1, <3>2 DEF Sampled, Either, Bit
  <2>2. CASE ~(i < w)
    BY <1>4, <2>2
  <2> QED
    BY <2>1, <2>2
<1>7. ASSUME NEW i \in 0 .. 7
      PROVE  Bit(crc, i) <=> Either(Bit(r, 7 - i), w + 8 - i \in flips)
  <2>0. w + i < n /\ n - i = w + 8 - i
    BY <1>2
  <2>1. stream[w + 8 - i] = BitOf(r, 7 - i)
    BY <1>2, Zenon
  <2>2. Bit(crc, i) <=> Sampled(w + 8 - i)
    BY <1>5, <2>0
  <2> QED
    BY <2>1, <2>2 DEF Sampled, Either, Bit
<1> QED
  BY <1>2, <1>6, <1>7 DEF w, r

\* A status answer leaves the upper byte of device.data empty.
LEMMA UpperEmpty ==
  ASSUME NEW v \in Word, \A i \in 8 .. 15 : ~ Bit(v, i)
  PROVE  High(v) = 0 /\ v = Low(v)
<1>1. HasBits(High(v), FALSE, FALSE, FALSE, FALSE, FALSE, FALSE, FALSE, FALSE)
  BY Halves DEF HasBits, Bit
<1>2. High(v) = 0
  BY <1>1, ZeroBits, SameBits DEF HasBits
<1> QED
  BY <1>2, Halves DEF Byte

\* An undamaged answer arrives as the number the sensor sent.
THEOREM Arrival == Spec => []DataArrives
<1>1. ASSUME IInv PROVE DataArrives
  <2> SUFFICES ASSUME n = Len(stream), flips = {}
               PROVE  /\ data < 2^DataBits
                      /\ \A i \in 1 .. DataBits : BitOf(data, DataBits - i) = stream[i]
    BY DEF DataArrives
  <2>1. PICK word \in Data(command) : stream = Stream(command, word, register)
    BY <1>1 DEF IInv, Sent
  <2> DEFINE w == DataBits
  <2>2. Types
    BY <1>1 DEF IInv
  <2>3. \A i \in 0 .. 15 : Bit(data, i) <=> i < w /\ Bit(word, i)
    BY <1>1, <2>1, Arrived DEF Either
  <2>4. w \in {8, 16}
    BY <2>2, CommandIsByte DEF Types, DataBits
  <2>5. \A i \in 0 .. w - 1 : stream[w - i] = BitOf(word, i)
    BY <2>1, <2>2, StreamBits DEF Types, DataBits
  <2> HIDE DEF w
  <2>6. data < 2^w
    <3>1. CASE w = 16
      BY <2>2, <3>1 DEF Types, Word
    <3>2. CASE w = 8
      <4>1. data = Low(data) /\ Low(data) \in Byte
        BY <2>2, <2>3, <3>2, UpperEmpty, Halves DEF Types
      <4>2. data \in Byte
        BY <4>1, Zenon
      <4> QED
        BY <3>2, <4>2 DEF Byte
    <3> QED
      BY <2>4, <3>1, <3>2
  <2>7. ASSUME NEW i \in 1 .. w PROVE BitOf(data, w - i) = stream[i]
    <3> DEFINE j == w - i
    <3>1. j \in 0 .. 15 /\ j < w /\ j \in 0 .. w - 1 /\ w - j = i
      BY <2>4
    <3> HIDE DEF j
    <3>2. BitOf(data, j) \in {0, 1} /\ BitOf(word, j) \in {0, 1}
      BY <2>2, <3>1, BitIsBit, DataIsWord DEF Types
    <3>3. BitOf(data, j) = BitOf(word, j)
      BY <2>3, <3>1, <3>2 DEF Bit
    <3> QED
      BY <2>5, <3>1, <3>3 DEF j
  <2> QED
    BY <2>6, <2>7 DEF w
<1> QED
  BY <1>1, Invariance, PTL

-----------------------------------------------------------------------------
(* The verdict *)

\* Only 0 has no bit set.
LEMMA OnesZero ==
  ASSUME NEW v \in Byte
  PROVE  Ones(v) = 0 <=> v = 0
<1>1. /\ BitOf(v, 0) \in {0, 1} /\ BitOf(v, 1) \in {0, 1} /\ BitOf(v, 2) \in {0, 1}
      /\ BitOf(v, 3) \in {0, 1} /\ BitOf(v, 4) \in {0, 1} /\ BitOf(v, 5) \in {0, 1}
      /\ BitOf(v, 6) \in {0, 1} /\ BitOf(v, 7) \in {0, 1}
  BY BitsAreBits DEF Byte
<1>2. v = BitOf(v, 0) + 2 * BitOf(v, 1) + 4 * BitOf(v, 2) + 8 * BitOf(v, 3)
            + 16 * BitOf(v, 4) + 32 * BitOf(v, 5) + 64 * BitOf(v, 6) + 128 * BitOf(v, 7)
  BY ByteOfBits
<1> QED
  BY <1>1, <1>2 DEF Ones

\* Damage to at most three of the bits leaves a checksum that fits only if there is none.
LEMMA SmallDamage ==
  ASSUME NEW h \in Byte, NEW l \in Byte, NEW c \in Byte, Ones(h) + Ones(l) + Ones(c) <= 3
  PROVE  Carried(Xor(Carried(h), l)) = c <=> Ones(h) + Ones(l) + Ones(c) = 0
<1>1. Ones(h) \in Nat /\ Ones(l) \in Nat /\ Ones(c) \in Nat
  BY OnesParity
<1>2. ASSUME Carried(Xor(Carried(h), l)) = c PROVE Ones(h) + Ones(l) + Ones(c) = 0
  <2>1. (Ones(h) + Ones(l) + Ones(c)) % 2 = 0
    BY <1>2, EvenDamage
  <2>2. Ones(h) + Ones(l) + Ones(c) # 2
    BY <1>2, FourBitsApart
  <2> DEFINE total == Ones(h) + Ones(l) + Ones(c)
  <2>3. total \in Nat /\ total <= 3
    BY <1>1
  <2>4. total % 2 = 0 /\ total # 2
    BY <2>1, <2>2
  <2> HIDE DEF total
  <2>5. total = 0
    BY <2>3, <2>4
  <2> QED
    BY <2>5 DEF total
<1>3. ASSUME Ones(h) + Ones(l) + Ones(c) = 0 PROVE Carried(Xor(Carried(h), l)) = c
  <2>1. h = 0 /\ l = 0 /\ c = 0
    BY <1>1, <1>3, OnesZero
  <2> QED
    BY <2>1, CarriedZero, XorNothing
<1> QED
  BY <1>2, <1>3

\* A byte received with some of its bits changed differs from the one sent in these bits.
LEMMA DownDamage ==
  ASSUME NEW p \in Byte, NEW q, NEW S, NEW k \in Nat,
         HasBits(q,
           Either(Bit(p, 0), k + 8 \in S), Either(Bit(p, 1), k + 7 \in S),
           Either(Bit(p, 2), k + 6 \in S), Either(Bit(p, 3), k + 5 \in S),
           Either(Bit(p, 4), k + 4 \in S), Either(Bit(p, 5), k + 3 \in S),
           Either(Bit(p, 6), k + 2 \in S), Either(Bit(p, 7), k + 1 \in S))
  PROVE  Down(Xor(p, q), S, k)
<1> DEFINE x == Xor(p, q)
<1>1. q \in Byte
  BY DEF HasBits
<1>2. HasBits(x,
        Either(Bit(p, 0), Bit(q, 0)), Either(Bit(p, 1), Bit(q, 1)),
        Either(Bit(p, 2), Bit(q, 2)), Either(Bit(p, 3), Bit(q, 3)),
        Either(Bit(p, 4), Bit(q, 4)), Either(Bit(p, 5), Bit(q, 5)),
        Either(Bit(p, 6), Bit(q, 6)), Either(Bit(p, 7), Bit(q, 7)))
  BY <1>1, XorBits
<1> HIDE DEF x
<1>3. Down(x, S, k)
  BY <1>2 DEF Down, HasBits, Either
<1> QED
  BY <1>3 DEF x

\* The same of a byte whose lowest bit comes first.
LEMMA UpDamage ==
  ASSUME NEW p \in Byte, NEW q, NEW S, NEW k \in Nat,
         HasBits(q,
           Either(Bit(p, 0), k + 1 \in S), Either(Bit(p, 1), k + 2 \in S),
           Either(Bit(p, 2), k + 3 \in S), Either(Bit(p, 3), k + 4 \in S),
           Either(Bit(p, 4), k + 5 \in S), Either(Bit(p, 5), k + 6 \in S),
           Either(Bit(p, 6), k + 7 \in S), Either(Bit(p, 7), k + 8 \in S))
  PROVE  Up(Xor(p, q), S, k)
<1> DEFINE x == Xor(p, q)
<1>1. q \in Byte
  BY DEF HasBits
<1>2. HasBits(x,
        Either(Bit(p, 0), Bit(q, 0)), Either(Bit(p, 1), Bit(q, 1)),
        Either(Bit(p, 2), Bit(q, 2)), Either(Bit(p, 3), Bit(q, 3)),
        Either(Bit(p, 4), Bit(q, 4)), Either(Bit(p, 5), Bit(q, 5)),
        Either(Bit(p, 6), Bit(q, 6)), Either(Bit(p, 7), Bit(q, 7)))
  BY <1>1, XorBits
<1> HIDE DEF x
<1>3. Up(x, S, k)
  BY <1>2 DEF Up, HasBits, Either
<1> QED
  BY <1>3 DEF x

\* A word received with some of its bits changed.
LEMMA WordDamage ==
  ASSUME NEW a \in Word, NEW v \in Word, NEW S,
         \A i \in 0 .. 15 : Bit(v, i) <=> Either(Bit(a, i), 16 - i \in S)
  PROVE  Down(Xor(High(a), High(v)), S, 0) /\ Down(Xor(Low(a), Low(v)), S, 8)
<1> DEFINE h == High(a)
           l == Low(a)
<1>1. \A i \in 0 .. 15 : Bit(v, i) <=> ~ (Bit(a, i) <=> 16 - i \in S)
  BY DEF Either
<1>2. HasBits(High(v),
        Either(Bit(h, 0), 0 + 8 \in S), Either(Bit(h, 1), 0 + 7 \in S),
        Either(Bit(h, 2), 0 + 6 \in S), Either(Bit(h, 3), 0 + 5 \in S),
        Either(Bit(h, 4), 0 + 4 \in S), Either(Bit(h, 5), 0 + 3 \in S),
        Either(Bit(h, 6), 0 + 2 \in S), Either(Bit(h, 7), 0 + 1 \in S))
  <2>1. /\ Bit(v, 8) <=> ~ (Bit(a, 8) <=> 0 + 8 \in S)
        /\ Bit(v, 9) <=> ~ (Bit(a, 9) <=> 0 + 7 \in S)
        /\ Bit(v, 10) <=> ~ (Bit(a, 10) <=> 0 + 6 \in S)
        /\ Bit(v, 11) <=> ~ (Bit(a, 11) <=> 0 + 5 \in S)
        /\ Bit(v, 12) <=> ~ (Bit(a, 12) <=> 0 + 4 \in S)
        /\ Bit(v, 13) <=> ~ (Bit(a, 13) <=> 0 + 3 \in S)
        /\ Bit(v, 14) <=> ~ (Bit(a, 14) <=> 0 + 2 \in S)
        /\ Bit(v, 15) <=> ~ (Bit(a, 15) <=> 0 + 1 \in S)
    BY <1>1
  <2> QED
    BY <2>1, Halves DEF HasBits, Either, Bit
<1>3. HasBits(Low(v),
        Either(Bit(l, 0), 8 + 8 \in S), Either(Bit(l, 1), 8 + 7 \in S),
        Either(Bit(l, 2), 8 + 6 \in S), Either(Bit(l, 3), 8 + 5 \in S),
        Either(Bit(l, 4), 8 + 4 \in S), Either(Bit(l, 5), 8 + 3 \in S),
        Either(Bit(l, 6), 8 + 2 \in S), Either(Bit(l, 7), 8 + 1 \in S))
  <2>1. /\ Bit(v, 0) <=> ~ (Bit(a, 0) <=> 8 + 8 \in S)
        /\ Bit(v, 1) <=> ~ (Bit(a, 1) <=> 8 + 7 \in S)
        /\ Bit(v, 2) <=> ~ (Bit(a, 2) <=> 8 + 6 \in S)
        /\ Bit(v, 3) <=> ~ (Bit(a, 3) <=> 8 + 5 \in S)
        /\ Bit(v, 4) <=> ~ (Bit(a, 4) <=> 8 + 4 \in S)
        /\ Bit(v, 5) <=> ~ (Bit(a, 5) <=> 8 + 3 \in S)
        /\ Bit(v, 6) <=> ~ (Bit(a, 6) <=> 8 + 2 \in S)
        /\ Bit(v, 7) <=> ~ (Bit(a, 7) <=> 8 + 1 \in S)
    BY <1>1
  <2> QED
    BY <2>1, Halves DEF HasBits, Either, Bit
<1>4. h \in Byte /\ l \in Byte
  BY Halves
<1> HIDE DEF h, l
<1>5. Down(Xor(h, High(v)), S, 0)
  BY <1>2, <1>4, DownDamage
<1>6. Down(Xor(l, Low(v)), S, 8)
  BY <1>3, <1>4, DownDamage
<1> QED
  BY <1>5, <1>6 DEF h, l

\* A byte of the register received with some of its bits changed.
LEMMA ByteDamage ==
  ASSUME NEW a \in Word, NEW v \in Word, NEW S,
         \A i \in 0 .. 7 : Bit(v, i) <=> Either(Bit(a, i), 8 - i \in S)
  PROVE  Down(Xor(Low(a), Low(v)), S, 0)
<1> DEFINE l == Low(a)
<1>1. \A i \in 0 .. 7 : Bit(v, i) <=> ~ (Bit(a, i) <=> 8 - i \in S)
  BY DEF Either
<1>2. HasBits(Low(v),
        Either(Bit(l, 0), 0 + 8 \in S), Either(Bit(l, 1), 0 + 7 \in S),
        Either(Bit(l, 2), 0 + 6 \in S), Either(Bit(l, 3), 0 + 5 \in S),
        Either(Bit(l, 4), 0 + 4 \in S), Either(Bit(l, 5), 0 + 3 \in S),
        Either(Bit(l, 6), 0 + 2 \in S), Either(Bit(l, 7), 0 + 1 \in S))
  <2>1. /\ Bit(v, 0) <=> ~ (Bit(a, 0) <=> 0 + 8 \in S)
        /\ Bit(v, 1) <=> ~ (Bit(a, 1) <=> 0 + 7 \in S)
        /\ Bit(v, 2) <=> ~ (Bit(a, 2) <=> 0 + 6 \in S)
        /\ Bit(v, 3) <=> ~ (Bit(a, 3) <=> 0 + 5 \in S)
        /\ Bit(v, 4) <=> ~ (Bit(a, 4) <=> 0 + 4 \in S)
        /\ Bit(v, 5) <=> ~ (Bit(a, 5) <=> 0 + 3 \in S)
        /\ Bit(v, 6) <=> ~ (Bit(a, 6) <=> 0 + 2 \in S)
        /\ Bit(v, 7) <=> ~ (Bit(a, 7) <=> 0 + 1 \in S)
    BY <1>1
  <2> QED
    BY <2>1, Halves DEF HasBits, Either, Bit
<1>3. l \in Byte
  BY Halves
<1> HIDE DEF l
<1>4. Down(Xor(l, Low(v)), S, 0)
  BY <1>2, <1>3, DownDamage
<1> QED
  BY <1>4 DEF l

\* The checksum's byte, reversed, is the one computed but for the damage.
LEMMA LastDamage ==
  ASSUME NEW r \in Byte, NEW v \in Byte, NEW S, NEW w \in Nat,
         \A i \in 0 .. 7 : Bit(v, i) <=> Either(Bit(r, 7 - i), w + 8 - i \in S)
  PROVE  /\ sht1x_reverse_bits(v) \in Byte
         /\ Up(Xor(r, sht1x_reverse_bits(v)), S, w)
<1> DEFINE t == sht1x_reverse_bits(v)
<1>1. HasBits(t, Bit(v, 7), Bit(v, 6), Bit(v, 5), Bit(v, 4), Bit(v, 3), Bit(v, 2), Bit(v, 1),
              Bit(v, 0))
  BY ReverseIsSeed, SeedBits
<1> HIDE DEF t
<1>2. \A i \in 0 .. 7 : Bit(v, i) <=> ~ (Bit(r, 7 - i) <=> w + 8 - i \in S)
  BY DEF Either
<1>3. /\ Bit(v, 0) <=> ~ (Bit(r, 7) <=> w + 8 \in S)
      /\ Bit(v, 1) <=> ~ (Bit(r, 6) <=> w + 7 \in S)
      /\ Bit(v, 2) <=> ~ (Bit(r, 5) <=> w + 6 \in S)
      /\ Bit(v, 3) <=> ~ (Bit(r, 4) <=> w + 5 \in S)
      /\ Bit(v, 4) <=> ~ (Bit(r, 3) <=> w + 4 \in S)
      /\ Bit(v, 5) <=> ~ (Bit(r, 2) <=> w + 3 \in S)
      /\ Bit(v, 6) <=> ~ (Bit(r, 1) <=> w + 2 \in S)
      /\ Bit(v, 7) <=> ~ (Bit(r, 0) <=> w + 1 \in S)
  BY <1>2
<1>4. Up(Xor(r, t), S, w)
  <2>1. HasBits(t,
          Either(Bit(r, 0), w + 1 \in S), Either(Bit(r, 1), w + 2 \in S),
          Either(Bit(r, 2), w + 3 \in S), Either(Bit(r, 3), w + 4 \in S),
          Either(Bit(r, 4), w + 5 \in S), Either(Bit(r, 5), w + 6 \in S),
          Either(Bit(r, 6), w + 7 \in S), Either(Bit(r, 7), w + 8 \in S))
    BY <1>1, <1>3 DEF HasBits, Either
  <2> QED
    BY <2>1, UpDamage
<1> QED
  BY <1>1, <1>4 DEF t, HasBits

\* The damage of an answer, byte by byte: as many bits as were damaged, and the answer is
\* accepted exactly if the checksum of the damage of the data is that of the checksum's.
Damages(h, l, c) ==
  /\ h \in Byte /\ l \in Byte /\ c \in Byte
  /\ Ones(h) + Ones(l) + Ones(c) = Cardinality(flips)
  /\ status = register => (Accepted <=> Carried(Xor(Carried(h), l)) = c)
  /\ status # register => ~ Accepted

\* A status answer has such damage, with none in an upper byte.
LEMMA StatusDamages ==
  ASSUME IInv, n = Len(stream), command = 7
  PROVE  \E l, c \in Byte : Damages(0, l, c)
<1>1. Types /\ Damaged
  BY DEF IInv
<1>2. PICK word \in Data(command) : stream = Stream(command, word, register)
  BY DEF IInv, Sent
<1> DEFINE r == Checksum(command, word, register)
           last == sht1x_reverse_bits(crc)
           s == AddByte(Seed(register), command)
           t == AddByte(Seed(status), command)
           l == Low(word)
           m == Low(data)
           el == Xor(l, m)
           ec == Xor(r, last)
<1>3. /\ word \in Word /\ data \in Word /\ crc \in Byte /\ register \in Byte
      /\ status \in Byte /\ command \in Byte /\ DataBits = 8
  BY <1>1, DataIsWord, CommandIsByte DEF Types, DataBits
<1>4. /\ Seed(register) \in Byte /\ Seed(status) \in Byte /\ l \in Byte /\ m \in Byte
      /\ Seed(register) = Seed(status) <=> register = status
  BY <1>3, SeedInjective, Halves
<1>5. s \in Byte /\ t \in Byte /\ (s = t <=> register = status)
  <2>1. s \in Byte /\ t \in Byte
    BY <1>3, <1>4, SameRemainder
  <2>2. ASSUME register # status PROVE s # t
    BY <1>3, <1>4, <2>2, AddByteInjective
  <2> QED
    BY <2>1, <2>2
<1>6. r \in Byte /\ r = AddByte(s, l)
  BY <1>1, ChecksumSum DEF Types
<1>7. /\ n = 16
      /\ \A i \in 0 .. 15 : Bit(data, i) <=> i < 8 /\ Either(Bit(word, i), 8 - i \in flips)
      /\ \A i \in 0 .. 7 : Bit(crc, i) <=> Either(Bit(r, 7 - i), 8 + 8 - i \in flips)
  BY <1>2, <1>3, Arrived
<1>8. last \in Byte /\ Up(ec, flips, 8)
  BY <1>3, <1>6, <1>7, LastDamage
<1>9. Down(el, flips, 0)
  BY <1>3, <1>7, ByteDamage
<1>10. Accepted <=> AddByte(t, m) = last
  <2>1. Accepted <=> sht1x_crc(<<command, m, last>>, sht1x_reverse_bits(status)) = 0
    BY DEF Accepted
  <2>2. sht1x_crc(<<command, m, last>>, sht1x_reverse_bits(status))
          = AddByte(AddByte(t, m), last)
    BY <1>3, CrcOfThree, ReverseIsSeed
  <2>3. AddByte(t, m) \in Byte
    BY <1>4, <1>5, SameRemainder
  <2> HIDE DEF t, m, last
  <2>4. AddByte(AddByte(t, m), last) = 0 <=> AddByte(t, m) = last
    BY <1>8, <2>3, LastByte
  <2> QED
    BY <2>1, <2>2, <2>4
<1> HIDE DEF s, t, r, last, l, m
<1>11. el \in Byte /\ ec \in Byte /\ 0 \in Byte
  BY <1>4, <1>6, <1>8, XorZero, XorNothing
<1>12. Ones(0) + Ones(el) + Ones(ec) = Cardinality(flips)
  <2>1. flips \cap (1 .. 0) = {} /\ flips \cap (1 .. 16) = flips
    <3>1. flips \in SUBSET (1 .. 16)
      BY <1>1, <1>7 DEF Damaged
    <3>2. 1 .. 0 = {}
      OBVIOUS
    <3> QED
      BY <3>1, <3>2
  <2>2. Cardinality(flips \cap (1 .. 0)) = 0
    BY <2>1, FS_EmptySet
  <2>3. /\ Ones(el) \in Nat
        /\ Cardinality(flips \cap (1 .. (0 + 8))) = Cardinality(flips \cap (1 .. 0)) + Ones(el)
    BY <1>9, DamageCount
  <2>4. /\ Ones(ec) \in Nat
        /\ Cardinality(flips \cap (1 .. (8 + 8))) = Cardinality(flips \cap (1 .. 8)) + Ones(ec)
    BY <1>8, DamageCount
  <2>5. Ones(0) = 0
    BY <1>11, OnesZero
  <2> HIDE DEF el, ec
  <2>6. 0 + 8 = 8 /\ 8 + 8 = 16
    OBVIOUS
  <2>7. /\ Cardinality(flips \cap (1 .. 8)) = 0 + Ones(el)
        /\ Cardinality(flips) = Cardinality(flips \cap (1 .. 8)) + Ones(ec)
    BY <2>1, <2>2, <2>3, <2>4, <2>6
  <2> QED
    BY <2>3, <2>4, <2>5, <2>7
<1>13. ASSUME status = register PROVE Accepted <=> Carried(Xor(Carried(0), el)) = ec
  <2>1. t = s
    BY <1>5, <1>13
  <2> QED
    BY <1>4, <1>5, <1>6, <1>8, <1>10, <2>1, DamagedSum
<1>14. ASSUME status # register PROVE ~ Accepted
  <2>1. Cardinality(flips) = 0
    BY <1>1, <1>14, FS_EmptySet DEF Damaged
  <2>2. Ones(el) = 0 /\ Ones(ec) = 0 /\ Ones(0) = 0
    BY <1>11, <1>12, <2>1, OnesParity
  <2>3. el = 0 /\ ec = 0
    BY <1>11, <2>2, OnesZero
  <2>4. l = m /\ r = last
    BY <1>4, <1>6, <1>8, <2>3, XorZero
  <2>5. AddByte(t, m) # AddByte(s, m)
    BY <1>4, <1>5, <1>14, AddByteInjective
  <2> QED
    BY <1>6, <1>10, <2>4, <2>5
<1> QED
  BY <1>11, <1>12, <1>13, <1>14 DEF Damages

\* A reading has it, in two bytes of data and one of checksum.
LEMMA ReadingDamages ==
  ASSUME IInv, n = Len(stream), command # 7
  PROVE  \E h, l, c \in Byte : Damages(h, l, c)
<1>1. Types /\ Damaged
  BY DEF IInv
<1>2. PICK word \in Data(command) : stream = Stream(command, word, register)
  BY DEF IInv, Sent
<1> DEFINE r == Checksum(command, word, register)
           last == sht1x_reverse_bits(crc)
           s == AddByte(Seed(register), command)
           t == AddByte(Seed(status), command)
           h == High(word)
           k == High(data)
           l == Low(word)
           m == Low(data)
           eh == Xor(h, k)
           el == Xor(l, m)
           ec == Xor(r, last)
<1>3. /\ word \in Word /\ data \in Word /\ crc \in Byte /\ register \in Byte
      /\ status \in Byte /\ command \in Byte /\ DataBits = 16
  BY <1>1, DataIsWord, CommandIsByte DEF Types, DataBits
<1>4. /\ Seed(register) \in Byte /\ Seed(status) \in Byte
      /\ h \in Byte /\ k \in Byte /\ l \in Byte /\ m \in Byte
      /\ Seed(register) = Seed(status) <=> register = status
  BY <1>3, SeedInjective, Halves
<1>5. s \in Byte /\ t \in Byte /\ (s = t <=> register = status)
  <2>1. s \in Byte /\ t \in Byte
    BY <1>3, <1>4, SameRemainder
  <2>2. ASSUME register # status PROVE s # t
    BY <1>3, <1>4, <2>2, AddByteInjective
  <2> QED
    BY <2>1, <2>2
<1>6. r \in Byte /\ r = AddByte(AddByte(s, h), l)
  BY <1>1, ChecksumSum DEF Types
<1>7. /\ n = 24
      /\ \A i \in 0 .. 15 : Bit(data, i) <=> i < 16 /\ Either(Bit(word, i), 16 - i \in flips)
      /\ \A i \in 0 .. 7 : Bit(crc, i) <=> Either(Bit(r, 7 - i), 16 + 8 - i \in flips)
  <2>1. /\ n = DataBits + 8
        /\ \A i \in 0 .. 15 :
             Bit(data, i) <=> i < DataBits /\ Either(Bit(word, i), DataBits - i \in flips)
        /\ \A i \in 0 .. 7 :
             Bit(crc, i) <=> Either(Bit(r, 7 - i), DataBits + 8 - i \in flips)
    BY <1>2, Arrived
  <2> HIDE DEF r
  <2>2. 16 + 8 = 24
    OBVIOUS
  <2> QED
    BY <1>3, <2>1, <2>2
<1>8. last \in Byte /\ Up(ec, flips, 16)
  BY <1>3, <1>6, <1>7, LastDamage
<1>9. Down(eh, flips, 0) /\ Down(el, flips, 8)
  BY <1>3, <1>7, WordDamage
<1>10. Accepted <=> AddByte(AddByte(t, k), m) = last
  <2>1. Accepted <=> sht1x_crc(<<command, k, m, last>>, sht1x_reverse_bits(status)) = 0
    BY DEF Accepted
  <2>2. sht1x_crc(<<command, k, m, last>>, sht1x_reverse_bits(status))
          = AddByte(AddByte(AddByte(t, k), m), last)
    BY <1>3, CrcOfFour, ReverseIsSeed
  <2>3. AddByte(AddByte(t, k), m) \in Byte
    BY <1>4, <1>5, SameRemainder
  <2> HIDE DEF t, k, m, last
  <2>4. AddByte(AddByte(AddByte(t, k), m), last) = 0 <=> AddByte(AddByte(t, k), m) = last
    BY <1>8, <2>3, LastByte
  <2> QED
    BY <2>1, <2>2, <2>4
<1> HIDE DEF s, t, r, last, h, k, l, m
<1>11. eh \in Byte /\ el \in Byte /\ ec \in Byte
  BY <1>4, <1>6, <1>8, XorZero
<1>12. Ones(eh) + Ones(el) + Ones(ec) = Cardinality(flips)
  <2>1. flips \cap (1 .. 0) = {} /\ flips \cap (1 .. 24) = flips
    <3>1. flips \in SUBSET (1 .. 24)
      BY <1>1, <1>7 DEF Damaged
    <3>2. 1 .. 0 = {}
      OBVIOUS
    <3> QED
      BY <3>1, <3>2
  <2>2. Cardinality(flips \cap (1 .. 0)) = 0
    BY <2>1, FS_EmptySet
  <2>3. /\ Ones(eh) \in Nat
        /\ Cardinality(flips \cap (1 .. (0 + 8))) = Cardinality(flips \cap (1 .. 0)) + Ones(eh)
    BY <1>9, DamageCount
  <2>4. /\ Ones(el) \in Nat
        /\ Cardinality(flips \cap (1 .. (8 + 8))) = Cardinality(flips \cap (1 .. 8)) + Ones(el)
    BY <1>9, DamageCount
  <2>5. /\ Ones(ec) \in Nat
        /\ Cardinality(flips \cap (1 .. (16 + 8))) = Cardinality(flips \cap (1 .. 16)) + Ones(ec)
    BY <1>8, DamageCount
  <2> HIDE DEF eh, el, ec
  <2>6. 0 + 8 = 8 /\ 8 + 8 = 16 /\ 16 + 8 = 24
    OBVIOUS
  <2>7. /\ Cardinality(flips \cap (1 .. 8)) = 0 + Ones(eh)
        /\ Cardinality(flips \cap (1 .. 16)) = Cardinality(flips \cap (1 .. 8)) + Ones(el)
        /\ Cardinality(flips) = Cardinality(flips \cap (1 .. 16)) + Ones(ec)
    BY <2>1, <2>2, <2>3, <2>4, <2>5, <2>6
  <2> QED
    BY <2>3, <2>4, <2>5, <2>7
<1>13. ASSUME status = register PROVE Accepted <=> Carried(Xor(Carried(eh), el)) = ec
  <2>1. t = s
    BY <1>5, <1>13
  <2>2. AddByte(AddByte(s, k), m) = last
          <=> Carried(Xor(Carried(eh), el)) = Xor(AddByte(AddByte(s, h), l), last)
    <3>1. s \in Byte /\ h \in Byte /\ l \in Byte /\ k \in Byte /\ m \in Byte /\ last \in Byte
      BY <1>4, <1>5, <1>8
    <3> QED
      BY <3>1, DamagedSums
  <2> QED
    BY <1>6, <1>10, <2>1, <2>2
<1>14. ASSUME status # register PROVE ~ Accepted
  <2>1. Cardinality(flips) = 0
    BY <1>1, <1>14, FS_EmptySet DEF Damaged
  <2>2. Ones(eh) = 0 /\ Ones(el) = 0 /\ Ones(ec) = 0
    BY <1>11, <1>12, <2>1, OnesParity
  <2>3. eh = 0 /\ el = 0 /\ ec = 0
    BY <1>11, <2>2, OnesZero
  <2>4. h = k /\ l = m /\ r = last
    BY <1>4, <1>6, <1>8, <2>3, XorZero
  <2>5. AddByte(t, k) # AddByte(s, k) /\ AddByte(t, k) \in Byte /\ AddByte(s, k) \in Byte
    BY <1>4, <1>5, <1>14, AddByteInjective, SameRemainder
  <2>6. AddByte(AddByte(t, k), m) # AddByte(AddByte(s, k), m)
    BY <1>4, <2>5, AddByteInjective
  <2> QED
    BY <1>6, <1>10, <2>4, <2>6
<1> QED
  BY <1>11, <1>12, <1>13, <1>14 DEF Damages

\* So any complete answer has.
LEMMA AnswerDamages ==
  ASSUME IInv, n = Len(stream)
  PROVE  /\ IsFiniteSet(flips) /\ Cardinality(flips) \in Nat
         /\ \E h, l, c \in Byte : Damages(h, l, c)
<1>1. IsFiniteSet(flips)
  <2>1. n \in Nat /\ flips \in SUBSET (1 .. n)
    <3>1. Types /\ Damaged
      BY DEF IInv
    <3> QED
      BY <3>1, CommandIsByte DEF Types, Damaged, DataBits
  <2>2. IsFiniteSet(1 .. n)
    BY <2>1, FS_Interval
  <2> QED
    BY <2>1, <2>2, FS_Subset
<1>2. \E h, l, c \in Byte : Damages(h, l, c)
  BY StatusDamages, ReadingDamages, XorNothing
<1> QED
  BY <1>1, <1>2, FS_CardinalityType

\* With up to three damaged bits, the driver accepts exactly the intact answers to which
\* it applies the seed the sensor used.
THEOREM Integrity == MaxFlips <= 3 => (Spec => []AcceptedIffIntact)
<1> SUFFICES ASSUME MaxFlips <= 3 PROVE Spec => []AcceptedIffIntact
  OBVIOUS
<1>1. ASSUME IInv PROVE AcceptedIffIntact
  <2> SUFFICES ASSUME n = Len(stream) PROVE Accepted <=> flips = {} /\ status = register
    BY DEF AcceptedIffIntact
  <2>1. PICK h \in Byte, l \in Byte, c \in Byte : Damages(h, l, c)
    BY <1>1, AnswerDamages
  <2> DEFINE total == Ones(h) + Ones(l) + Ones(c)
  <2>2. total \in Nat /\ total = Cardinality(flips) /\ total <= MaxFlips
    BY <1>1, <2>1, AnswerDamages DEF Damages, IInv, Damaged
  <2>3. total <= 3
    BY <2>2, FlipsAssumption
  <2>4. CASE status = register
    <3>1. Accepted <=> Carried(Xor(Carried(h), l)) = c
      BY <2>1, <2>4 DEF Damages
    <3>2. Carried(Xor(Carried(h), l)) = c <=> total = 0
      BY <2>1, <2>3, SmallDamage
    <3>3. total = 0 <=> flips = {}
      BY <1>1, <2>2, AnswerDamages, FS_EmptySet
    <3> QED
      BY <2>4, <3>1, <3>2, <3>3
  <2>5. CASE status # register
    BY <2>1, <2>5 DEF Damages
  <2> QED
    BY <2>4, <2>5
<1> QED
  BY <1>1, Invariance, PTL

\* However many bits the wire may damage, an odd number of them is noticed.
THEOREM OddDamage == Spec => [](n = Len(stream) /\ Cardinality(flips) % 2 = 1 => ~ Accepted)
<1>1. ASSUME IInv, n = Len(stream), Cardinality(flips) % 2 = 1 PROVE ~ Accepted
  <2>1. PICK h \in Byte, l \in Byte, c \in Byte : Damages(h, l, c)
    BY <1>1, AnswerDamages
  <2>2. Carried(Xor(Carried(h), l)) # c
    BY <1>1, <2>1, EvenDamage DEF Damages
  <2> QED
    BY <2>1, <2>2 DEF Damages
<1> QED
  BY <1>1, Invariance, PTL
=============================================================================
