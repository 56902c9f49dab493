-------------------------- MODULE Sht1xSignalProof ---------------------------
(***************************************************************************)
(* Proofs about Sht1xSignal, for any set of bytes as payloads: what the    *)
(* driver shifts out is what the sensor's receiver hears.                  *)
(*                                                                         *)
(* The patterns are looked at sample by sample (WireClocked,               *)
(* PayloadClocked); a sample either is part of reset and start or gives    *)
(* the receiver a bit at each rise of the clock (Listens, HearsBit).  The  *)
(* invariant says that driver and receiver are at the same sample.         *)
(***************************************************************************)
EXTENDS Sht1xSignal, SequenceTheorems, TLAPS

-----------------------------------------------------------------------------
(* The patterns, sample by sample *)

\* The levels of the pins in each kind of sample.
LEMMA Pins ==
  /\ "CLOCK" \notin N /\ "CLOCK" \in C /\ "CLOCK" \notin D /\ "CLOCK" \in BOTH
  /\ "DATA_OUT" \notin N /\ "DATA_OUT" \notin C /\ "DATA_OUT" \in D /\ "DATA_OUT" \in BOTH
  /\ {N, C, D, BOTH} \subseteq SUBSET BOTH
BY DEF N, C, D, BOTH

\* What follows the reset sequence in front of each command.
start_and_address ==
  <<BOTH, BOTH, C, C, N, N, C, C, BOTH, BOTH, D, D, N, N,
    N, N, C, C,  N, N, C, C,  N, N, C, C>>

\* All that a command puts on the wires.
Wire(op) == trans_start_pattern \o patterns[op]

Size(op) == IF op = "moisture" THEN 81 ELSE 82

\* The commands, spelled out.
LEMMA CommandNames ==
  Commands = {"temperature", "moisture", "status_read", "status_write", "software_reset"}
BY DEF Commands, patterns

\* Two patterns, one after the other.
LEMMA Joined ==
  ASSUME NEW S, NEW s \in Seq(S), NEW t \in Seq(S)
  PROVE  LET r == s \o t
         IN /\ r \in Seq(S)
            /\ Len(r) = Len(s) + Len(t)
            /\ \A i \in 1 .. Len(s) : r[i] = s[i]
            /\ \A i \in 1 .. Len(t) : r[Len(s) + i] = t[i]
<1> DEFINE r == s \o t
<1>1. /\ r \in Seq(S)
      /\ Len(r) = Len(s) + Len(t)
      /\ \A i \in 1 .. Len(s) + Len(t) :
           r[i] = IF i <= Len(s) THEN s[i] ELSE t[i - Len(s)]
  BY ConcatProperties
<1>2. Len(s) \in Nat /\ Len(t) \in Nat
  BY LenProperties
<1> HIDE DEF r
<1>3. \A i \in 1 .. Len(s) : r[i] = s[i]
  BY <1>1, <1>2
<1>4. \A i \in 1 .. Len(t) : r[Len(s) + i] = t[i]
  <2> SUFFICES ASSUME NEW i \in 1 .. Len(t)
               PROVE  r[Len(s) + i] = t[i]
    OBVIOUS
  <2>1. /\ Len(s) + i \in 1 .. Len(s) + Len(t) /\ ~(Len(s) + i <= Len(s))
        /\ (Len(s) + i) - Len(s) = i
    BY <1>2
  <2> QED
    BY <1>1, <2>1
<1> QED
  BY <1>1, <1>3, <1>4 DEF r

Levels == SUBSET BOTH

\* The part all commands share: the reset sequence, the start and the address.
LEMMA StartPattern ==
  /\ trans_start_pattern \in Seq(Levels) /\ Len(trans_start_pattern) = 62
  /\ \A i \in 1 .. 36 : trans_start_pattern[i] = reset_sequence[i]
  /\ \A i \in 1 .. 26 : trans_start_pattern[36 + i] = start_and_address[i]
<1>1. reset_sequence \in Seq(Levels) /\ Len(reset_sequence) = 36
  BY Pins DEF reset_sequence, Levels
<1>2. start_and_address \in Seq(Levels) /\ Len(start_and_address) = 26
  BY Pins DEF start_and_address, Levels
<1>3. trans_start_pattern = reset_sequence \o start_and_address
  BY DEF trans_start_pattern, start_and_address
<1>4. /\ trans_start_pattern \in Seq(Levels)
      /\ Len(trans_start_pattern) = Len(reset_sequence) + Len(start_and_address)
      /\ \A i \in 1 .. Len(reset_sequence) : trans_start_pattern[i] = reset_sequence[i]
      /\ \A i \in 1 .. Len(start_and_address) :
           trans_start_pattern[Len(reset_sequence) + i] = start_and_address[i]
  <2>1. reset_sequence \in Seq(Levels) /\ start_and_address \in Seq(Levels)
    BY <1>1, <1>2
  <2> QED
    BY <1>3, <2>1, Joined, SMT
<1> QED
  BY <1>1, <1>2, <1>4

\* Where the parts of a command lie; each function passes its pattern's size.
LEMMA Parts ==
  ASSUME NEW op \in Commands
  PROVE  /\ CommandSize(op) = Size(op)
         /\ Len(Wire(op)) = Size(op)
         /\ \A i \in 1 .. 36 : Wire(op)[i] = IF (i - 1) % 4 < 2 THEN BOTH ELSE D
         /\ \A i \in 1 .. 26 : Wire(op)[36 + i] = start_and_address[i]
         /\ \A i \in 1 .. Size(op) - 62 : Wire(op)[62 + i] = patterns[op][i]
         /\ \A i \in 1 .. Size(op) : Wire(op)[i] \in Levels
<1>1. patterns[op] \in Seq(Levels) /\ Len(patterns[op]) = Size(op) - 62
  <2>1. CASE op = "temperature"
    BY <2>1, Pins DEF patterns, Size, Levels
  <2>2. CASE op = "moisture"
    BY <2>2, Pins DEF patterns, Size, Levels
  <2>3. CASE op = "status_read"
    BY <2>3, Pins DEF patterns, Size, Levels
  <2>4. CASE op = "status_write"
    BY <2>4, Pins DEF patterns, Size, Levels
  <2>5. CASE op = "software_reset"
    BY <2>5, Pins DEF patterns, Size, Levels
  <2> QED
    BY <2>1, <2>2, <2>3, <2>4, <2>5, CommandNames
<1>2. Size(op) \in Nat /\ Size(op) > 62
  BY DEF Size
<1>3. /\ trans_start_pattern \in Seq(Levels) /\ Len(trans_start_pattern) = 62
      /\ \A i \in 1 .. 36 : trans_start_pattern[i] = reset_sequence[i]
      /\ \A i \in 1 .. 26 : trans_start_pattern[36 + i] = start_and_address[i]
  BY StartPattern
<1>4. /\ Wire(op) \in Seq(Levels) /\ Len(Wire(op)) = Size(op)
      /\ \A i \in 1 .. 62 : Wire(op)[i] = trans_start_pattern[i]
      /\ \A i \in 1 .. Size(op) - 62 : Wire(op)[62 + i] = patterns[op][i]
  <2>1. Wire(op) = trans_start_pattern \o patterns[op]
    BY DEF Wire
  <2>2. /\ Wire(op) \in Seq(Levels)
        /\ Len(Wire(op)) = Len(trans_start_pattern) + Len(patterns[op])
        /\ \A i \in 1 .. Len(trans_start_pattern) : Wire(op)[i] = trans_start_pattern[i]
        /\ \A i \in 1 .. Len(patterns[op]) :
             Wire(op)[Len(trans_start_pattern) + i] = patterns[op][i]
    <3>1. trans_start_pattern \in Seq(Levels) /\ patterns[op] \in Seq(Levels)
      BY <1>1, <1>3
    <3> QED
      BY <3>1, <2>1, Joined, SMT
  <2>3. /\ Len(trans_start_pattern) = 62 /\ Len(patterns[op]) = Size(op) - 62
        /\ 62 + (Size(op) - 62) = Size(op)
    BY <1>1, <1>2, <1>3
  <2> QED
    BY <2>2, <2>3
<1>5. CommandSize(op) = Size(op)
  <2>1. CASE op = "software_reset"
    <3>1. Len(patterns["status_read"]) = 20
      BY DEF patterns
    <3>2. CommandSize(op) = Len(trans_start_pattern) + Len(patterns["status_read"])
      BY <2>1 DEF CommandSize
    <3> QED
      BY <1>3, <2>1, <3>1, <3>2 DEF Size
  <2>2. CASE op # "software_reset"
    <3>1. CommandSize(op) = Len(trans_start_pattern) + Len(patterns[op])
      BY <2>2 DEF CommandSize
    <3> QED
      BY <1>1, <1>2, <1>3, <3>1
  <2> QED
    BY <2>1, <2>2
<1>6. \A i \in 1 .. Size(op) : Wire(op)[i] \in Levels
  BY <1>4, ElementOfSeq
<1>7. \A i \in 1 .. 36 : Wire(op)[i] = IF (i - 1) % 4 < 2 THEN BOTH ELSE D
  <2>1. \A i \in 1 .. 36 : i \in 1 .. 62
    OBVIOUS
  <2>2. \A i \in 1 .. 36 : Wire(op)[i] = reset_sequence[i]
    BY <1>3, <1>4, <2>1
  <2> QED
    BY <2>2 DEF reset_sequence
<1>8. \A i \in 1 .. 26 : Wire(op)[36 + i] = start_and_address[i]
  <2>1. \A i \in 1 .. 26 : 36 + i \in 1 .. 62
    OBVIOUS
  <2> QED
    BY <1>3, <1>4, <2>1
<1> QED
  BY <1>4, <1>5, <1>6, <1>7, <1>8

\* Bits heard once sample i of a command is on the wires, from the start on: three of
\* the address, then the command's.
Count(op, i) ==
  LET late == IF op = "moisture" THEN 0 ELSE 1
  IN CASE i < 53 -> 0
       [] i \in 53 .. 56 -> 1
       [] i \in 57 .. 60 -> 2
       [] i \in 61 .. 65 -> 3
       [] i \in 66 .. 69 -> 4
       [] i \in 70 .. 73 -> 5
       [] i \in 74 .. 76 + late -> 6
       [] i \in 77 + late .. 80 + late -> 7
       [] i > 80 + late -> 8

\* The bits of the commands' codes.
LEMMA CodeBits ==
  /\ \A op \in Commands, k \in 5 .. 7 : BitOf(Code[op], k) = 0
  /\ \A k \in 0 .. 4 :
       /\ BitOf(Code["temperature"], k) = IF k \in {0, 1} THEN 1 ELSE 0
       /\ BitOf(Code["moisture"], k) = IF k \in {0, 2} THEN 1 ELSE 0
       /\ BitOf(Code["status_read"], k) = IF k \in {0, 1, 2} THEN 1 ELSE 0
       /\ BitOf(Code["status_write"], k) = IF k \in {1, 2} THEN 1 ELSE 0
       /\ BitOf(Code["software_reset"], k) = IF k = 0 THEN 0 ELSE 1
<1>1. 2^0 = 1 /\ 2^1 = 2 /\ 2^2 = 4 /\ 2^3 = 8 /\ 2^4 = 16 /\ 2^5 = 32 /\ 2^6 = 64 /\ 2^7 = 128
  OBVIOUS
<1>2. \A k \in 5 .. 7 : k = 5 \/ k = 6 \/ k = 7
  OBVIOUS
<1>3. \A k \in 0 .. 4 : k = 0 \/ k = 1 \/ k = 2 \/ k = 3 \/ k = 4
  OBVIOUS
<1> QED
  BY <1>1, <1>2, <1>3, CommandNames DEF BitOf, Code

\* What the change of the pins after sample i is for a receiver that has heard the start:
\* no other start, a bit of the code for each rise of the clock, and from the address
\* on data that keeps still around the clock's edges.
Clocked(op, i, old, new) ==
  /\ ~(old = BOTH /\ new = C)
  /\ IF RisingEdge(old, new)
     THEN /\ Count(op, i) \in 0 .. 7
          /\ Count(op, i + 1) = Count(op, i) + 1
          /\ ("DATA_OUT" \in new) = (BitOf(Code[op], 7 - Count(op, i)) = 1)
     ELSE Count(op, i + 1) = Count(op, i)
  /\ i > 50 /\ "CLOCK" \in old \cup new => old \cap D = new \cap D

\* The rest of the start, and the address.
LEMMA AddressClocked ==
  ASSUME NEW op \in Commands, NEW j \in 9 .. 25
  PROVE  Clocked(op, 36 + j, start_and_address[j], start_and_address[j + 1])
<1>1. j \in {9, 10, 11, 12, 13, 14, 15, 16, 17, 18, 19, 20, 21, 22, 23, 24, 25}
  OBVIOUS
<1>2. BitOf(Code[op], 7) = 0 /\ BitOf(Code[op], 6) = 0 /\ BitOf(Code[op], 5) = 0
  BY CodeBits
<1>3. Count(op, 36 + j) = IF j < 17 THEN 0 ELSE IF j < 21 THEN 1 ELSE IF j < 25 THEN 2 ELSE 3
  BY <1>1 DEF Count
<1>4. Count(op, 36 + j + 1) = IF j < 16 THEN 0 ELSE IF j < 20 THEN 1 ELSE IF j < 24 THEN 2 ELSE 3
  BY <1>1 DEF Count
<1> QED
  BY <1>1, <1>2, <1>3, <1>4, Pins DEF Clocked, RisingEdge, start_and_address, D

\* The command's bits.
LEMMA CommandClocked ==
  ASSUME NEW op \in Commands, NEW j \in 1 .. Size(op) - 63
  PROVE  Clocked(op, 62 + j, patterns[op][j], patterns[op][j + 1])
<1>1. j \in {1, 2, 3, 4, 5, 6, 7, 8, 9, 10, 11, 12, 13, 14, 15, 16, 17, 18, 19}
  BY DEF Size
<1>2. CASE op = "temperature"
  BY <1>1, <1>2, Pins, CodeBits DEF Clocked, RisingEdge, patterns, D, Count
<1>3. CASE op = "moisture"
  BY <1>1, <1>3, Pins, CodeBits DEF Clocked, RisingEdge, patterns, D, Count, Size
<1>4. CASE op = "status_read"
  BY <1>1, <1>4, Pins, CodeBits DEF Clocked, RisingEdge, patterns, D, Count
<1>5. CASE op = "status_write"
  BY <1>1, <1>5, Pins, CodeBits DEF Clocked, RisingEdge, patterns, D, Count
<1>6. CASE op = "software_reset"
  BY <1>1, <1>6, Pins, CodeBits DEF Clocked, RisingEdge, patterns, D, Count
<1> QED
  BY <1>2, <1>3, <1>4, <1>5, <1>6, CommandNames

\* From the last sample of the start to the last of the command.
LEMMA WireClocked ==
  ASSUME NEW op \in Commands, NEW i \in 45 .. Size(op) - 1
  PROVE  Clocked(op, i, Wire(op)[i], Wire(op)[i + 1])
<1>1. /\ \A j \in 1 .. 26 : Wire(op)[36 + j] = start_and_address[j]
      /\ \A j \in 1 .. Size(op) - 62 : Wire(op)[62 + j] = patterns[op][j]
  BY Parts
<1>2. Size(op) \in {81, 82}
  BY DEF Size
<1>3. CASE i <= 61
  <2>1. i - 36 \in 9 .. 25 /\ i - 36 + 1 \in 1 .. 26
        /\ 36 + (i - 36) = i /\ 36 + (i - 36 + 1) = i + 1
    BY <1>2, <1>3
  <2>2. Clocked(op, 36 + (i - 36), start_and_address[i - 36], start_and_address[i - 36 + 1])
    BY <2>1, AddressClocked
  <2> QED
    BY <1>1, <2>1, <2>2
<1>4. CASE i = 62
  <2>1. 1 \in 1 .. Size(op) - 62 /\ 26 \in 1 .. 26 /\ 36 + 26 = 62 /\ 62 + 1 = 63
    BY <1>2
  <2>2. Wire(op)[62] = start_and_address[26] /\ Wire(op)[63] = patterns[op][1]
    BY <1>1, <2>1
  <2>3. start_and_address[26] = C /\ patterns[op][1] = N
    BY CommandNames DEF start_and_address, patterns
  <2>4. Count(op, 62) = 3 /\ Count(op, 63) = 3
    BY DEF Count
  <2> QED
    BY <1>4, <2>2, <2>3, <2>4, Pins DEF Clocked, RisingEdge, D
<1>5. CASE i > 62
  <2>1. i - 62 \in 1 .. Size(op) - 63 /\ i - 62 \in 1 .. Size(op) - 62
        /\ i - 62 + 1 \in 1 .. Size(op) - 62
        /\ 62 + (i - 62) = i /\ 62 + (i - 62 + 1) = i + 1
    BY <1>2, <1>5
  <2>2. Clocked(op, 62 + (i - 62), patterns[op][i - 62], patterns[op][i - 62 + 1])
    BY <2>1, CommandClocked
  <2> QED
    BY <1>1, <2>1, <2>2
<1> QED
  BY <1>2, <1>3, <1>4, <1>5

\* The nine pulses; the last one's rise is the first sample of the start.
LEMMA ResetPulses ==
  ASSUME NEW op \in Commands, NEW i \in 1 .. 38
  PROVE  /\ RisingEdge(Wire(op)[i], Wire(op)[i + 1]) <=> i % 4 = 0
         /\ RisingEdge(Wire(op)[i], Wire(op)[i + 1]) => "DATA_OUT" \in Wire(op)[i + 1]
<1>1. /\ \A j \in 1 .. 36 : Wire(op)[j] = IF (j - 1) % 4 < 2 THEN BOTH ELSE D
      /\ \A j \in 1 .. 26 : Wire(op)[36 + j] = start_and_address[j]
  BY Parts
<1>2. Wire(op)[37] = BOTH /\ Wire(op)[38] = BOTH /\ Wire(op)[39] = C
  <2>1. Wire(op)[36 + 1] = BOTH /\ Wire(op)[36 + 2] = BOTH /\ Wire(op)[36 + 3] = C
    BY <1>1 DEF start_and_address
  <2> QED
    BY <2>1
<1>3. CASE i < 36
  <2>1. /\ Wire(op)[i] = IF (i - 1) % 4 < 2 THEN BOTH ELSE D
        /\ Wire(op)[i + 1] = IF i % 4 < 2 THEN BOTH ELSE D
    BY <1>1, <1>3
  <2>2. i % 4 = 0 <=> (i - 1) % 4 >= 2 /\ i % 4 < 2
    BY <1>3
  <2> QED
    BY <2>1, <2>2, Pins DEF RisingEdge
<1>4. CASE i >= 36
  <2>1. i \in {36, 37, 38} /\ Wire(op)[36] = D
    BY <1>1, <1>4
  <2> QED
    BY <1>2, <2>1, Pins DEF RisingEdge
<1> QED
  BY <1>3, <1>4

\* The transmission start.
LEMMA StartSamples ==
  ASSUME NEW op \in Commands
  PROVE  /\ Wire(op)[38] = BOTH /\ Wire(op)[39] = C /\ Wire(op)[40] = C
         /\ Wire(op)[41] = N /\ Wire(op)[42] = N /\ Wire(op)[43] = C
         /\ Wire(op)[44] = C /\ Wire(op)[45] = BOTH
<1>1. \A j \in 1 .. 26 : Wire(op)[36 + j] = start_and_address[j]
  BY Parts
<1>2. /\ Wire(op)[36 + 2] = BOTH /\ Wire(op)[36 + 3] = C /\ Wire(op)[36 + 4] = C
      /\ Wire(op)[36 + 5] = N /\ Wire(op)[36 + 6] = N /\ Wire(op)[36 + 7] = C
      /\ Wire(op)[36 + 8] = C /\ Wire(op)[36 + 9] = BOTH
  BY <1>1 DEF start_and_address
<1> QED
  BY <1>2

\* A command ends with the clock high over its last bit.
LEMMA WireEnds ==
  ASSUME NEW op \in Commands
  PROVE  Wire(op)[Size(op)] = C \cup Level(Code[op], 0)
<1>1. Size(op) - 62 \in 1 .. Size(op) - 62 /\ 62 + (Size(op) - 62) = Size(op)
  BY DEF Size
<1>2. Wire(op)[Size(op)] = patterns[op][Size(op) - 62]
  <2>1. \A i \in 1 .. Size(op) - 62 : Wire(op)[62 + i] = patterns[op][i]
    BY Parts
  <2> QED
    BY <1>1, <2>1
<1>3. 0 \in 0 .. 7 /\ 0 \in 0 .. 4
  OBVIOUS
<1>4. C \cup D = BOTH /\ C \cup N = C
  BY DEF C, D, N, BOTH
<1>5. Level(Code[op], 0) = IF op \in {"status_write", "software_reset"} THEN N ELSE D
  BY <1>3, CodeBits, CommandNames DEF Level
<1>6. patterns[op][Size(op) - 62] = IF op \in {"status_write", "software_reset"} THEN C ELSE BOTH
  BY CommandNames DEF patterns, Size
<1> QED
  BY <1>2, <1>4, <1>5, <1>6

-----------------------------------------------------------------------------
(* The receiver *)

Receivers ==
  [ones : 0 .. 9, start : StartSteps, bits : {b \in Seq({0, 1}) : Len(b) <= 8}]

\* Whatever the pins do, the receiver stays one.
LEMMA HearsTyped ==
  ASSUME NEW r \in Receivers, NEW old, NEW new
  PROVE  Hears(r, old, new) \in Receivers
<1> DEFINE high == "DATA_OUT" \in new
           ones == IF RisingEdge(old, new)
                   THEN (IF ~high THEN 0 ELSE IF r.ones = 9 THEN 9 ELSE r.ones + 1)
                   ELSE r.ones
           start == StartStep(r, old, new)
           bits == IF start # 4 \/ r.start # 4 THEN <<>>
                   ELSE IF RisingEdge(old, new) /\ Len(r.bits) < 8
                        THEN Append(r.bits, IF high THEN 1 ELSE 0)
                        ELSE r.bits
<1>1. r.ones \in 0 .. 9 /\ r.start \in StartSteps /\ r.bits \in Seq({0, 1}) /\ Len(r.bits) <= 8
  BY DEF Receivers
<1>2. ones \in 0 .. 9
  BY <1>1
<1>3. start \in StartSteps
  BY <1>1 DEF StartStep, StartSteps
<1>4. bits \in Seq({0, 1}) /\ Len(bits) <= 8
  <2>1. <<>> \in Seq({0, 1}) /\ Len(<<>>) = 0
    OBVIOUS
  <2>2. ASSUME NEW b \in {0, 1}, Len(r.bits) < 8
        PROVE  Append(r.bits, b) \in Seq({0, 1}) /\ Len(Append(r.bits, b)) <= 8
    BY <1>1, <2>2, AppendProperties, LenProperties
  <2> HIDE DEF start
  <2> QED
    BY <1>1, <2>1, <2>2
<1> HIDE DEF high, ones, start, bits
<1>5. [ones |-> ones, start |-> start, bits |-> bits] \in Receivers
  BY <1>2, <1>3, <1>4 DEF Receivers
<1> QED
  BY <1>5 DEF Hears, high, ones, start, bits

Bytes == 0 .. 255

\* The bits of a byte are 0 and 1.
LEMMA BitIsBit ==
  ASSUME NEW byte \in Bytes, NEW k \in 0 .. 7
  PROVE  BitOf(byte, k) \in {0, 1}
<1>1. k = 0 \/ k = 1 \/ k = 2 \/ k = 3 \/ k = 4 \/ k = 5 \/ k = 6 \/ k = 7
  OBVIOUS
<1>2. 2^0 = 1 /\ 2^1 = 2 /\ 2^2 = 4 /\ 2^3 = 8 /\ 2^4 = 16 /\ 2^5 = 32 /\ 2^6 = 64 /\ 2^7 = 128
  OBVIOUS
<1> QED
  BY <1>1, <1>2 DEF BitOf, Bytes

\* A command's code is a byte: what is said of any byte's bits holds for it.
LEMMA CodesAreBytes == \A op \in Commands : Code[op] \in Bytes
BY CommandNames DEF Code, Bytes

\* The receiver has the start and the first n bits of a byte.
HasBits(r, byte, n) ==
  /\ r.start = 4
  /\ Len(r.bits) = n
  /\ \A k \in 1 .. n : r.bits[k] = BitOf(byte, 8 - k)

\* A change of the pins that is no other start adds a bit when the clock rises.
LEMMA HearsBit ==
  ASSUME NEW r \in Receivers, NEW byte \in Bytes, NEW n \in 0 .. 8, HasBits(r, byte, n),
         NEW old, NEW new, ~(old = BOTH /\ new = C),
         RisingEdge(old, new) =>
           n < 8 /\ ("DATA_OUT" \in new) = (BitOf(byte, 7 - n) = 1)
  PROVE  HasBits(Hears(r, old, new), byte, IF RisingEdge(old, new) THEN n + 1 ELSE n)
<1>1. r.bits \in Seq({0, 1}) /\ r.start = 4 /\ Len(r.bits) = n
  BY DEF Receivers, HasBits
<1>2. StartStep(r, old, new) = 4
  BY <1>1 DEF StartStep
<1>3. CASE ~RisingEdge(old, new)
  BY <1>1, <1>2, <1>3 DEF Hears, HasBits
<1>4. CASE RisingEdge(old, new)
  <2> DEFINE b == IF "DATA_OUT" \in new THEN 1 ELSE 0
             bits == Append(r.bits, b)
  <2>1. n < 8 /\ b = BitOf(byte, 8 - (n + 1))
    <3>1. n < 8 /\ 7 - n \in 0 .. 7 /\ 7 - n = 8 - (n + 1)
      BY <1>4
    <3>2. BitOf(byte, 7 - n) \in {0, 1}
      BY <3>1, BitIsBit
    <3> QED
      BY <1>4, <3>1, <3>2
  <2>2. Hears(r, old, new).start = 4 /\ Hears(r, old, new).bits = bits
    BY <1>1, <1>2, <1>4, <2>1 DEF Hears
  <2>3. b \in {0, 1}
    OBVIOUS
  <2> HIDE DEF b
  <2>4. /\ Len(bits) = n + 1
        /\ \A k \in 1 .. n : bits[k] = r.bits[k]
        /\ bits[n + 1] = b
    BY <1>1, <2>3, AppendProperties
  <2> HIDE DEF bits
  <2>5. \A k \in 1 .. n + 1 : bits[k] = BitOf(byte, 8 - k)
    <3>1. \A k \in 1 .. n : r.bits[k] = BitOf(byte, 8 - k)
      BY DEF HasBits
    <3>2. \A k \in 1 .. n + 1 : k \in 1 .. n \/ k = n + 1
      OBVIOUS
    <3> QED
      BY <2>1, <2>4, <3>1, <3>2
  <2> QED
    BY <1>4, <2>2, <2>4, <2>5 DEF HasBits
<1> QED
  BY <1>3, <1>4

\* What the receiver has made of the first i samples of a command: at least the
\* pulses since the first sample, then the steps of the start, then bits.
Listening(r, op, i) ==
  /\ i <= 39 => r.ones >= (i - 1) \div 4
  /\ i \in 39 .. 40 => r.start = 1
  /\ i \in 41 .. 42 => r.start = 2
  /\ i \in 43 .. 44 => r.start = 3
  /\ i >= 45 => HasBits(r, Code[op], Count(op, i))

\* The next sample takes it one further: by the pulses of the reset, the edges of the
\* start, or a bit.
LEMMA Listens ==
  ASSUME NEW op \in Commands, NEW i \in 1 .. Size(op) - 1,
         NEW r \in Receivers, Listening(r, op, i)
  PROVE  Listening(Hears(r, Wire(op)[i], Wire(op)[i + 1]), op, i + 1)
<1> DEFINE old == Wire(op)[i]
           new == Wire(op)[i + 1]
           h == Hears(r, old, new)
<1>1. i \in Nat /\ Size(op) \in {81, 82} /\ i + 1 \in Nat
  BY DEF Size
<1>2. CASE i <= 38
  <2>1. /\ RisingEdge(old, new) <=> i % 4 = 0
        /\ RisingEdge(old, new) => "DATA_OUT" \in new
    BY <1>1, <1>2, ResetPulses
  <2>2. r.ones \in 0 .. 9 /\ r.ones >= (i - 1) \div 4
    BY <1>1, <1>2 DEF Listening, Receivers
  <2>3. h.ones = IF RisingEdge(old, new) THEN (IF r.ones = 9 THEN 9 ELSE r.ones + 1) ELSE r.ones
    BY <2>1 DEF Hears
  <2>4. h.ones >= (i + 1 - 1) \div 4
    <3>1. i % 4 = 0 => i \div 4 = (i - 1) \div 4 + 1 /\ i \div 4 <= 9
      BY <1>1, <1>2
    <3>2. i % 4 # 0 => i \div 4 = (i - 1) \div 4
      BY <1>1, <1>2
    <3>3. i + 1 - 1 = i /\ (i - 1) \div 4 \in Int
      BY <1>1
    <3> HIDE DEF h, old, new
    <3> QED
      BY <2>1, <2>2, <2>3, <3>1, <3>2, <3>3
  <2>5. i + 1 = 39 => h.start = 1
    <3>1. i = 38 => old = BOTH /\ new = C
      BY StartSamples
    <3> QED
      BY <1>1, <3>1 DEF Hears, StartStep
  <2> QED
    BY <1>1, <1>2, <2>4, <2>5 DEF Listening
<1>3. CASE i \in 39 .. 43
  <2>1. /\ i = 39 => old = C /\ new = C /\ r.start = 1
        /\ i = 40 => old = C /\ new = N /\ r.start = 1
        /\ i = 41 => old = N /\ new = N /\ r.start = 2
        /\ i = 42 => old = N /\ new = C /\ r.start = 2
        /\ i = 43 => old = C /\ new = C /\ r.start = 3
    BY <1>3, StartSamples DEF Listening
  <2>2. h.start = StartStep(r, old, new)
    BY DEF Hears
  <2>3. BOTH # C /\ BOTH # N /\ C # N
    BY Pins
  <2>4. /\ i = 39 => h.start = 1
        /\ i \in {40, 41} => h.start = 2
        /\ i \in {42, 43} => h.start = 3
    BY <1>3, <2>1, <2>2, <2>3 DEF StartStep
  <2> QED
    BY <1>3, <2>4 DEF Listening
<1>4. CASE i = 44
  <2>1. old = C /\ new = BOTH /\ r.start = 3
    BY <1>4, StartSamples DEF Listening
  <2>2. StartStep(r, old, new) = 4
    BY <2>1, Pins DEF StartStep
  <2>3. h.start = 4 /\ h.bits = <<>>
    BY <2>1, <2>2 DEF Hears
  <2>4. Count(op, 45) = 0
    BY DEF Count
  <2>5. HasBits(h, Code[op], 0)
    BY <2>3 DEF HasBits
  <2> QED
    BY <1>4, <2>4, <2>5 DEF Listening
<1>5. CASE i >= 45
  <2>1. Clocked(op, i, old, new) /\ HasBits(r, Code[op], Count(op, i))
    BY <1>1, <1>5, WireClocked DEF Listening
  <2>2. Count(op, i) \in 0 .. 8 /\ Code[op] \in Bytes
    BY <1>1, <1>5, CodesAreBytes DEF Count
  <2>3. HasBits(h, Code[op], IF RisingEdge(old, new) THEN Count(op, i) + 1 ELSE Count(op, i))
    BY <2>1, <2>2, HearsBit DEF Clocked
  <2>4. Count(op, i + 1) = IF RisingEdge(old, new) THEN Count(op, i) + 1 ELSE Count(op, i)
    BY <2>1 DEF Clocked
  <2> QED
    BY <1>1, <1>5, <2>3, <2>4 DEF Listening
<1> QED
  BY <1>1, <1>2, <1>3, <1>4, <1>5

-----------------------------------------------------------------------------
(* A payload, sample by sample *)

\* The sample on the wires before sample i + 1; the acknowledge leaves data high.
Before(value, i) == IF i = 0 THEN D ELSE Payload(value)[i]

\* The level of a bit; in front of the highest one it is low.
LEMMA LevelIs ==
  ASSUME NEW value \in Bytes, NEW k \in 0 .. 8
  PROVE  /\ Level(value, k) \in {N, D}
         /\ k < 8 => ("DATA_OUT" \in Level(value, k)) = (BitOf(value, k) = 1)
         /\ Level(value, 8) = N
BY Pins DEF Level

\* Each fourth sample raises the clock with the next bit.
LEMMA PayloadClocked ==
  ASSUME NEW value \in Bytes, NEW i \in 0 .. 31
  PROVE  LET old == Before(value, i)
             new == Payload(value)[i + 1]
         IN /\ ~(old = BOTH /\ new = C)
            /\ RisingEdge(old, new) <=> i % 4 = 3
            /\ RisingEdge(old, new) => ("DATA_OUT" \in new) = (BitOf(value, 7 - i \div 4) = 1)
            /\ "CLOCK" \in old \cup new => old \cap D = new \cap D
            /\ new \in Levels
<1> DEFINE k == 7 - i \div 4
           old == Before(value, i)
           new == Payload(value)[i + 1]
<1>1. k \in 0 .. 7 /\ k + 1 \in 0 .. 8 /\ i \in Nat /\ i % 4 \in 0 .. 3
  OBVIOUS
<1>2. new = Sample(Level(value, k + 1), Level(value, k), i % 4)
  BY DEF Payload, PayloadBufferSize
<1>3. i > 0 => LET j == 7 - (i - 1) \div 4
               IN old = Sample(Level(value, j + 1), Level(value, j), (i - 1) % 4)
  BY DEF Before, Payload, PayloadBufferSize
<1>4. i > 0 /\ i % 4 = 0 => (i - 1) % 4 = 3 /\ 7 - (i - 1) \div 4 = k + 1
  BY <1>1
<1>5. i % 4 # 0 => (i - 1) % 4 = (i % 4) - 1 /\ 7 - (i - 1) \div 4 = k /\ i > 0
  BY <1>1
<1> DEFINE L == Level(value, k)
           P == Level(value, k + 1)
<1>6. /\ L \in {N, D} /\ ("DATA_OUT" \in L) = (BitOf(value, k) = 1)
      /\ P \in {N, D} /\ (i = 0 => P = N)
  <2>1. i = 0 => k + 1 = 8
    OBVIOUS
  <2>2. k < 8
    BY <1>1
  <2> HIDE DEF k
  <2> QED
    BY <1>1, <2>1, <2>2, LevelIs
<1> HIDE DEF k, old, new, L, P
<1>7. CASE i % 4 = 0
  <2>1. new = P
    BY <1>2, <1>7 DEF Sample, P
  <2>2. i = 0 => old = D
    BY DEF Before, old
  <2>3. i > 0 => old = P \cup C
    BY <1>3, <1>4, <1>7 DEF Sample, P
  <2>4. /\ "CLOCK" \notin new /\ new # C /\ new \in Levels
        /\ "CLOCK" \in old \cup new => old \cap D = new \cap D
    <3>1. "CLOCK" \notin new /\ new # C /\ new \in Levels
      BY <1>6, <2>1, Pins DEF Levels
    <3>2. CASE i = 0
      <4>1. "CLOCK" \notin old \cup new
        BY <2>2, <3>1, <3>2, Pins
      <4> QED
        BY <3>1, <4>1
    <3>3. CASE i > 0
      <4>1. (P \cup C) \cap D = P \cap D
        BY DEF C, D
      <4> QED
        BY <2>1, <2>3, <3>1, <3>3, <4>1
    <3> QED
      BY <1>1, <3>2, <3>3
  <2> QED
    BY <1>7, <2>4 DEF RisingEdge, old, new
<1>8. CASE i % 4 = 1
  <2>1. new = L /\ old = P
    BY <1>2, <1>3, <1>5, <1>8 DEF Sample, P, L
  <2>2. /\ "CLOCK" \notin new /\ new # C /\ new \in Levels
        /\ "CLOCK" \notin old
    BY <1>6, <2>1, Pins DEF C, D, N, Levels
  <2> QED
    BY <1>8, <2>2 DEF RisingEdge, old, new
<1>9. CASE i % 4 = 2
  <2>1. new = L /\ old = L
    BY <1>2, <1>3, <1>5, <1>9 DEF Sample, P, L
  <2>2. /\ "CLOCK" \notin new /\ new # C /\ new \in Levels
        /\ "CLOCK" \notin old
    BY <1>6, <2>1, Pins DEF C, D, N, Levels
  <2> QED
    BY <1>9, <2>2 DEF RisingEdge, old, new
<1>10. CASE i % 4 = 3
  <2>1. new = L \cup C /\ old = L
    BY <1>2, <1>3, <1>5, <1>10 DEF Sample, P, L
  <2>2. /\ old # BOTH /\ "CLOCK" \notin old /\ "CLOCK" \in new /\ new \in Levels
        /\ ("DATA_OUT" \in new) = ("DATA_OUT" \in L)
        /\ old \cap D = new \cap D
    BY <1>6, <2>1, Pins DEF C, D, N, BOTH, Levels
  <2> QED
    BY <1>6, <1>10, <2>2 DEF RisingEdge, old, new, k
<1> QED
  BY <1>1, <1>7, <1>8, <1>9, <1>10

-----------------------------------------------------------------------------
(* The invariant *)

\* While a command is sent the buffer's first samples are the command's, the pins have
\* the last one sent, and the receiver has heard what came so far; while a payload
\* is, likewise.  In between it has the start and no bit, and data is high.
SInv ==
  /\ job \in [op : Commands, value : Values]
  /\ phase \in {"free", "cmd", "ack", "payload"}
  /\ cmd \in [1 .. CmdBufferSize -> Levels]
  /\ pins \in Levels
  /\ receiver \in Receivers
  /\ pos \in 0 .. 82
  /\ phase = "cmd" =>
       /\ pos <= Size(job.op)
       /\ \A i \in 1 .. Size(job.op) : cmd[i] = Wire(job.op)[i]
       /\ pos > 0 => pins = Wire(job.op)[pos] /\ Listening(receiver, job.op, pos)
  /\ phase = "ack" => pins = D /\ HasBits(receiver, job.value, 0)
  /\ phase = "payload" =>
       /\ pos <= PayloadBufferSize
       /\ pins = Before(job.value, pos)
       /\ HasBits(receiver, job.value, pos \div 4)

\* It holds at first, with the pins at any level.
LEMMA InitSInv == Init => SInv
<1> SUFFICES ASSUME Init
             PROVE  SInv
  OBVIOUS
<1>1. cmd \in [1 .. CmdBufferSize -> Levels] /\ pins \in Levels
  BY Pins DEF Init, Levels
<1>2. receiver \in Receivers
  <2>1. <<>> \in Seq({0, 1}) /\ Len(<<>>) = 0
    OBVIOUS
  <2> QED
    BY <2>1 DEF Init, Receivers, StartSteps
<1> QED
  BY <1>1, <1>2 DEF Init, SInv

\* A step of the transfer of a command.
LEMMA CommandShifts ==
  ASSUME SInv, Shift, phase = "cmd"
  PROVE  SInv'
<1> DEFINE op == job.op
<1>1. /\ op \in Commands /\ receiver \in Receivers /\ pos \in Nat
      /\ CommandSize(op) = Size(op) /\ Size(op) \in {81, 82}
  <2>1. op \in Commands /\ receiver \in Receivers /\ pos \in Nat
    BY DEF SInv
  <2> HIDE DEF op
  <2> QED
    BY <2>1, Parts DEF Size
<1>2. /\ pos < Size(op) /\ pos' = pos + 1 /\ pins' = cmd[pos + 1]
      /\ receiver' = Hears(receiver, pins, pins') /\ UNCHANGED <<job, phase, cmd>>
  BY <1>1 DEF Shift, TransferSize
<1>3. pos + 1 \in 1 .. Size(op)
  BY <1>1, <1>2
<1>4. pins' = Wire(op)[pos + 1] /\ pins' \in Levels
  <2>1. cmd[pos + 1] = Wire(op)[pos + 1]
    BY <1>3 DEF SInv
  <2>2. Wire(op)[pos + 1] \in Levels
    BY <1>1, <1>3, Parts
  <2> QED
    BY <1>2, <2>1, <2>2
<1>5. receiver' \in Receivers
  BY <1>1, <1>2, HearsTyped
<1>6. Listening(receiver', op, pos + 1)
  <2>1. CASE pos = 0
    BY <1>5, <2>1 DEF Listening, Receivers
  <2>2. CASE pos > 0
    <3>1. pos \in 1 .. Size(op) - 1
      BY <1>1, <1>2, <2>2
    <3>2. pins = Wire(op)[pos] /\ Listening(receiver, op, pos)
      BY <2>2 DEF SInv
    <3>3. Listening(Hears(receiver, Wire(op)[pos], Wire(op)[pos + 1]), op, pos + 1)
      BY <1>1, <3>1, <3>2, Listens
    <3> QED
      BY <1>2, <1>4, <3>2, <3>3
  <2> QED
    BY <1>1, <2>1, <2>2
<1> QED
  BY <1>1, <1>2, <1>3, <1>4, <1>5, <1>6 DEF SInv

\* And of a payload.
LEMMA PayloadShifts ==
  ASSUME SInv, Shift, phase = "payload"
  PROVE  SInv'
<1> DEFINE value == job.value
           new == Payload(value)[pos + 1]
<1>1. value \in Bytes /\ receiver \in Receivers /\ pos \in Nat
  <2>1. value \in Values /\ receiver \in Receivers /\ pos \in Nat
    BY DEF SInv
  <2> QED
    BY <2>1, ValuesAssumption DEF Bytes
<1>2. /\ pos < 32 /\ pos' = pos + 1 /\ pins' = new
      /\ receiver' = Hears(receiver, pins, pins') /\ UNCHANGED <<job, phase, cmd>>
  BY DEF Shift, TransferSize, PayloadBufferSize
<1>3. pos \in 0 .. 31
  BY <1>1, <1>2
<1>4. /\ pins = Before(value, pos) /\ HasBits(receiver, value, pos \div 4)
  BY DEF SInv
<1>5. /\ ~(pins = BOTH /\ new = C)
      /\ RisingEdge(pins, new) <=> pos % 4 = 3
      /\ RisingEdge(pins, new) => ("DATA_OUT" \in new) = (BitOf(value, 7 - pos \div 4) = 1)
      /\ new \in Levels
  BY <1>1, <1>3, <1>4, PayloadClocked
<1>6. receiver' \in Receivers
  BY <1>1, <1>2, HearsTyped
<1> HIDE DEF new
<1>7. pos \div 4 \in 0 .. 8 /\ pos \div 4 < 8
  BY <1>3
<1>8. HasBits(Hears(receiver, pins, new), value,
              IF RisingEdge(pins, new) THEN pos \div 4 + 1 ELSE pos \div 4)
  BY <1>1, <1>4, <1>5, <1>7, HearsBit
<1>9. (pos + 1) \div 4 = IF pos % 4 = 3 THEN pos \div 4 + 1 ELSE pos \div 4
  BY <1>3
<1>10. HasBits(receiver', value, (pos + 1) \div 4)
  BY <1>2, <1>5, <1>8, <1>9
<1>11. pins' = Before(value, pos + 1)
  BY <1>1, <1>2 DEF Before, new
<1> QED
  BY <1>1, <1>2, <1>3, <1>5, <1>6, <1>10, <1>11 DEF SInv, PayloadBufferSize

\* Every step keeps it.
LEMMA Steps ==
  ASSUME SInv, [Next]_vars
  PROVE  SInv'
<1>1. CASE UNCHANGED vars
  BY <1>1 DEF vars, SInv
<1>2. ASSUME NEW op \in Commands, NEW value \in Values, Prepare(op, value)
      PROVE  SInv'
  <2>1. /\ job' = [op |-> op, value |-> value] /\ phase' = "cmd" /\ cmd' = Assembled(op)
        /\ pos' = 0 /\ UNCHANGED <<pins, receiver>>
    BY <1>2 DEF Prepare
  <2>2. /\ Len(Wire(op)) = Size(op) /\ Size(op) \in 81 .. 82
        /\ \A i \in 1 .. Size(op) : Wire(op)[i] \in Levels
    BY Parts DEF Size
  <2>3. \A i \in 1 .. CmdBufferSize :
          cmd'[i] = IF i <= Size(op) THEN Wire(op)[i] ELSE cmd[i]
    BY <2>1, <2>2 DEF Assembled, Wire
  <2>4. cmd' \in [1 .. CmdBufferSize -> Levels]
    <3>1. DOMAIN cmd' = 1 .. CmdBufferSize /\ cmd' = [i \in 1 .. CmdBufferSize |-> cmd'[i]]
      BY <2>1 DEF Assembled
    <3>2. \A i \in 1 .. CmdBufferSize : cmd'[i] \in Levels
      BY <2>2, <2>3 DEF SInv
    <3> QED
      BY <3>1, <3>2
  <2>5. \A i \in 1 .. Size(op) : cmd'[i] = Wire(op)[i]
    <3>1. \A i \in 1 .. Size(op) : i \in 1 .. CmdBufferSize /\ i <= Size(op)
      BY <2>2 DEF CmdBufferSize
    <3> QED
      BY <2>3, <3>1
  <2> QED
    BY <2>1, <2>2, <2>4, <2>5 DEF SInv
<1>3. CASE Shift
  BY <1>3, CommandShifts, PayloadShifts DEF Shift
<1>4. CASE Abort
  BY <1>4 DEF Abort, SInv
<1>5. ASSUME receiver' = [ones |-> 0, start |-> 4, bits |-> <<>>], pins' = D
      PROVE  receiver' \in Receivers /\ pins' \in Levels /\ HasBits(receiver', job.value, 0)
  <2>1. <<>> \in Seq({0, 1}) /\ Len(<<>>) = 0
    OBVIOUS
  <2> QED
    BY <1>5, <2>1, Pins DEF Receivers, StartSteps, HasBits, Levels
<1>6. CASE Acknowledge
  BY <1>5, <1>6 DEF Acknowledge, SInv
<1>7. CASE StartPayload
  BY <1>7 DEF StartPayload, SInv, Before, PayloadBufferSize
<1>8. CASE Done
  BY <1>5, <1>8 DEF Done, SInv
<1> QED
  BY <1>1, <1>2, <1>3, <1>4, <1>6, <1>7, <1>8 DEF Next

\* The driver's transfers and the sensor's receiver stay in step.
THEOREM InStep == Spec => []SInv
BY InitSInv, Steps, PTL DEF Spec

\* Buffers, pins and receiver keep their types.
THEOREM TypeCorrect == Spec => []TypeOK
<1>1. SInv => TypeOK
  <2> SUFFICES ASSUME SInv
               PROVE  TypeOK
    OBVIOUS
  <2>1. 0 .. 1 = {0, 1}
    OBVIOUS
  <2>2. pos \in 0 .. CmdBufferSize
    BY DEF SInv, CmdBufferSize
  <2> QED
    BY <2>1, <2>2 DEF SInv, TypeOK, Receivers, Levels
<1> QED
  BY <1>1, InStep, PTL

\* Each command's pattern, size and start make the sensor hear address 0 and the code,
\* over any pins and any contents of the buffer.
THEOREM CommandArrives == Spec => []CommandHeard
<1>1. SInv => CommandHeard
  <2> SUFFICES ASSUME SInv, phase = "cmd", pos = TransferSize
               PROVE  receiver.start = 4 /\ Heard(Code[job.op])
    BY DEF CommandHeard, Sent
  <2>1. job.op \in Commands /\ pos = Size(job.op)
    BY Parts DEF SInv, TransferSize
  <2>2. pos >= 45 /\ pos > 0 /\ Count(job.op, pos) = 8
    BY <2>1 DEF Size, Count
  <2>3. HasBits(receiver, Code[job.op], 8)
    BY <2>2 DEF SInv, Listening
  <2> QED
    BY <2>3 DEF HasBits, Heard
<1> QED
  BY <1>1, InStep, PTL

\* The nine pulses are complete three samples into the start, even if the first one of
\* them is lost because the clock was high before.
THEOREM ResetArrives == Spec => []InterfaceReset
<1>1. SInv => InterfaceReset
  <2> SUFFICES ASSUME SInv, phase = "cmd", pos = Len(reset_sequence) + 3
               PROVE  receiver.ones = 9
    BY DEF InterfaceReset
  <2>1. pos = 39
    BY DEF reset_sequence
  <2>2. receiver.ones >= 38 \div 4 /\ receiver.ones \in 0 .. 9
    BY <2>1 DEF SInv, Listening, Receivers
  <2> QED
    BY <2>2
<1> QED
  BY <1>1, InStep, PTL

\* sht1x_command_payload_prepare() makes the sensor hear any byte.
THEOREM PayloadArrives == Spec => []PayloadHeard
<1>1. SInv => PayloadHeard
  <2> SUFFICES ASSUME SInv, phase = "payload", pos = TransferSize
               PROVE  Heard(job.value)
    BY DEF PayloadHeard, Sent
  <2>1. HasBits(receiver, job.value, 8)
    BY DEF SInv, TransferSize, PayloadBufferSize
  <2> QED
    BY <2>1 DEF HasBits, Heard
<1> QED
  BY <1>1, InStep, PTL

\* A transfer leaves the clock high and data at its last bit.
THEOREM LevelsAreLeft == Spec => []LastLevels
<1>1. SInv => LastLevels
  <2> SUFFICES ASSUME SInv
               PROVE  LastLevels
    OBVIOUS
  <2>1. ASSUME Sent("cmd")
        PROVE  pins = C \cup Level(Code[job.op], 0)
    <3> DEFINE op == job.op
    <3>1. op \in Commands
      BY DEF SInv
    <3>2. phase = "cmd" /\ pos = CommandSize(op)
      BY <2>1 DEF Sent, TransferSize
    <3> HIDE DEF op
    <3>3. Size(op) \in {81, 82} /\ pos = Size(op)
      BY <3>1, <3>2, Parts DEF Size
    <3>4. pins = Wire(op)[Size(op)]
      BY <3>2, <3>3 DEF SInv, op
    <3>5. Wire(op)[Size(op)] = C \cup Level(Code[op], 0)
      BY <3>1, WireEnds
    <3> QED
      BY <3>4, <3>5 DEF op
  <2>2. ASSUME Sent("payload")
        PROVE  pins = C \cup Level(job.value, 0)
    <3>1. phase = "payload" /\ pos = 32
      BY <2>2 DEF Sent, TransferSize, PayloadBufferSize
    <3>2. pins = Payload(job.value)[32]
      BY <3>1 DEF SInv, Before
    <3>3. Payload(job.value)[32] = Level(job.value, 0) \cup C
      BY DEF Payload, PayloadBufferSize, Sample
    <3> QED
      BY <3>2, <3>3
  <2> QED
    BY <2>1, <2>2 DEF LastLevels, Sent
<1> QED
  BY <1>1, InStep, PTL

\* Data keeps still around the clock's edges.
THEOREM DataIsSetUp == Spec => Setup
<1> DEFINE Part == phase = "payload" \/ pos > Len(trans_start_pattern) - 12
           Edge == "CLOCK" \in pins \cup pins'
           Still == pins \cap D = pins' \cap D
<1>1. ASSUME SInv, Shift, Part, Edge
      PROVE  Still
  <2>1. CASE phase = "cmd"
    <3> DEFINE op == job.op
    <3>1. op \in Commands /\ pos \in Nat /\ phase # "payload"
      BY <1>1, <2>1 DEF SInv
    <3>2. pos > 50
      BY <1>1, <3>1, StartPattern
    <3>3. pos < CommandSize(op) /\ pins' = cmd[pos + 1]
      BY <1>1, <2>1 DEF Shift, TransferSize
    <3> HIDE DEF op
    <3>4. Size(op) \in {81, 82} /\ pos < Size(op)
      BY <3>1, <3>3, Parts DEF Size
    <3>5. pos \in 45 .. Size(op) - 1 /\ pos + 1 \in 1 .. Size(op) /\ pos > 0
      BY <3>1, <3>2, <3>4
    <3>6. pins = Wire(op)[pos] /\ cmd[pos + 1] = Wire(op)[pos + 1]
      BY <1>1, <2>1, <3>5 DEF SInv, op
    <3>7. Clocked(op, pos, pins, pins')
      BY <3>1, <3>3, <3>5, <3>6, WireClocked
    <3> QED
      BY <1>1, <3>2, <3>7 DEF Clocked
  <2>2. CASE phase = "payload"
    <3>1. job.value \in Values /\ pos \in Nat
      <4>1. SInv
        BY <1>1
      <4>2. job \in [op : Commands, value : Values] /\ pos \in 0 .. 82
        BY <4>1 DEF SInv
      <4> QED
        BY <4>2
    <3>5. pins = Before(job.value, pos)
      BY <1>1, <2>2 DEF SInv
    <3>2. job.value \in Bytes
      BY <3>1, ValuesAssumption DEF Bytes
    <3>3. pos < 32 /\ pins' = Payload(job.value)[pos + 1]
      BY <1>1, <2>2 DEF Shift, TransferSize, PayloadBufferSize
    <3>4. pos \in 0 .. 31
      BY <3>1, <3>3
    <3> QED
      BY <1>1, <3>2, <3>3, <3>4, <3>5, PayloadClocked
  <2> QED
    BY <1>1, <2>1, <2>2 DEF Shift
<1>2. SInv /\ [Next]_vars => [Shift /\ Part /\ Edge => Still]_vars
  BY <1>1
<1> QED
  BY <1>2, InStep, PTL DEF Spec, Setup
=============================================================================
