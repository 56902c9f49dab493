------------------------------- MODULE Sht1xCrc -----------------------------
(***************************************************************************)
(* The checksum of the SHT1x driver (src/src/sht1x.c): the lookup table,   *)
(* the bit reversal, and how a status or sensor read assembles the bytes   *)
(* it checks from the bits it has shifted in.  The sensor, not in the      *)
(* repository, computes the checksum bit by bit with the polynomial the    *)
(* comment on the table names.                                             *)
(*                                                                         *)
(* Module Sht1x takes a checksum for right exactly when each bit is at its *)
(* place and driver and sensor start from the same register.  This module  *)
(* is about the arithmetic behind that.                                    *)
(***************************************************************************)
EXTENDS Integers, Sequences, FiniteSets

CONSTANTS
  Readings,    \* the sensor's measurements
  Registers,   \* values of its register
  MaxFlips     \* bits that may be damaged on the wire

ASSUME ReadingsAssumption == Readings \subseteq 0 .. 2^16 - 1
ASSUME RegistersAssumption == Registers \subseteq 0..255
ASSUME FlipsAssumption == MaxFlips \in Nat

Byte == 0..255

BitOf(value, i) == (value \div 2^i) % 2

\* The exclusive or of two bytes.
Xor(a, b) ==
  LET Bit(i) == (BitOf(a, i) + BitOf(b, i)) % 2
  IN Bit(0) + 2 * Bit(1) + 4 * Bit(2) + 8 * Bit(3) + 16 * Bit(4) + 32 * Bit(5)
       + 64 * Bit(6) + 128 * Bit(7)

crc8_rows ==
  <<<<0, 49, 98, 83, 196, 245, 166, 151, 185, 136, 219, 234, 125, 76, 31, 46>>,
    <<67, 114, 33, 16, 135, 182, 229, 212, 250, 203, 152, 169, 62, 15, 92, 109>>,
    <<134, 183, 228, 213, 66, 115, 32, 17, 63, 14, 93, 108, 251, 202, 153, 168>>,
    <<197, 244, 167, 150, 1, 48, 99, 82, 124, 77, 30, 47, 184, 137, 218, 235>>,
    <<61, 12, 95, 110, 249, 200, 155, 170, 132, 181, 230, 215, 64, 113, 34, 19>>,
    <<126, 79, 28, 45, 186, 139, 216, 233, 199, 246, 165, 148, 3, 50, 97, 80>>,
    <<187, 138, 217, 232, 127, 78, 29, 44, 2, 51, 96, 81, 198, 247, 164, 149>>,
    <<248, 201, 154, 171, 60, 13, 94, 111, 65, 112, 35, 18, 133, 180, 231, 214>>,
    <<122, 75, 24, 41, 190, 143, 220, 237, 195, 242, 161, 144, 7, 54, 101, 84>>,
    <<57, 8, 91, 106, 253, 204, 159, 174, 128, 177, 226, 211, 68, 117, 38, 23>>,
    <<252, 205, 158, 175, 56, 9, 90, 107, 69, 116, 39, 22, 129, 176, 227, 210>>,
    <<191, 142, 221, 236, 123, 74, 25, 40, 6, 55, 100, 85, 194, 243, 160, 145>>,
    <<71, 118, 37, 20, 131, 178, 225, 208, 254, 207, 156, 173, 58, 11, 88, 105>>,
    <<4, 53, 102, 87, 192, 241, 162, 147, 189, 140, 223, 238, 121, 72, 27, 42>>,
    <<193, 240, 163, 146, 5, 52, 103, 86, 120, 73, 26, 43, 188, 141, 222, 239>>,
    <<130, 179, 224, 209, 70, 119, 36, 21, 59, 10, 89, 104, 255, 206, 157, 172>>>>

\* Two rows exchanged.
crc8_lut_swapped ==
  LET rows == [crc8_rows EXCEPT ![3] = crc8_rows[4], ![4] = crc8_rows[3]]
  IN [i \in 1..256 |-> rows[((i - 1) \div 16) + 1][((i - 1) % 16) + 1]]

crc8_lut == [i \in 1..256 |-> crc8_rows[((i - 1) \div 16) + 1][((i - 1) % 16) + 1]]

\* The step of the table: a byte is added to the remainder.
AddByte(crc, byte) == crc8_lut[Xor(crc, byte) + 1]

sht1x_crc(data, initial_crc) ==
  LET crc[i \in 0..Len(data)] ==
        IF i = 0 THEN initial_crc ELSE AddByte(crc[i - 1], data[i])
  IN crc[Len(data)]

\* reversed <<= 1; reversed |= value & 0x01; with value shifted i times.
ReverseRound(reversed, value, i) == (2 * reversed + BitOf(value, i)) % 256

\* A loop of seven rounds, which keeps a bit of the value reversed starts as.
reverse_bits_short(value) ==
  LET reversed[i \in 0..7] ==
        IF i = 0 THEN value ELSE ReverseRound(reversed[i - 1], value, i - 1)
  IN reversed[7]

sht1x_reverse_bits(value) ==
  LET reversed[i \in 0..8] ==
        IF i = 0 THEN value ELSE ReverseRound(reversed[i - 1], value, i - 1)
  IN reversed[8]

-----------------------------------------------------------------------------
(* The sensor *)

\* One bit of division by x^8 + x^5 + x^4 + 1.
AddBit(crc, bit) ==
  LET shifted == (2 * crc) % 256
  IN IF BitOf(crc, 7) # bit THEN Xor(shifted, 49) ELSE shifted

\* A byte's bits, the highest first.
AddBits(crc, byte) ==
  LET rest[i \in 0..8] == IF i = 0 THEN crc ELSE AddBit(rest[i - 1], BitOf(byte, 8 - i))
  IN rest[8]

Remainder(bytes, seed) ==
  LET rest[i \in 0..Len(bytes)] == IF i = 0 THEN seed ELSE AddBits(rest[i - 1], bytes[i])
  IN rest[Len(bytes)]

\* The register's bits in the reverse order.
Seed(reg) ==
  BitOf(reg, 7) + 2 * BitOf(reg, 6) + 4 * BitOf(reg, 5) + 8 * BitOf(reg, 4)
    + 16 * BitOf(reg, 3) + 32 * BitOf(reg, 2) + 64 * BitOf(reg, 1) + 128 * BitOf(reg, 0)

Commands == {3, 5, 7}

High(word) == word \div 256
Low(word) == word % 256

\* Bits of data in the answer to a command: a byte for the register, two for a reading.
Width(cmd) == IF cmd = 7 THEN 8 ELSE 16

\* What the checksum is computed of.
Checksum(cmd, word, reg) ==
  Remainder(IF cmd = 7 THEN <<cmd, Low(word)>> ELSE <<cmd, High(word), Low(word)>>, Seed(reg))

\* The bits sent: the data's highest bit first, the checksum's lowest.
Stream(cmd, word, reg) ==
  LET checksum == Checksum(cmd, word, reg)
  IN [i \in 1..Width(cmd) + 8 |->
        IF i <= Width(cmd) THEN BitOf(word, Width(cmd) - i)
                           ELSE BitOf(checksum, i - Width(cmd) - 1)]

-----------------------------------------------------------------------------
(* The driver *)

VARIABLES
  command,   \* the command byte
  register,  \* the sensor's register
  stream,    \* the bits the sensor sends
  flips,     \* positions damaged so far
  n,         \* bits received
  data, crc, \* device.data, device.crc
  status     \* device.status, of which device.crc_init is the reverse
vars == <<command, register, stream, flips, n, data, crc, status>>

DataBits == Width(command)

Init ==
  /\ command \in Commands
  /\ register \in Registers
  /\ status \in Registers
  /\ \E reading \in Readings :
       stream = Stream(command, IF command = 7 THEN register ELSE reading, register)
  /\ flips = {}
  /\ n = 0
  /\ data = 0
  /\ crc = 0

\* Bits shifted into the wrong end.
ShiftInHigh(word, width, bit) == word \div 2 + bit * 2^(width - 1)

\* device.data <<= 1; device.data |= input; of a uint16_t, and of a uint8_t.
ShiftIn(word, width, bit) == (2 * word + bit) % 2^width

\* A bit of the answer or of the checksum is sampled, perhaps damaged.
Receive ==
  /\ n < Len(stream)
  /\ n' = n + 1
  /\ \E flip \in 0..1 :
       LET bit == (stream[n + 1] + flip) % 2
       IN /\ flip = 1 => Cardinality(flips) < MaxFlips /\ status = register
          /\ flips' = IF flip = 1 THEN flips \cup {n + 1} ELSE flips
          /\ IF n < DataBits
             THEN data' = ShiftIn(data, 16, bit) /\ UNCHANGED crc
             ELSE crc' = ShiftIn(crc, 8, bit) /\ UNCHANGED data
  /\ UNCHANGED <<command, register, stream, status>>

Next == Receive

Spec == Init /\ [][Next]_vars

\* The local arrays of sht1x_sensor_read() and sht1x_status_read().
Accepted ==
  LET last == sht1x_reverse_bits(crc)
      bytes == IF command = 7 THEN <<7, Low(data), last>>
               ELSE <<command, High(data), Low(data), last>>
  IN sht1x_crc(bytes, sht1x_reverse_bits(status)) = 0

-----------------------------------------------------------------------------
(* Properties *)

\* Each of the 256 entries is the remainder of its index by the polynomial in the
\* comment on crc8_lut.
TableIsPolynomial ==
  n = 0 => \A b \in Byte : crc8_lut[b + 1] = AddBits(0, b)

\* An answer is accepted exactly if it is the one sent and driver and sensor agree
\* about the register the checksum starts from: up to MaxFlips damaged bits, or a
\* stale seed, are always noticed, although a byte of the register reaches the checksum reversed
\* and the checksum itself arrives in the reverse order.
AcceptedIffIntact ==
  n = Len(stream) => (Accepted <=> flips = {} /\ status = register)

\* An undamaged answer ends up in device.data as the number the sensor sent, with
\* nothing of it pushed out at the top.
DataArrives ==
  n = Len(stream) /\ flips = {} =>
    /\ data < 2^DataBits
    /\ \A i \in 1..DataBits : BitOf(data, DataBits - i) = stream[i]
=============================================================================
