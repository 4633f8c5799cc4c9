------------------------------- MODULE Crc32c -------------------------------
(***************************************************************************)
(* CRC-32C at the two ends of an upload.  The client has its own copy of   *)
(* the code (client/src/data/crc32c.cpp) and so has the backend            *)
(* (backend/src/common/crc32c.cpp); verify_crc32c compares what they       *)
(* compute, the client of its buffer, the backend of what it received.     *)
(*                                                                         *)
(* A word is the set of the bits that are 1, bit 0 the lowest.             *)
(***************************************************************************)
EXTENDS Integers, Sequences

CONSTANTS
  Messages,  \* the contents of the client's buffer: sequences of bytes
  Flips      \* what the transfer may do to a byte: the bits it inverts

Byte == SUBSET (0 .. 7)

ASSUME CrcAssumption ==
  /\ \A m \in Messages : m \in Seq(Byte)
  /\ Flips \subseteq Byte /\ {} \in Flips

VARIABLES
  message,   \* the bytes of the device buffer
  received,  \* the bytes the backend has read
  errors,    \* the positions in the stream of the bits that were inverted
  local,     \* the state of the client's Crc32cUpdate over those bytes of its
             \* buffer that the backend has read
  remote     \* the state of the backend's over what it has read

crcVars == <<message, received, errors, local, remote>>

Xor(x, y) == (x \ y) \cup (y \ x)
Shr(x, n) == {b - n : b \in {c \in x : c >= n}}
Ones == 0 .. 31

\* A word from its hexadecimal digits.
Hex(digits) ==
  LET n == Len(digits)
      One(d, j) == (d \div 2^j) % 2 = 1
  IN  UNION {{4 * (n - k) + j : j \in {i \in 0 .. 3 : One(digits[k], i)}} :
               k \in 1 .. n}

-----------------------------------------------------------------------------
(* Variants of operations below with a plausible mistake in them.  The     *)
(* specification does not use them; they show that the properties notice.  *)

\* One end takes the polynomial as it is written, not reflected.
NotReflected == Hex(<<1, 14, 13, 12, 6, 15, 4, 1>>)

\* The round tests the highest bit, as the form that is not reflected does.
RoundHighBit(poly, c) == IF 31 \in c THEN Xor(Shr(c, 1), poly) ELSE Shr(c, 1)

-----------------------------------------------------------------------------
(* The client's copy *)
kPoly == Hex(<<8, 2, 15, 6, 3, 11, 7, 8>>)

\* One of the eight rounds of MakeTable.
Round(poly, c) == IF 0 \in c THEN Xor(Shr(c, 1), poly) ELSE Shr(c, 1)

TwoRounds(poly, c) == Round(poly, Round(poly, c))
FourRounds(poly, c) == TwoRounds(poly, TwoRounds(poly, c))
EightRounds(poly, c) == FourRounds(poly, FourRounds(poly, c))

MakeTable(poly) == [i \in Byte |-> EightRounds(poly, i)]

kTable == MakeTable(kPoly)

Crc32cInit == Ones
Crc32cByte(s, byte) == Xor(Shr(s, 8), kTable[Xor(s, byte) \cap (0 .. 7)])
Crc32cUpdate(s, bytes) ==
  LET state[i \in 0 .. Len(bytes)] ==
        IF i = 0 THEN s ELSE Crc32cByte(state[i - 1], bytes[i])
  IN  state[Len(bytes)]
Crc32cFinalize(s) == Xor(s, Ones)

Crc32c(bytes) == Crc32cFinalize(Crc32cUpdate(Crc32cInit, bytes))

-----------------------------------------------------------------------------
(* The backend's copy *)
GatewayPoly == Hex(<<8, 2, 15, 6, 3, 11, 7, 8>>)

GatewayRound(c) ==
  IF 0 \in c THEN Xor(Shr(c, 1), GatewayPoly) ELSE Shr(c, 1)

GatewayTwoRounds(c) == GatewayRound(GatewayRound(c))
GatewayFourRounds(c) == GatewayTwoRounds(GatewayTwoRounds(c))

GatewayMakeTable ==
  [i \in Byte |-> GatewayFourRounds(GatewayFourRounds(i))]

GatewayTable == GatewayMakeTable

GatewayInit == Ones
GatewayByte(s, byte) ==
  Xor(Shr(s, 8), GatewayTable[Xor(s, byte) \cap (0 .. 7)])
GatewayUpdate(s, bytes) ==
  LET state[i \in 0 .. Len(bytes)] ==
        IF i = 0 THEN s ELSE GatewayByte(state[i - 1], bytes[i])
  IN  state[Len(bytes)]
GatewayFinalize(s) == Xor(s, Ones)

Gateway(bytes) == GatewayFinalize(GatewayUpdate(GatewayInit, bytes))

-----------------------------------------------------------------------------
(* The transfer: each byte arrives with some of its bits inverted, all of  *)
(* them within 32 bits of the stream.  Each end has its loop over the      *)
(* bytes; an iteration of both is part of the step.                        *)

Burst(bits) == \A a, b \in bits : a - b < 32

CrcInit ==
  /\ message \in Messages
  /\ received = <<>> /\ errors = {}
  /\ local = Crc32cInit /\ remote = GatewayInit

Transfer(flip) ==
  LET i == Len(received)
      b == message[i + 1]
  IN  /\ i < Len(message)
      /\ errors' = errors \cup {8 * i + j : j \in flip}
      /\ Burst(errors')
      /\ received' = Append(received, Xor(b, flip))
      /\ local' = Crc32cByte(local, b)
      /\ remote' = GatewayByte(remote, Xor(b, flip))
      /\ UNCHANGED message

Complete == Len(received) = Len(message) /\ UNCHANGED crcVars

CrcNext == (\E flip \in Flips : Transfer(flip)) \/ Complete

CrcSpec == CrcInit /\ [][CrcNext]_crcVars

-----------------------------------------------------------------------------
(* The reference: division of polynomials over the field of two elements.  *)
(* A polynomial is the set of its exponents.                               *)

\* x^32 and 0x1EDC6F41
Castagnoli == {32} \cup Hex(<<1, 14, 13, 12, 6, 15, 4, 1>>)

\* A step of the division: no term of degree d is left.
Divide(q, d) ==
  IF d \in q THEN Xor(q, {e + d - 32 : e \in Castagnoli}) ELSE q

Remainder(p, degree) ==
  LET r[d \in 31 .. degree] ==
        IF d = degree THEN p ELSE Divide(r[d + 1], d + 1)
  IN  r[31]

\* The lowest bit of the first byte is the highest power, and x^32 follows the
\* last bit.
Polynomial(bytes) ==
  LET n == 8 * Len(bytes)
  IN  UNION {{n + 31 - (8 * (i - 1) + j) : j \in bytes[i]} :
               i \in 1 .. Len(bytes)}

\* The first 32 bits are inverted, and so is the remainder, which is read from
\* the other end.
Reference(bytes) ==
  LET n == 8 * Len(bytes)
      R == Remainder(Xor(Polynomial(bytes), n .. n + 31), n + 31)
  IN  Xor({31 - e : e \in R}, Ones)

-----------------------------------------------------------------------------
(* Properties *)

\* What the client has sent so far.
Sent == SubSeq(message, 1, Len(received))

\* After every byte the checksums of both ends, of all bytes at once and from
\* the states they keep, are the remainder that defines CRC-32C: the table of
\* 256 words and taking the bytes in parts change nothing.
StreamIsCrc ==
  /\ Crc32c(Sent) = Reference(Sent)
  /\ Crc32cFinalize(local) = Reference(Sent)
  /\ Gateway(received) = Reference(received)
  /\ GatewayFinalize(remote) = Reference(received)

\* client.cpp: local and remote are equal when every byte arrived as it was
\* sent, and differ when bits were inverted, in whatever way, within 32 bits
\* of the stream: verify_crc32c raises no false alarm and misses no burst.
BurstDetected ==
  Crc32cFinalize(local) = GatewayFinalize(remote) <=> errors = {}
=============================================================================
