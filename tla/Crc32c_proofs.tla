---------------------------- MODULE Crc32c_proofs ----------------------------
(***************************************************************************)
(* Proofs about the checksum, for messages of every length: the table      *)
(* stands for eight rounds, the rounds are linear, and an error within 32  *)
(* bits of the stream leaves a trace in the state that later bytes do not  *)
(* remove; a round is a step of the division of polynomials, so that the   *)
(* loop over the bytes computes the remainder.                             *)
(***************************************************************************)
EXTENDS Crc32c, WellFoundedInduction, TLAPS

Word == SUBSET Ones

-----------------------------------------------------------------------------
(* Words *)

LEMMA XorMember ==
  ASSUME NEW x, NEW y, NEW e
  PROVE  e \in Xor(x, y) <=> ~(e \in x <=> e \in y)
BY DEF Xor

\* x ^ y is 0 for equal words only.
LEMMA XorZero ==
  ASSUME NEW x, NEW y
  PROVE  Xor(x, y) = {} <=> x = y
<1>1. Xor(x, y) = {} => \A e : e \in x <=> e \in y
  BY XorMember
<1> QED BY <1>1 DEF Xor

LEMMA ShrMember ==
  ASSUME NEW x \in SUBSET Nat, NEW n \in Nat, NEW e
  PROVE  e \in Shr(x, n) <=> e \in Nat /\ e + n \in x
<1>1. ASSUME e \in Shr(x, n) PROVE e \in Nat /\ e + n \in x
  BY <1>1 DEF Shr
<1>2. ASSUME e \in Nat, e + n \in x PROVE e \in Shr(x, n)
  <2>1. e + n >= n /\ e = (e + n) - n
    BY <1>2
  <2> QED BY <1>2, <2>1 DEF Shr
<1> QED BY <1>1, <1>2

LEMMA ShrTwice ==
  ASSUME NEW x \in SUBSET Nat, NEW m \in Nat, NEW n \in Nat, NEW k \in Nat,
         k = m + n
  PROVE  Shr(Shr(x, m), n) = Shr(x, k)
<1>1. Shr(x, m) \in SUBSET Nat
  BY ShrMember
<1>2. ASSUME NEW e PROVE e \in Shr(Shr(x, m), n) <=> e \in Shr(x, k)
  <2>1. e \in Shr(Shr(x, m), n) <=> e \in Nat /\ e + n \in Shr(x, m)
    BY <1>1, ShrMember
  <2>2. e \in Nat => (e + n \in Shr(x, m) <=> (e + n) + m \in x)
    BY ShrMember
  <2>3. e \in Nat => e + k = (e + n) + m
    OBVIOUS
  <2>4. e \in Shr(x, k) <=> e \in Nat /\ e + k \in x
    BY ShrMember
  <2> QED BY <2>1, <2>2, <2>3, <2>4
<1> QED BY <1>1, <1>2

\* The polynomial has 32 bits and its highest is 1.
LEMMA PolyTypes ==
  /\ kPoly \in Word /\ 31 \in kPoly /\ GatewayPoly = kPoly
  /\ kPoly \in SUBSET Nat
<1> DEFINE digits == <<8, 2, 15, 6, 3, 11, 7, 8>>
           One(d, j) == (d \div 2^j) % 2 = 1
<1>1. Len(digits) = 8 /\ digits[1] = 8
  OBVIOUS
<1>2. kPoly = UNION {{4 * (8 - k) + j : j \in {i \in 0 .. 3 : One(digits[k], i)}} :
                       k \in 1 .. 8}
  BY <1>1 DEF kPoly, Hex
<1>3. ASSUME NEW k \in 1 .. 8, NEW j \in 0 .. 3
      PROVE  4 * (8 - k) + j \in 0 .. 31
  OBVIOUS
<1> HIDE DEF digits
<1>4. kPoly \in Word
  BY <1>2, <1>3 DEF Word, Ones
<1>5. 31 \in kPoly
  <2>1. One(digits[1], 3)
    BY <1>1
  <2>2. 3 \in {i \in 0 .. 3 : One(digits[1], i)} /\ 4 * (8 - 1) + 3 = 31
    BY <2>1
  <2> HIDE DEF One
  <2>3. 31 \in {4 * (8 - 1) + j : j \in {i \in 0 .. 3 : One(digits[1], i)}}
    BY <2>2
  <2> QED BY <1>2, <2>3
<1> QED BY <1>4, <1>5 DEF kPoly, GatewayPoly, Word, Ones

\* The backend's copy of MakeTable computes the table of the client's.
LEMMA TablesAgree == GatewayTable = kTable
<1>1. GatewayPoly = kPoly
  BY DEF GatewayPoly, kPoly
<1>2. ASSUME NEW c PROVE GatewayRound(c) = Round(kPoly, c)
  BY <1>1 DEF GatewayRound, Round
<1>3. ASSUME NEW c PROVE GatewayTwoRounds(c) = TwoRounds(kPoly, c)
  BY <1>2 DEF GatewayTwoRounds, TwoRounds
<1>4. ASSUME NEW c PROVE GatewayFourRounds(c) = FourRounds(kPoly, c)
  BY <1>3 DEF GatewayFourRounds, FourRounds
<1>5. ASSUME NEW i
      PROVE  GatewayFourRounds(GatewayFourRounds(i)) = EightRounds(kPoly, i)
  BY <1>4 DEF EightRounds
<1> QED BY <1>5 DEF GatewayTable, GatewayMakeTable, kTable, MakeTable

-----------------------------------------------------------------------------
(* Rounds *)

\* Bit e after a round, in terms of the bits before it.
LEMMA RoundMember ==
  ASSUME NEW poly \in SUBSET Nat, NEW c \in SUBSET Nat, NEW e
  PROVE  e \in Round(poly, c) <=>
           e \in Nat /\ ~(e + 1 \in c <=> 0 \in c /\ e \in poly)
<1>1. e \in Shr(c, 1) <=> e \in Nat /\ e + 1 \in c
  BY ShrMember
<1>2. e \in poly => e \in Nat
  OBVIOUS
<1>3. CASE 0 \in c
  <2>1. e \in Xor(Shr(c, 1), poly) <=> ~(e \in Shr(c, 1) <=> e \in poly)
    BY XorMember
  <2>2. Round(poly, c) = Xor(Shr(c, 1), poly)
    BY <1>3 DEF Round
  <2> QED BY <1>1, <1>2, <1>3, <2>1, <2>2
<1>4. CASE 0 \notin c
  <2>1. Round(poly, c) = Shr(c, 1)
    BY <1>4 DEF Round
  <2> QED BY <1>1, <1>4, <2>1
<1> QED BY <1>3, <1>4

LEMMA RoundTypes ==
  ASSUME NEW poly \in SUBSET Nat, NEW c \in SUBSET Nat
  PROVE  /\ Round(poly, c) \in SUBSET Nat
         /\ poly \in Word /\ c \in Word => Round(poly, c) \in Word
<1>1. Round(poly, c) \in SUBSET Nat
  BY RoundMember
<1>2. ASSUME poly \in Word, c \in Word, NEW e \in Round(poly, c)
      PROVE  e \in Ones
  <2>1. e \in Nat /\ (e + 1 \in c \/ e \in poly)
    BY RoundMember
  <2> QED BY <1>2, <2>1 DEF Word, Ones
<1> QED BY <1>1, <1>2 DEF Word

LEMMA RoundsTypes ==
  ASSUME NEW poly \in SUBSET Nat, NEW c \in SUBSET Nat
  PROVE  /\ TwoRounds(poly, c) \in SUBSET Nat
         /\ FourRounds(poly, c) \in SUBSET Nat
         /\ EightRounds(poly, c) \in SUBSET Nat
         /\ poly \in Word /\ c \in Word =>
              /\ TwoRounds(poly, c) \in Word /\ FourRounds(poly, c) \in Word
              /\ EightRounds(poly, c) \in Word
<1>1. \A x \in SUBSET Nat :
        /\ TwoRounds(poly, x) \in SUBSET Nat
        /\ poly \in Word /\ x \in Word => TwoRounds(poly, x) \in Word
  BY RoundTypes DEF TwoRounds
<1>2. \A x \in SUBSET Nat :
        /\ FourRounds(poly, x) \in SUBSET Nat
        /\ poly \in Word /\ x \in Word => FourRounds(poly, x) \in Word
  BY <1>1 DEF FourRounds
<1> QED BY <1>1, <1>2 DEF EightRounds

\* A round is linear ...
LEMMA RoundLinear ==
  ASSUME NEW poly \in SUBSET Nat, NEW x \in SUBSET Nat, NEW y \in SUBSET Nat
  PROVE  /\ Xor(x, y) \in SUBSET Nat
         /\ Round(poly, Xor(x, y)) = Xor(Round(poly, x), Round(poly, y))
<1>1. Xor(x, y) \in SUBSET Nat
  BY DEF Xor
<1>2. ASSUME NEW e
      PROVE  e \in Round(poly, Xor(x, y))
               <=> e \in Xor(Round(poly, x), Round(poly, y))
  <2>1. e \in Round(poly, Xor(x, y)) <=>
          /\ e \in Nat
          /\ ~(e + 1 \in Xor(x, y) <=> 0 \in Xor(x, y) /\ e \in poly)
    BY <1>1, RoundMember
  <2>2. /\ e + 1 \in Xor(x, y) <=> ~(e + 1 \in x <=> e + 1 \in y)
        /\ 0 \in Xor(x, y) <=> ~(0 \in x <=> 0 \in y)
    BY XorMember
  <2>3. /\ e \in Round(poly, x) <=>
             e \in Nat /\ ~(e + 1 \in x <=> 0 \in x /\ e \in poly)
        /\ e \in Round(poly, y) <=>
             e \in Nat /\ ~(e + 1 \in y <=> 0 \in y /\ e \in poly)
    BY RoundMember
  <2>4. e \in Xor(Round(poly, x), Round(poly, y)) <=>
          ~(e \in Round(poly, x) <=> e \in Round(poly, y))
    BY XorMember
  <2> QED BY <2>1, <2>2, <2>3, <2>4
<1> QED BY <1>1, <1>2

\* ... and so are eight.
LEMMA EightLinear ==
  ASSUME NEW poly \in SUBSET Nat, NEW x \in SUBSET Nat, NEW y \in SUBSET Nat
  PROVE  EightRounds(poly, Xor(x, y))
           = Xor(EightRounds(poly, x), EightRounds(poly, y))
<1>1. ASSUME NEW u \in SUBSET Nat, NEW v \in SUBSET Nat
      PROVE  TwoRounds(poly, Xor(u, v))
               = Xor(TwoRounds(poly, u), TwoRounds(poly, v))
  <2>1. Round(poly, u) \in SUBSET Nat /\ Round(poly, v) \in SUBSET Nat
    BY RoundTypes
  <2>2. Round(poly, Xor(u, v)) = Xor(Round(poly, u), Round(poly, v))
    BY RoundLinear
  <2>3. Round(poly, Xor(Round(poly, u), Round(poly, v)))
          = Xor(Round(poly, Round(poly, u)), Round(poly, Round(poly, v)))
    BY <2>1, RoundLinear
  <2> QED BY <2>2, <2>3 DEF TwoRounds
<1>2. ASSUME NEW u \in SUBSET Nat, NEW v \in SUBSET Nat
      PROVE  FourRounds(poly, Xor(u, v))
               = Xor(FourRounds(poly, u), FourRounds(poly, v))
  <2>1. TwoRounds(poly, u) \in SUBSET Nat /\ TwoRounds(poly, v) \in SUBSET Nat
    BY RoundsTypes
  <2>2. TwoRounds(poly, Xor(TwoRounds(poly, u), TwoRounds(poly, v)))
          = Xor(TwoRounds(poly, TwoRounds(poly, u)),
                TwoRounds(poly, TwoRounds(poly, v)))
    BY <1>1, <2>1
  <2> QED BY <1>1, <2>2 DEF FourRounds
<1>3. FourRounds(poly, x) \in SUBSET Nat /\ FourRounds(poly, y) \in SUBSET Nat
  BY RoundsTypes
<1>4. FourRounds(poly, Xor(FourRounds(poly, x), FourRounds(poly, y)))
        = Xor(FourRounds(poly, FourRounds(poly, x)),
              FourRounds(poly, FourRounds(poly, y)))
  BY <1>2, <1>3
<1> QED BY <1>2, <1>4 DEF EightRounds

\* While no bit is shifted out, a round is a shift.
LEMMA EightShift ==
  ASSUME NEW poly \in SUBSET Nat, NEW x \in SUBSET Nat,
         \A e \in 0 .. 7 : e \notin x
  PROVE  EightRounds(poly, x) = Shr(x, 8)
<1>1. ASSUME NEW y \in SUBSET Nat, \A e \in 0 .. 1 : e \notin y
      PROVE  TwoRounds(poly, y) = Shr(y, 2)
  <2>1. 0 \notin y /\ 0 + 1 \notin y
    BY <1>1
  <2>2. 0 \in Shr(y, 1) <=> 0 \in Nat /\ 0 + 1 \in y
    BY ShrMember
  <2>3. Round(poly, y) = Shr(y, 1) /\ 0 \notin Shr(y, 1)
    BY <2>1, <2>2 DEF Round
  <2>4. Shr(Shr(y, 1), 1) = Shr(y, 2)
    BY ShrTwice
  <2> QED BY <2>3, <2>4 DEF TwoRounds, Round
<1>2. ASSUME NEW y \in SUBSET Nat, \A e \in 0 .. 3 : e \notin y
      PROVE  FourRounds(poly, y) = Shr(y, 4)
  <2>1. TwoRounds(poly, y) = Shr(y, 2)
    BY <1>1, <1>2
  <2>2. ASSUME NEW e \in 0 .. 1 PROVE e \notin Shr(y, 2)
    <3>1. e \in Shr(y, 2) <=> e \in Nat /\ e + 2 \in y
      BY ShrMember
    <3> QED BY <1>2, <3>1
  <2>3. Shr(Shr(y, 2), 2) = Shr(y, 4)
    BY ShrTwice
  <2>4. Shr(y, 2) \in SUBSET Nat
    BY ShrMember
  <2> QED BY <1>1, <2>1, <2>2, <2>3, <2>4 DEF FourRounds
<1>3. FourRounds(poly, x) = Shr(x, 4)
  BY <1>2
<1>4. ASSUME NEW e \in 0 .. 3 PROVE e \notin Shr(x, 4)
  <2>1. e \in Shr(x, 4) <=> e \in Nat /\ e + 4 \in x
    BY ShrMember
  <2> QED BY <2>1
<1>5. Shr(Shr(x, 4), 4) = Shr(x, 8)
  BY ShrTwice
<1>6. Shr(x, 4) \in SUBSET Nat
  BY ShrMember
<1> QED BY <1>2, <1>3, <1>4, <1>5, <1>6 DEF EightRounds

-----------------------------------------------------------------------------
(* A byte *)

\* The loop of Crc32cUpdate: looking the lowest byte up in the table does what
\* eight rounds of the whole word do, for every state and byte.
THEOREM ByteIsRounds ==
  ASSUME NEW s \in Word, NEW byte \in Byte
  PROVE  /\ Crc32cByte(s, byte) = EightRounds(kPoly, Xor(s, byte))
         /\ GatewayByte(s, byte) = EightRounds(kPoly, Xor(s, byte))
         /\ Xor(s, byte) \in Word
<1> DEFINE x == Xor(s, byte)
           lo == x \cap (0 .. 7)
           hi == x \ (0 .. 7)
<1>1. s \in SUBSET Nat /\ byte \in SUBSET Nat /\ x \in Word
  BY DEF Word, Ones, Byte, Xor
<1>2. x \in SUBSET Nat /\ hi \in SUBSET Nat /\ lo \in SUBSET Nat /\ lo \in Byte
  BY <1>1 DEF Xor, Byte
<1>3. x = Xor(hi, lo)
  <2> HIDE DEF x
  <2> QED BY DEF Xor
<1>4. \A e \in 0 .. 7 : e \notin hi
  OBVIOUS
<1>5. Shr(hi, 8) = Shr(s, 8)
  <2>1. ASSUME NEW e PROVE e \in Shr(hi, 8) <=> e \in Shr(s, 8)
    <3>1. /\ e \in Shr(hi, 8) <=> e \in Nat /\ e + 8 \in hi
          /\ e \in Shr(s, 8) <=> e \in Nat /\ e + 8 \in s
      BY <1>1, <1>2, ShrMember
    <3>2. e + 8 \in x <=> ~(e + 8 \in s <=> e + 8 \in byte)
      BY XorMember
    <3>3. e \in Nat => e + 8 \notin byte /\ e + 8 \notin 0 .. 7
      BY DEF Byte
    <3> QED BY <3>1, <3>2, <3>3
  <2> QED BY <2>1
<1>6. EightRounds(kPoly, hi) = Shr(s, 8)
  <2> HIDE DEF hi
  <2> QED BY <1>2, <1>4, <1>5, PolyTypes, EightShift
<1>7. EightRounds(kPoly, Xor(hi, lo))
        = Xor(EightRounds(kPoly, hi), EightRounds(kPoly, lo))
  <2> HIDE DEF hi, lo
  <2> QED BY <1>2, PolyTypes, EightLinear
<1>8. kTable[lo] = EightRounds(kPoly, lo) /\ GatewayTable = kTable
  <2> HIDE DEF lo
  <2> QED BY <1>2, TablesAgree DEF kTable, MakeTable
<1>9. /\ Crc32cByte(s, byte) = Xor(Shr(s, 8), kTable[lo])
      /\ GatewayByte(s, byte) = Xor(Shr(s, 8), GatewayTable[lo])
  BY DEF Crc32cByte, GatewayByte
<1> HIDE DEF x, lo, hi
<1>10. EightRounds(kPoly, x) = Xor(Shr(s, 8), EightRounds(kPoly, lo))
  BY <1>3, <1>6, <1>7
<1> QED BY <1>1, <1>8, <1>9, <1>10 DEF x

\* Two states and the bytes they take: the difference after them depends on
\* the difference before them and that of the bytes only.
LEMMA DifferenceStep ==
  ASSUME NEW s \in Word, NEW t \in Word, NEW byte \in Byte, NEW flip \in Byte
  PROVE  /\ Xor(byte, flip) \in Byte
         /\ Crc32cByte(s, byte) \in Word
         /\ GatewayByte(t, Xor(byte, flip)) \in Word
         /\ Xor(s, t) \in Word /\ Xor(Xor(s, t), flip) \in Word
         /\ Xor(Crc32cByte(s, byte), GatewayByte(t, Xor(byte, flip)))
              = EightRounds(kPoly, Xor(Xor(s, t), flip))
<1> DEFINE other == Xor(byte, flip)
           x == Xor(s, byte)
           y == Xor(t, other)
<1>1. other \in Byte
  BY DEF Byte, Xor
<1>2. /\ Crc32cByte(s, byte) = EightRounds(kPoly, x)
      /\ GatewayByte(t, other) = EightRounds(kPoly, y)
      /\ x \in Word /\ y \in Word
  <2> HIDE DEF other
  <2> QED BY <1>1, ByteIsRounds
<1>3. Xor(s, t) \in Word /\ Xor(Xor(s, t), flip) \in Word
  BY DEF Word, Ones, Byte, Xor
<1>4. Xor(x, y) = Xor(Xor(s, t), flip)
  BY DEF Xor
<1>5. \A z \in Word : z \in SUBSET Nat
  BY DEF Word, Ones
<1> HIDE DEF x, y
<1>6. EightRounds(kPoly, Xor(x, y))
        = Xor(EightRounds(kPoly, x), EightRounds(kPoly, y))
  BY <1>2, <1>5, PolyTypes, EightLinear
<1>7. EightRounds(kPoly, x) \in Word /\ EightRounds(kPoly, y) \in Word
  BY <1>2, <1>5, PolyTypes, RoundsTypes
<1> QED BY <1>1, <1>2, <1>3, <1>4, <1>6, <1>7 DEF other

-----------------------------------------------------------------------------
(* The trace of an error *)

\* d is the difference of the two states.  Bits of the stream that are yet to
\* come count from 0, and those below r may still be inverted.  A bit of d from
\* r on is out of their reach; before the window has moved to the first
\* inverted bit, that bit is at r - 32 and the lowest of d.
Survives(d, r) ==
  \/ \E e \in d : e >= r
  \/ /\ r >= 32 /\ r - 32 \in d
     /\ \A e \in d : e >= r - 32

\* A round moves the window by one.  When a bit is shifted out the polynomial
\* puts a 1 into the highest bit, which is not within reach.
LEMMA RoundSurvives ==
  ASSUME NEW d \in Word, NEW r \in Int, Survives(d, r)
  PROVE  Survives(Round(kPoly, d), r - 1)
<1>1. d \in SUBSET Nat /\ d \subseteq 0 .. 31
  BY DEF Word, Ones
<1>2. \A e \in Nat : e \in Round(kPoly, d) <=>
                       ~(e + 1 \in d <=> 0 \in d /\ e \in kPoly)
  BY <1>1, PolyTypes, RoundMember
<1>3. CASE 0 \in d
  <2>1. 31 \in Round(kPoly, d)
    <3>1. 31 + 1 \notin d
      BY <1>1
    <3> QED BY <1>2, <1>3, <3>1, PolyTypes
  <2>2. r <= 32
    BY <1>1, <1>3 DEF Survives
  <2> QED BY <2>1, <2>2 DEF Survives
<1>4. CASE 0 \notin d
  <2>1. \A e \in Nat : e \in Round(kPoly, d) <=> e + 1 \in d
    BY <1>2, <1>4
  <2>2. \A e \in d : e \in Nat /\ e >= 1 /\ e - 1 \in Round(kPoly, d)
    BY <1>1, <1>4, <2>1
  <2>3. CASE \E e \in d : e >= r
    BY <2>2, <2>3 DEF Survives
  <2>4. CASE r >= 32 /\ r - 32 \in d /\ \A e \in d : e >= r - 32
    <3>1. r - 32 >= 1 /\ (r - 1) - 32 \in Round(kPoly, d)
      BY <2>2, <2>4
    <3>2. Round(kPoly, d) \in SUBSET Nat
      BY <1>1, PolyTypes, RoundTypes
    <3>3. \A e \in Round(kPoly, d) : e >= (r - 1) - 32
      BY <2>1, <2>4, <3>2
    <3> QED BY <3>1, <3>3 DEF Survives
  <2> QED BY <2>3, <2>4 DEF Survives
<1> QED BY <1>3, <1>4

LEMMA EightSurvives ==
  ASSUME NEW d \in Word, NEW r \in Int, Survives(d, r)
  PROVE  Survives(EightRounds(kPoly, d), r - 8)
<1>0. \A c \in Word : c \in SUBSET Nat
  BY DEF Word, Ones
<1>1. ASSUME NEW c \in Word, NEW q \in Int, Survives(c, q)
      PROVE  TwoRounds(kPoly, c) \in Word /\ Survives(TwoRounds(kPoly, c), q - 2)
  <2>1. Round(kPoly, c) \in Word /\ TwoRounds(kPoly, c) \in Word
    BY <1>0, PolyTypes, RoundTypes, RoundsTypes
  <2>2. Survives(Round(kPoly, c), q - 1) /\ q - 1 \in Int
    BY <1>1, RoundSurvives
  <2>3. Survives(Round(kPoly, Round(kPoly, c)), (q - 1) - 1)
    BY <2>1, <2>2, RoundSurvives
  <2>4. (q - 1) - 1 = q - 2
    OBVIOUS
  <2> QED BY <2>1, <2>3, <2>4 DEF TwoRounds
<1>2. ASSUME NEW c \in Word, NEW q \in Int, Survives(c, q)
      PROVE  /\ FourRounds(kPoly, c) \in Word
             /\ Survives(FourRounds(kPoly, c), q - 4)
  <2>1. /\ TwoRounds(kPoly, c) \in Word /\ q - 2 \in Int
        /\ Survives(TwoRounds(kPoly, c), q - 2)
    BY <1>1, <1>2
  <2>2. /\ TwoRounds(kPoly, TwoRounds(kPoly, c)) \in Word
        /\ Survives(TwoRounds(kPoly, TwoRounds(kPoly, c)), (q - 2) - 2)
    BY <1>1, <2>1
  <2>3. (q - 2) - 2 = q - 4
    OBVIOUS
  <2> QED BY <2>2, <2>3 DEF FourRounds
<1>3. /\ FourRounds(kPoly, d) \in Word /\ r - 4 \in Int
      /\ Survives(FourRounds(kPoly, d), r - 4)
  BY <1>2
<1>4. Survives(FourRounds(kPoly, FourRounds(kPoly, d)), (r - 4) - 4)
  BY <1>2, <1>3
<1>5. (r - 4) - 4 = r - 8
  OBVIOUS
<1> QED BY <1>4, <1>5 DEF EightRounds

-----------------------------------------------------------------------------
(* The transfer *)

CrcTypeOK ==
  /\ message \in Seq(Byte)
  /\ Len(received) \in Nat /\ Len(received) <= Len(message)
  /\ received \in Seq(Byte)
  /\ local \in Word /\ remote \in Word

\* The inverted bits belong to bytes that were read, and are near each other.
ErrorsBehind ==
  /\ errors \subseteq 0 .. (8 * Len(received) - 1)
  /\ Burst(errors)

\* Without an error both ends are in the same state.
SameState == errors = {} => local = remote

\* With errors, the last bits that may still be inverted, those less than 32
\* after the first error, cannot make the states equal again.
ErrorVisible ==
  errors # {} =>
    \E p \in errors :
      /\ \A e \in errors : p <= e
      /\ Survives(Xor(local, remote), p + 32 - 8 * Len(received))

CrcInv == CrcTypeOK /\ ErrorsBehind /\ SameState /\ ErrorVisible

\* A difference that survives is one.
LEMMA SurvivesDiffers ==
  ASSUME NEW x, NEW y, NEW r \in Int, Survives(Xor(x, y), r)
  PROVE  x # y
<1>1. Xor(x, y) # {}
  BY DEF Survives
<1> QED BY <1>1, XorZero

\* The first of the bits that are inverted in a byte.
LEMMA LowestBit ==
  ASSUME NEW flip \in Byte, flip # {}
  PROVE  \E j \in flip : \A k \in flip : j <= k
<1>1. flip \subseteq 0 .. 7
  BY DEF Byte
<1> DEFINE First(j) == j \in flip /\ \A k \in flip : j <= k
<1>2. CASE \E j \in flip : j < 4
  <2>1. First(0) \/ First(1) \/ First(2) \/ First(3)
    BY <1>1, <1>2
  <2> QED BY <2>1
<1>3. CASE \A j \in flip : j >= 4
  <2>1. PICK j \in flip : TRUE
    OBVIOUS
  <2>2. \A k \in flip : k = 4 \/ k = 5 \/ k = 6 \/ k = 7
    BY <1>1, <1>3
  <2>3. First(4) \/ First(5) \/ First(6) \/ First(7)
    BY <2>1, <2>2
  <2> QED BY <2>3
<1> QED BY <1>1, <1>2, <1>3

LEMMA InitCrcInv ==
  ASSUME CrcInit PROVE CrcInv
<1> USE CrcAssumption
<1>1. CrcTypeOK
  BY DEF CrcInit, CrcTypeOK, Word, Crc32cInit, GatewayInit
<1>2. ErrorsBehind /\ SameState /\ ErrorVisible
  BY DEF CrcInit, ErrorsBehind, SameState, ErrorVisible, Burst, Crc32cInit,
         GatewayInit
<1> QED BY <1>1, <1>2 DEF CrcInv

LEMMA TransferCrcInv ==
  ASSUME CrcInv, NEW flip \in Flips, Transfer(flip)
  PROVE  CrcInv'
<1> DEFINE i == Len(received)
           b == message[i + 1]
           D == Xor(local, remote)
           new == {8 * i + j : j \in flip}
<1> USE DEF CrcInv
<1>1. /\ flip \in Byte /\ flip \subseteq 0 .. 7
      /\ i \in Nat /\ i < Len(message) /\ Len(message) \in Nat
      /\ b \in Byte
  BY CrcAssumption DEF CrcTypeOK, Transfer, Byte
<1>2. /\ errors' = errors \cup new
      /\ Burst(errors')
      /\ received' = Append(received, Xor(b, flip))
      /\ local' = Crc32cByte(local, b)
      /\ remote' = GatewayByte(remote, Xor(b, flip))
      /\ message' = message
  BY DEF Transfer
<1>3. /\ Xor(b, flip) \in Byte
      /\ local' \in Word /\ remote' \in Word
      /\ D \in Word /\ Xor(D, flip) \in Word
      /\ Xor(local', remote') = EightRounds(kPoly, Xor(D, flip))
  <2> HIDE DEF b
  <2> QED BY <1>1, <1>2, DifferenceStep DEF CrcTypeOK
<1>4. received' \in Seq(Byte) /\ Len(received') = i + 1
  <2> HIDE DEF b
  <2> QED BY <1>2, <1>3 DEF CrcTypeOK
<1> HIDE DEF i, b, D
<1>5. CrcTypeOK'
  BY <1>1, <1>2, <1>3, <1>4 DEF CrcTypeOK
<1>6. /\ errors \subseteq 0 .. (8 * i - 1)
      /\ \A j \in flip : 8 * i + j \in 0 .. (8 * (i + 1) - 1)
  BY <1>1 DEF ErrorsBehind, i
<1>7. ErrorsBehind'
  <2>1. ASSUME NEW e \in errors' PROVE e \in 0 .. (8 * (i + 1) - 1)
    <3>1. CASE e \in errors
      BY <1>1, <1>6, <3>1
    <3>2. CASE e \in new
      BY <1>6, <3>2
    <3> QED BY <1>2, <3>1, <3>2
  <2> QED BY <1>2, <1>4, <2>1 DEF ErrorsBehind, Burst
<1>8. SameState'
  <2> SUFFICES ASSUME errors' = {} PROVE local' = remote'
    BY DEF SameState
  <2>1. errors = {} /\ flip = {}
    BY <1>2
  <2>2. local = remote /\ Xor(b, flip) = b
    BY <2>1 DEF SameState, Xor
  <2> QED BY <1>1, <1>2, <2>2, ByteIsRounds DEF CrcTypeOK
<1>9. ErrorVisible'
  <2> DEFINE r(p) == p + 32 - 8 * i
  <2>1. ASSUME NEW p \in errors', \A e \in errors' : p <= e,
               Survives(Xor(D, flip), r(p))
        PROVE  ErrorVisible'
    <3>1. p \in Int /\ r(p) \in Int
      BY <1>1, <1>2, <1>6
    <3> HIDE DEF r
    <3>2. Survives(Xor(local', remote'), r(p) - 8)
      BY <1>3, <2>1, <3>1, EightSurvives
    <3>3. r(p) - 8 = p + 32 - 8 * Len(received')
      BY <1>1, <1>4, <3>1 DEF r
    <3> QED BY <2>1, <3>2, <3>3 DEF ErrorVisible
  <2>2. CASE errors = {} /\ flip = {}
    BY <1>2, <2>2 DEF ErrorVisible
  <2>3. CASE errors = {} /\ flip # {}
    <3>1. PICK j \in flip : \A k \in flip : j <= k
      BY <1>1, <2>3, LowestBit
    <3>2. D = {}
      BY <2>3, XorZero DEF SameState, D
    <3>3. Xor(D, flip) = flip
      BY <3>2 DEF Xor
    <3>4. errors' = new
      BY <1>2, <2>3
    <3>5. 8 * i + j \in errors' /\ \A e \in errors' : 8 * i + j <= e
      BY <1>1, <3>1, <3>4
    <3>6. r(8 * i + j) = j + 32 /\ j \in Nat
      BY <1>1
    <3>7. Survives(flip, j + 32)
      BY <1>1, <3>1, <3>6 DEF Survives
    <3> QED BY <2>1, <3>3, <3>5, <3>6, <3>7
  <2>4. CASE errors # {}
    <3>1. PICK p \in errors : /\ \A e \in errors : p <= e
                              /\ Survives(D, r(p))
      BY <2>4 DEF ErrorVisible, D, i
    <3>2. p \in 0 .. (8 * i - 1) /\ r(p) \in Int /\ r(p) < 32
      BY <1>1, <1>6
    <3>3. p \in errors' /\ \A e \in errors' : p <= e
      BY <1>1, <1>2, <3>1, <3>2
    <3>4. ASSUME NEW j \in flip PROVE j < r(p)
      <4>1. 8 * i + j \in errors'
        BY <1>2
      <4>2. (8 * i + j) - p < 32
        BY <1>2, <3>3, <4>1 DEF Burst
      <4> QED BY <1>1, <3>2, <4>2
    <3>5. PICK e \in D : e >= r(p)
      BY <3>1, <3>2 DEF Survives
    <3>6. e \in Nat /\ e \notin flip
      BY <1>1, <1>3, <3>2, <3>4, <3>5 DEF Word, Ones
    <3>7. e \in Xor(D, flip)
      BY <3>5, <3>6, XorMember
    <3>8. Survives(Xor(D, flip), r(p))
      BY <3>5, <3>7 DEF Survives
    <3> QED BY <2>1, <3>3, <3>8
  <2> QED BY <2>2, <2>3, <2>4
<1> QED BY <1>5, <1>7, <1>8, <1>9

LEMMA StutterCrcInv ==
  ASSUME CrcInv, UNCHANGED crcVars
  PROVE  CrcInv'
BY DEF CrcInv, CrcTypeOK, ErrorsBehind, SameState, ErrorVisible, crcVars

\* The states of the two ends after every byte, for messages of every length
\* and every transfer whose errors are within 32 bits of the stream.
THEOREM CrcInvariant == CrcSpec => []CrcInv
<1>1. CrcInit => CrcInv
  BY InitCrcInv
<1>2. CrcInv /\ [CrcNext]_crcVars => CrcInv'
  BY TransferCrcInv, StutterCrcInv DEF CrcNext, Complete
<1> QED BY <1>1, <1>2, PTL DEF CrcSpec

\* verify_crc32c (client.cpp) accepts a transfer in which nothing was inverted
\* and rejects every other whose errors are within 32 bits of the stream.
THEOREM BurstsAreDetected == CrcSpec => []BurstDetected
<1>1. CrcInv => BurstDetected
  <2> SUFFICES ASSUME CrcInv PROVE BurstDetected
    OBVIOUS
  <2>1. Crc32cFinalize(local) = GatewayFinalize(remote) <=> local = remote
    <3>1. ASSUME Xor(local, Ones) = Xor(remote, Ones), NEW e
          PROVE  e \in local <=> e \in remote
      BY <3>1, XorMember
    <3>2. Xor(local, Ones) = Xor(remote, Ones) => local = remote
      BY <3>1 DEF CrcInv, CrcTypeOK, Word
    <3> QED BY <3>2 DEF Crc32cFinalize, GatewayFinalize
  <2>2. errors = {} => local = remote
    BY DEF CrcInv, SameState
  <2>3. errors # {} => local # remote
    <3> SUFFICES ASSUME errors # {} PROVE local # remote
      OBVIOUS
    <3>1. PICK p \in errors :
            Survives(Xor(local, remote), p + 32 - 8 * Len(received))
      BY DEF CrcInv, ErrorVisible
    <3>2. p + 32 - 8 * Len(received) \in Int
      BY DEF CrcInv, CrcTypeOK, ErrorsBehind
    <3> QED BY <3>1, <3>2, SurvivesDiffers
  <2> QED BY <2>1, <2>2, <2>3 DEF BurstDetected
<1> QED BY <1>1, CrcInvariant, PTL
-----------------------------------------------------------------------------
(* The polynomial and its reflection *)

Bit(d, j) == (d \div 2^j) % 2 = 1

\* The bits of the digits that occur in the two polynomials.
LEMMA DigitBits ==
  ASSUME NEW j \in 0 .. 3
  PROVE  /\ Bit(1, j) <=> j = 0
         /\ Bit(2, j) <=> j = 1
         /\ Bit(3, j) <=> j \in {0, 1}
         /\ Bit(4, j) <=> j = 2
         /\ Bit(6, j) <=> j \in {1, 2}
         /\ Bit(7, j) <=> j # 3
         /\ Bit(8, j) <=> j = 3
         /\ Bit(11, j) <=> j # 2
         /\ Bit(12, j) <=> j \in {2, 3}
         /\ Bit(13, j) <=> j # 1
         /\ Bit(14, j) <=> j # 0
         /\ Bit(15, j)
<1>1. CASE j = 0
  <2>1. 2^j = 1
    BY <1>1
  <2> QED BY <1>1, <2>1 DEF Bit
<1>2. CASE j = 1
  <2>1. 2^j = 2
    BY <1>2
  <2> QED BY <1>2, <2>1 DEF Bit
<1>3. CASE j = 2
  <2>1. 2^j = 4
    BY <1>3
  <2> QED BY <1>3, <2>1 DEF Bit
<1>4. CASE j = 3
  <2>1. 2^j = 8
    BY <1>4
  <2> QED BY <1>4, <2>1 DEF Bit
<1> QED BY <1>1, <1>2, <1>3, <1>4

LEMMA HexMember ==
  ASSUME NEW ds, Len(ds) = 8, NEW e
  PROVE  e \in Hex(ds) <=>
           \E j \in 0 .. 3 :
             \/ e = 28 + j /\ Bit(ds[1], j)
             \/ e = 24 + j /\ Bit(ds[2], j)
             \/ e = 20 + j /\ Bit(ds[3], j)
             \/ e = 16 + j /\ Bit(ds[4], j)
             \/ e = 12 + j /\ Bit(ds[5], j)
             \/ e = 8 + j /\ Bit(ds[6], j)
             \/ e = 4 + j /\ Bit(ds[7], j)
             \/ e = j /\ Bit(ds[8], j)
<1>1. Hex(ds) = UNION {{4 * (8 - k) + j : j \in {i \in 0 .. 3 : Bit(ds[k], i)}} :
                         k \in 1 .. 8}
  BY DEF Hex, Bit
<1>2. e \in Hex(ds) <=>
        \E k \in 1 .. 8 : \E j \in 0 .. 3 :
          e = 4 * (8 - k) + j /\ Bit(ds[k], j)
  BY <1>1
<1>3. \A k \in 1 .. 8 : k \in {1, 2, 3, 4, 5, 6, 7, 8}
  OBVIOUS
<1>4. \A j \in 0 .. 3 :
        /\ 4 * (8 - 1) + j = 28 + j /\ 4 * (8 - 2) + j = 24 + j
        /\ 4 * (8 - 3) + j = 20 + j /\ 4 * (8 - 4) + j = 16 + j
        /\ 4 * (8 - 5) + j = 12 + j /\ 4 * (8 - 6) + j = 8 + j
        /\ 4 * (8 - 7) + j = 4 + j /\ 4 * (8 - 8) + j = j
  OBVIOUS
<1> QED BY <1>2, <1>3, <1>4

\* kPoly is the polynomial of the definition, read from the other end.
LEMMA PolyReflected ==
  /\ Castagnoli \subseteq 0 .. 32 /\ 32 \in Castagnoli
  /\ \A e \in Nat : e \in kPoly <=> 31 - e \in Castagnoli
<1>1. ASSUME NEW e
      PROVE  e \in kPoly <=> e \in {31, 25, 23, 22, 21, 20, 18, 17, 13, 12, 11,
                                    9, 8, 6, 5, 4, 3}
  <2> DEFINE ds == <<8, 2, 15, 6, 3, 11, 7, 8>>
  <2>1. /\ Len(ds) = 8 /\ ds[1] = 8 /\ ds[2] = 2 /\ ds[3] = 15 /\ ds[4] = 6
        /\ ds[5] = 3 /\ ds[6] = 11 /\ ds[7] = 7 /\ ds[8] = 8
    OBVIOUS
  <2>2. kPoly = Hex(ds)
    BY DEF kPoly
  <2> HIDE DEF ds
  <2>3. \A j \in 0 .. 3 : j = 0 \/ j = 1 \/ j = 2 \/ j = 3
    OBVIOUS
  <2> QED BY <2>1, <2>2, <2>3, HexMember, DigitBits
<1>2. ASSUME NEW e
      PROVE  e \in Castagnoli <=> e \in {32, 28, 27, 26, 25, 23, 22, 20, 19,
                                         18, 14, 13, 11, 10, 9, 8, 6, 0}
  <2> DEFINE ds == <<1, 14, 13, 12, 6, 15, 4, 1>>
  <2>1. /\ Len(ds) = 8 /\ ds[1] = 1 /\ ds[2] = 14 /\ ds[3] = 13 /\ ds[4] = 12
        /\ ds[5] = 6 /\ ds[6] = 15 /\ ds[7] = 4 /\ ds[8] = 1
    OBVIOUS
  <2>2. Castagnoli = {32} \cup Hex(ds)
    BY DEF Castagnoli
  <2> HIDE DEF ds
  <2>3. \A j \in 0 .. 3 : j = 0 \/ j = 1 \/ j = 2 \/ j = 3
    OBVIOUS
  <2> QED BY <2>1, <2>2, <2>3, HexMember, DigitBits
<1> QED BY <1>1, <1>2

-----------------------------------------------------------------------------
(* Rounds and division *)

\* What is left of the dividend, q, when its terms above d are gone: the word c
\* from degree d down, and the bits T of the message that are yet to come.
Dividend(c, q, d, T) ==
  /\ q \subseteq Int
  /\ \A x \in Int : x \in q <=> ~(d - x \in c <=> x \in T)

\* Bits d down to d - 7 of the stream.
LEMMA Window ==
  ASSUME NEW d \in Int, NEW x \in Int
  PROVE  /\ d - x \in 0 .. 7 => d - (d - x) = x /\ x <= d /\ ~(x <= d - 8)
         /\ d - x \notin 0 .. 7 => (x <= d <=> x <= d - 8)
OBVIOUS

\* A round of the code is a step of the division.
LEMMA RoundDivides ==
  ASSUME NEW c \in Word, NEW d \in Int, NEW q, NEW T,
         Dividend(c, q, d, T), d \notin T
  PROVE  Dividend(Round(kPoly, c), Divide(q, d), d - 1, T)
<1> DEFINE Q == Divide(q, d)
           R == Round(kPoly, c)
<1>1. c \in SUBSET Nat /\ kPoly \in SUBSET Nat
  BY PolyTypes DEF Word, Ones
<1>2. \A e \in Int : e \in R <=>
                       e \in Nat /\ ~(e + 1 \in c <=> 0 \in c /\ e \in kPoly)
  BY <1>1, RoundMember
<1>3. d \in q <=> 0 \in c
  <2>1. d \in q <=> ~(d - d \in c <=> d \in T)
    BY DEF Dividend
  <2>2. d - d = 0
    OBVIOUS
  <2> QED BY <2>1, <2>2
<1>4. \A x \in Int : x \in Q <=>
                       ~(x \in q <=> d \in q /\ (x - d) + 32 \in Castagnoli)
  <2> TAKE x \in Int
  <2>1. x \in {e + d - 32 : e \in Castagnoli} <=> (x - d) + 32 \in Castagnoli
    <3>1. \A e \in Castagnoli : e \in Int
      BY PolyReflected
    <3>2. \A e \in Int : x = e + d - 32 <=> e = (x - d) + 32
      OBVIOUS
    <3> QED BY <3>1, <3>2
  <2> QED BY <2>1, XorMember DEF Divide
<1>0. Q \subseteq Int
  <2>1. {e + d - 32 : e \in Castagnoli} \subseteq Int /\ q \subseteq Int
    BY PolyReflected DEF Dividend
  <2> QED BY <2>1 DEF Divide, Xor
<1> HIDE DEF Q, R
<1> SUFFICES ASSUME NEW x \in Int
             PROVE  x \in Q <=> ~((d - 1) - x \in R <=> x \in T)
  BY <1>0 DEF Dividend, Q, R
<1>5. x \in q <=> ~(d - x \in c <=> x \in T)
  BY DEF Dividend
<1>6. CASE x < d
  <2> DEFINE e == (d - 1) - x
  <2>1. e \in Nat /\ e + 1 = d - x /\ (x - d) + 32 = 31 - e
    BY <1>6
  <2>2. e \in kPoly <=> 31 - e \in Castagnoli
    BY <2>1, PolyReflected
  <2>3. e \in R <=> ~(d - x \in c <=> 0 \in c /\ e \in kPoly)
    BY <1>2, <2>1
  <2>4. x \in Q <=> ~(x \in q <=> d \in q /\ e \in kPoly)
    BY <1>4, <2>1, <2>2
  <2> HIDE DEF e
  <2>5. x \in Q <=> ~(e \in R <=> x \in T)
    BY <1>3, <1>5, <2>3, <2>4
  <2> QED BY <2>5 DEF e
<1>7. CASE x >= d
  <2>1. (d - 1) - x \notin R
    <3>1. (d - 1) - x \in Int /\ (d - 1) - x \notin Nat
      BY <1>7
    <3> QED BY <1>2, <3>1
  <2>2. CASE x = d
    <3>1. (x - d) + 32 \in Castagnoli
      <4>1. (x - d) + 32 = 32
        BY <2>2
      <4> QED BY <4>1, PolyReflected
    <3>2. x \notin Q
      BY <1>4, <2>2, <3>1
    <3> QED BY <2>1, <2>2, <3>2
  <2>3. CASE x # d
    <3>1. (x - d) + 32 \notin Castagnoli /\ d - x \notin c
      BY <1>1, <1>7, <2>3, PolyReflected
    <3> QED BY <1>4, <1>5, <2>1, <3>1
  <2> QED BY <2>2, <2>3
<1> QED BY <1>6, <1>7

\* Eight rounds and eight steps, when the bits yet to come are below them.
LEMMA EightDivide ==
  ASSUME NEW c \in Word, NEW d \in Int, NEW T,
         \A x \in T : x \in Int /\ x <= d - 8,
         NEW r, \A k \in 0 .. 7 : r[d - (k + 1)] = Divide(r[d - k], d - k),
         Dividend(c, r[d], d, T)
  PROVE  Dividend(EightRounds(kPoly, c), r[d - 8], d - 8, T)
<1>0. \A x \in Word : x \in SUBSET Nat
  BY DEF Word, Ones
<1>1. ASSUME NEW k \in {0, 2, 4, 6}, NEW x \in Word,
             Dividend(x, r[d - k], d - k, T)
      PROVE  /\ Dividend(TwoRounds(kPoly, x), r[d - (k + 2)], d - (k + 2), T)
             /\ TwoRounds(kPoly, x) \in Word
  <2>1. /\ k \in 0 .. 7 /\ k + 1 \in 0 .. 7 /\ (k + 1) + 1 = k + 2
        /\ d - k \in Int /\ d - (k + 1) \in Int
        /\ (d - k) - 1 = d - (k + 1) /\ (d - (k + 1)) - 1 = d - (k + 2)
        /\ d - k \notin T /\ d - (k + 1) \notin T
    OBVIOUS
  <2>2. /\ r[d - (k + 1)] = Divide(r[d - k], d - k)
        /\ r[d - (k + 2)] = Divide(r[d - (k + 1)], d - (k + 1))
    BY <2>1
  <2>3. Round(kPoly, x) \in Word /\ TwoRounds(kPoly, x) \in Word
    BY <1>0, PolyTypes, RoundTypes, RoundsTypes
  <2>4. Dividend(Round(kPoly, x), r[d - (k + 1)], d - (k + 1), T)
    BY <1>1, <2>1, <2>2, RoundDivides
  <2>5. Dividend(Round(kPoly, Round(kPoly, x)), r[d - (k + 2)], d - (k + 2), T)
    BY <2>1, <2>2, <2>3, <2>4, RoundDivides
  <2> QED BY <2>3, <2>5 DEF TwoRounds
<1> DEFINE c2 == TwoRounds(kPoly, c)
           c4 == TwoRounds(kPoly, c2)
           c6 == TwoRounds(kPoly, c4)
           c8 == TwoRounds(kPoly, c6)
<1>2. d - 0 = d /\ 0 + 2 = 2 /\ 2 + 2 = 4 /\ 4 + 2 = 6 /\ 6 + 2 = 8
  OBVIOUS
<1>3. c2 \in Word /\ Dividend(c2, r[d - 2], d - 2, T)
  BY <1>1, <1>2
<1> HIDE DEF c2
<1>4. c4 \in Word /\ Dividend(c4, r[d - 4], d - 4, T)
  BY <1>1, <1>2, <1>3
<1> HIDE DEF c4
<1>5. c6 \in Word /\ Dividend(c6, r[d - 6], d - 6, T)
  BY <1>1, <1>2, <1>4
<1> HIDE DEF c6
<1>6. Dividend(c8, r[d - 8], d - 8, T)
  BY <1>1, <1>2, <1>5
<1> QED BY <1>6 DEF c2, c4, c6, c8, EightRounds, FourRounds
-----------------------------------------------------------------------------
(* Induction *)

\* Induction for a set: the least number outside it would have no predecessor.
LEMMA SetInduction ==
  ASSUME NEW S, 0 \in S, \A n \in Nat : n \in S => n + 1 \in S
  PROVE  \A n \in Nat : n \in S
<1> DEFINE R == OpToRel(<, Nat)
           T == Nat \ S
<1> SUFFICES ASSUME T # {} PROVE FALSE
  OBVIOUS
<1>1. \A x, y \in Nat : x < y => <<x, y>> \in R
  BY DEF OpToRel
<1>2. IsWellFoundedOn(R, Nat)
  BY NatLessThanWellFounded
<1> HIDE DEF R
<1>3. T \subseteq Nat
  OBVIOUS
<1> HIDE DEF T
<1>4. PICK x \in T : \A y \in T : ~(<<y, x>> \in R)
  BY <1>2, <1>3, WFMin
<1> USE DEF T
<1>5. x \in Nat /\ x # 0 /\ x - 1 \in Nat /\ x - 1 < x
  OBVIOUS
<1>6. x - 1 \in S
  BY <1>1, <1>4, <1>5
<1>7. (x - 1) + 1 \in S
  BY <1>5, <1>6
<1> QED BY <1>5, <1>7

\* The states of the loop of Crc32cUpdate.
Loop(st, s, bytes, n) ==
  st = [i \in 0 .. n |-> IF i = 0 THEN s ELSE Crc32cByte(st[i - 1], bytes[i])]

LEMMA LoopExists ==
  ASSUME NEW s, NEW bytes
  PROVE  \A n \in Nat : \E st : Loop(st, s, bytes, n)
<1> DEFINE S == {n \in Nat : \E st : Loop(st, s, bytes, n)}
<1>1. 0 \in S
  <2> DEFINE st == [i \in 0 .. 0 |-> s]
  <2>1. st = [i \in 0 .. 0 |-> IF i = 0 THEN s ELSE Crc32cByte(st[i - 1], bytes[i])]
    OBVIOUS
  <2>2. Loop(st, s, bytes, 0)
    BY <2>1 DEF Loop
  <2> QED BY <2>2
<1>2. ASSUME NEW n \in Nat, n \in S PROVE n + 1 \in S
  <2>1. PICK f : Loop(f, s, bytes, n)
    BY <1>2
  <2> DEFINE g == [i \in 0 .. n + 1 |->
                     IF i = n + 1 THEN Crc32cByte(f[n], bytes[n + 1]) ELSE f[i]]
  <2>2. ASSUME NEW i \in 0 .. n + 1
        PROVE  g[i] = IF i = 0 THEN s ELSE Crc32cByte(g[i - 1], bytes[i])
    <3>1. CASE i = n + 1
      <4>1. n \in 0 .. n + 1 /\ n # n + 1 /\ i - 1 = n /\ i # 0
        BY <3>1
      <4>2. g[n] = f[n] /\ g[i] = Crc32cByte(f[n], bytes[n + 1])
        BY <3>1, <4>1
      <4> HIDE DEF g
      <4> QED BY <3>1, <4>1, <4>2
    <3>2. CASE i # n + 1
      <4>1. i \in 0 .. n /\ (i # 0 => i - 1 \in 0 .. n + 1 /\ i - 1 # n + 1)
        BY <3>2
      <4>2. f[i] = IF i = 0 THEN s ELSE Crc32cByte(f[i - 1], bytes[i])
        BY <2>1, <4>1 DEF Loop
      <4>3. g[i] = f[i] /\ (i # 0 => g[i - 1] = f[i - 1])
        BY <3>2, <4>1
      <4> HIDE DEF g
      <4> QED BY <4>2, <4>3
    <3> QED BY <3>1, <3>2
  <2>3. Loop(g, s, bytes, n + 1)
    <3>1. g = [i \in 0 .. n + 1 |-> g[i]]
      OBVIOUS
    <3> HIDE DEF g
    <3> QED BY <2>2, <3>1 DEF Loop
  <2> HIDE DEF g
  <2> QED BY <2>3
<1> HIDE DEF S
<1>3. \A n \in Nat : n \in S
  BY <1>1, <1>2, SetInduction
<1> QED BY <1>3 DEF S

LEMMA UpdateLoop ==
  ASSUME NEW s, NEW bytes, Len(bytes) \in Nat
  PROVE  \E st : /\ Loop(st, s, bytes, Len(bytes))
                 /\ Crc32cUpdate(s, bytes) = st[Len(bytes)]
<1> DEFINE st == CHOOSE f : Loop(f, s, bytes, Len(bytes))
<1>1. Loop(st, s, bytes, Len(bytes))
  BY LoopExists
<1>2. Crc32cUpdate(s, bytes) = st[Len(bytes)]
  BY DEF Crc32cUpdate, Loop
<1> HIDE DEF st
<1> QED BY <1>1, <1>2

\* One more byte is one more iteration.
LEMMA UpdateAppend ==
  ASSUME NEW s, NEW bytes \in Seq(Byte), NEW b \in Byte
  PROVE  Crc32cUpdate(s, Append(bytes, b)) = Crc32cByte(Crc32cUpdate(s, bytes), b)
<1> DEFINE more == Append(bytes, b)
           n == Len(bytes)
<1>1. /\ n \in Nat /\ more \in Seq(Byte) /\ Len(more) = n + 1
      /\ \A i \in 1 .. n : more[i] = bytes[i]
      /\ more[n + 1] = b
  OBVIOUS
<1> HIDE DEF n, more
<1>2. PICK f : Loop(f, s, bytes, n) /\ Crc32cUpdate(s, bytes) = f[n]
  BY <1>1, UpdateLoop DEF n
<1>3. PICK g : Loop(g, s, more, n + 1) /\ Crc32cUpdate(s, more) = g[n + 1]
  <2>1. Len(more) \in Nat
    BY <1>1
  <2> QED BY <1>1, <2>1, UpdateLoop
<1> DEFINE S == {i \in Nat : i <= n => f[i] = g[i]}
<1>4. 0 \in S
  <2>1. f[0] = s /\ g[0] = s
    BY <1>1, <1>2, <1>3 DEF Loop
  <2> QED BY <2>1
<1>5. ASSUME NEW i \in Nat, i \in S PROVE i + 1 \in S
  <2> SUFFICES ASSUME i + 1 <= n PROVE f[i + 1] = g[i + 1]
    OBVIOUS
  <2>1. /\ i + 1 \in 1 .. n /\ i + 1 \in 0 .. n /\ i + 1 \in 0 .. n + 1
        /\ i + 1 # 0 /\ (i + 1) - 1 = i /\ f[i] = g[i]
    BY <1>1, <1>5
  <2>2. /\ f[i + 1] = Crc32cByte(f[i], bytes[i + 1])
        /\ g[i + 1] = Crc32cByte(g[i], more[i + 1])
    BY <1>2, <1>3, <2>1 DEF Loop
  <2> QED BY <1>1, <2>1, <2>2
<1> HIDE DEF S
<1>6. n \in S
  BY <1>1, <1>4, <1>5, SetInduction
<1>7. f[n] = g[n]
  BY <1>1, <1>6 DEF S
<1>8. g[n + 1] = Crc32cByte(g[n], more[n + 1])
  <2>1. n + 1 \in 0 .. n + 1 /\ n + 1 # 0 /\ (n + 1) - 1 = n
    BY <1>1
  <2> QED BY <1>3, <2>1 DEF Loop
<1> QED BY <1>1, <1>2, <1>3, <1>7, <1>8 DEF more

LEMMA UpdateEmpty ==
  ASSUME NEW s PROVE Crc32cUpdate(s, <<>>) = s
<1>1. PICK f : Loop(f, s, <<>>, 0) /\ Crc32cUpdate(s, <<>>) = f[0]
  <2>1. Len(<<>>) = 0 /\ Len(<<>>) \in Nat
    OBVIOUS
  <2> QED BY <2>1, UpdateLoop
<1> QED BY <1>1 DEF Loop

\* The two copies are the same function.
LEMMA CopiesAgree ==
  ASSUME NEW s, NEW bytes
  PROVE  /\ GatewayUpdate(s, bytes) = Crc32cUpdate(s, bytes)
         /\ Gateway(bytes) = Crc32c(bytes)
<1>1. GatewayUpdate(s, bytes) = Crc32cUpdate(s, bytes)
  BY TablesAgree DEF GatewayUpdate, Crc32cUpdate, GatewayByte, Crc32cByte
<1>2. GatewayUpdate(Ones, bytes) = Crc32cUpdate(Ones, bytes)
  BY TablesAgree DEF GatewayUpdate, Crc32cUpdate, GatewayByte, Crc32cByte
<1> QED BY <1>1, <1>2 DEF Gateway, Crc32c, GatewayFinalize, Crc32cFinalize,
                          GatewayInit, Crc32cInit

\* The dividends of Remainder, from the term of the given degree down to d.
Division(r, p, degree, d) ==
  r = [k \in d .. degree |-> IF k = degree THEN p ELSE Divide(r[k + 1], k + 1)]

LEMMA DivisionExists ==
  ASSUME NEW p, NEW degree \in Int
  PROVE  \A n \in Nat : \E r : Division(r, p, degree, degree - n)
<1> DEFINE S == {n \in Nat : \E r : Division(r, p, degree, degree - n)}
<1>1. 0 \in S
  <2> DEFINE r == [k \in degree - 0 .. degree |-> p]
  <2>1. r = [k \in degree - 0 .. degree |->
               IF k = degree THEN p ELSE Divide(r[k + 1], k + 1)]
    OBVIOUS
  <2>2. Division(r, p, degree, degree - 0)
    BY <2>1 DEF Division
  <2> HIDE DEF r
  <2> QED BY <2>2
<1>2. ASSUME NEW n \in Nat, n \in S PROVE n + 1 \in S
  <2>1. PICK f : Division(f, p, degree, degree - n)
    BY <1>2
  <2> DEFINE d == degree - (n + 1)
             g == [k \in d .. degree |->
                     IF k = d THEN Divide(f[d + 1], d + 1) ELSE f[k]]
  <2>2. d \in Int /\ d + 1 = degree - n /\ d < degree
    OBVIOUS
  <2> HIDE DEF d
  <2>3. ASSUME NEW k \in d .. degree
        PROVE  g[k] = IF k = degree THEN p ELSE Divide(g[k + 1], k + 1)
    <3>1. CASE k = d
      <4>1. d + 1 \in d .. degree /\ d + 1 # d /\ k # degree
        BY <2>2, <3>1
      <4>2. g[d + 1] = f[d + 1] /\ g[k] = Divide(f[d + 1], d + 1)
        BY <3>1, <4>1
      <4> HIDE DEF g
      <4> QED BY <3>1, <4>1, <4>2
    <3>2. CASE k # d
      <4>1. /\ k \in degree - n .. degree
            /\ k # degree => k + 1 \in d .. degree /\ k + 1 # d
        BY <2>2, <3>2
      <4>2. f[k] = IF k = degree THEN p ELSE Divide(f[k + 1], k + 1)
        BY <2>1, <4>1 DEF Division
      <4>3. g[k] = f[k] /\ (k # degree => g[k + 1] = f[k + 1])
        BY <3>2, <4>1
      <4> HIDE DEF g
      <4> QED BY <4>2, <4>3
    <3> QED BY <3>1, <3>2
  <2>4. Division(g, p, degree, d)
    <3>1. g = [k \in d .. degree |-> g[k]]
      OBVIOUS
    <3> HIDE DEF g
    <3> QED BY <2>3, <3>1 DEF Division
  <2> HIDE DEF g
  <2> QED BY <2>4 DEF d
<1> HIDE DEF S
<1>3. \A n \in Nat : n \in S
  BY <1>1, <1>2, SetInduction
<1> QED BY <1>3 DEF S

LEMMA RemainderDivision ==
  ASSUME NEW p, NEW degree \in Int, degree >= 31
  PROVE  \E r : Division(r, p, degree, 31) /\ Remainder(p, degree) = r[31]
<1> DEFINE r == CHOOSE f : Division(f, p, degree, 31)
<1>1. degree - 31 \in Nat /\ degree - (degree - 31) = 31
  OBVIOUS
<1>2. \E f : Division(f, p, degree, 31)
  BY <1>1, DivisionExists
<1>3. Division(r, p, degree, 31)
  BY <1>2
<1>4. Remainder(p, degree) = r[31]
  BY DEF Remainder, Division
<1> HIDE DEF r
<1> QED BY <1>3, <1>4
-----------------------------------------------------------------------------
(* The checksum is the remainder *)

LEMMA PolynomialMember ==
  ASSUME NEW bytes \in Seq(Byte), NEW N, N = Len(bytes)
  PROVE  /\ Polynomial(bytes) \subseteq 32 .. 8 * N + 31
         /\ \A k \in 0 .. N - 1 : \A j \in 0 .. 7 :
              (8 * N + 31 - 8 * k) - j \in Polynomial(bytes)
                <=> j \in bytes[k + 1]
<1>1. N \in Nat /\ \A i \in 1 .. N : bytes[i] \subseteq 0 .. 7
  BY DEF Byte
<1>2. \A x : x \in Polynomial(bytes) <=>
               \E i \in 1 .. N : \E j \in bytes[i] :
                 x = 8 * N + 31 - (8 * (i - 1) + j)
  BY DEF Polynomial
<1>3. ASSUME NEW x \in Polynomial(bytes) PROVE x \in 32 .. 8 * N + 31
  <2>0. PICK i \in 1 .. N : \E j \in bytes[i] :
          x = 8 * N + 31 - (8 * (i - 1) + j)
    BY <1>2
  <2>1. PICK j \in bytes[i] : x = 8 * N + 31 - (8 * (i - 1) + j)
    BY <2>0
  <2>2. j \in 0 .. 7 /\ i \in Int /\ 1 <= i /\ i <= N
    BY <1>1
  <2> QED BY <1>1, <2>1, <2>2
<1>4. ASSUME NEW k \in 0 .. N - 1, NEW j \in 0 .. 7
      PROVE  (8 * N + 31 - 8 * k) - j \in Polynomial(bytes)
               <=> j \in bytes[k + 1]
  <2> DEFINE x == (8 * N + 31 - 8 * k) - j
  <2>1. ASSUME NEW i \in 1 .. N, NEW m \in bytes[i],
               x = 8 * N + 31 - (8 * (i - 1) + m)
        PROVE  i = k + 1 /\ m = j
    <3>1. m \in 0 .. 7
      BY <1>1
    <3>2. 8 * (i - 1) + m = 8 * k + j
      BY <1>1, <2>1, <3>1
    <3> QED BY <1>1, <3>1, <3>2
  <2>2. k + 1 \in 1 .. N /\ x = 8 * N + 31 - (8 * ((k + 1) - 1) + j)
    BY <1>1
  <2> HIDE DEF x
  <2>3. x \in Polynomial(bytes) <=> j \in bytes[k + 1]
    BY <1>2, <2>1, <2>2
  <2> QED BY <2>3 DEF x
<1> QED BY <1>3, <1>4

\* An iteration of the loop and eight steps of the division.
LEMMA ByteDivides ==
  ASSUME NEW bytes \in Seq(Byte), NEW N, N = Len(bytes),
         NEW k \in 0 .. N - 1, NEW d, d = 8 * N + 31 - 8 * k,
         NEW T, T = {x \in Polynomial(bytes) : x <= d},
         NEW U, U = {x \in Polynomial(bytes) : x <= d - 8},
         NEW s \in Word, NEW r,
         \A i \in 0 .. 7 : r[d - (i + 1)] = Divide(r[d - i], d - i),
         Dividend(s, r[d], d, T)
  PROVE  Dividend(Crc32cByte(s, bytes[k + 1]), r[d - 8], d - 8, U)
<1> DEFINE b == bytes[k + 1]
           c == Xor(s, b)
<1>1. /\ N \in Nat /\ d \in Int /\ b \in Byte /\ b \subseteq 0 .. 7
      /\ Polynomial(bytes) \subseteq Int
  BY PolynomialMember DEF Byte
<1> HIDE DEF b
<1>2. Crc32cByte(s, b) = EightRounds(kPoly, c) /\ c \in Word
  BY <1>1, ByteIsRounds
<1>3. \A j \in 0 .. 7 : d - j \in Polynomial(bytes) <=> j \in b
  BY PolynomialMember DEF b
<1>4. ASSUME NEW x \in Int
      PROVE  x \in T <=> ~(x \in U <=> d - x \in b)
  <2>1. CASE d - x \in 0 .. 7
    <3>1. d - (d - x) = x /\ x <= d /\ ~(x <= d - 8)
      BY <1>1, <2>1, Window
    <3>2. x \in Polynomial(bytes) <=> d - x \in b
      BY <1>3, <2>1, <3>1
    <3> QED BY <3>1, <3>2
  <2>2. CASE d - x \notin 0 .. 7
    <3>1. d - x \notin b /\ (x <= d <=> x <= d - 8)
      BY <1>1, <2>2, Window
    <3> QED BY <3>1
  <2> QED BY <2>1, <2>2
<1>5. Dividend(c, r[d], d, U)
  <2> SUFFICES ASSUME NEW x \in Int
               PROVE  x \in r[d] <=> ~(d - x \in c <=> x \in U)
    BY DEF Dividend
  <2>1. x \in r[d] <=> ~(d - x \in s <=> x \in T)
    BY DEF Dividend
  <2>2. d - x \in c <=> ~(d - x \in s <=> d - x \in b)
    BY XorMember
  <2> QED BY <1>4, <2>1, <2>2
<1>6. \A x \in U : x \in Int /\ x <= d - 8
  BY <1>1
<1> HIDE DEF c
<1>7. Dividend(EightRounds(kPoly, c), r[d - 8], d - 8, U)
  BY <1>1, <1>2, <1>5, <1>6, EightDivide
<1> QED BY <1>2, <1>7 DEF b

\* crc32c.cpp of both ends: for every sequence of bytes the checksum is the
\* remainder that defines CRC-32C.
THEOREM ChecksumIsReference ==
  ASSUME NEW bytes \in Seq(Byte)
  PROVE  Crc32c(bytes) = Reference(bytes) /\ Gateway(bytes) = Reference(bytes)
<1> DEFINE N == Len(bytes)
           top == 8 * N + 31
           P == Polynomial(bytes)
           start == Xor(P, 8 * N .. 8 * N + 31)
<1>1. N \in Nat /\ top \in Int /\ top >= 31
  OBVIOUS
<1>2. PICK st : Loop(st, Ones, bytes, N) /\ Crc32cUpdate(Ones, bytes) = st[N]
  BY <1>1, UpdateLoop
<1>3. PICK r : Division(r, start, top, 31) /\ Remainder(start, top) = r[31]
  <2> HIDE DEF start, top
  <2> QED BY <1>1, RemainderDivision
<1>4. P \subseteq 32 .. top
  BY PolynomialMember
<1> DEFINE Rest(k) == {x \in P : x <= top - 8 * k}
           Good(k) == /\ st[k] \in Word
                      /\ Dividend(st[k], r[top - 8 * k], top - 8 * k, Rest(k))
           S == {k \in Nat : k <= N => Good(k)}
<1>5. 0 \in S
  <2>1. st[0] = Ones /\ Ones \in Word /\ top - 8 * 0 = top
    BY <1>1, <1>2 DEF Loop, Word
  <2>2. r[top] = start
    BY <1>1, <1>3 DEF Division
  <2>3. ASSUME NEW x \in Int
        PROVE  x \in start <=> ~(top - x \in Ones <=> x \in P)
    <3> HIDE DEF N
    <3>1. x \in 8 * N .. 8 * N + 31 <=> top - x \in Ones
      BY <1>1 DEF Ones
    <3>2. x \in start <=> ~(x \in P <=> x \in 8 * N .. 8 * N + 31)
      <4> HIDE DEF P
      <4> QED BY XorMember
    <3> HIDE DEF start, P
    <3> QED BY <3>1, <3>2
  <2>4. P = {x \in P : x <= top}
    BY <1>1, <1>4
  <2>6. start \subseteq Int
    BY <1>1, <1>4 DEF Xor
  <2> HIDE DEF P, top, start
  <2>5. Good(0)
    BY <2>1, <2>2, <2>3, <2>4, <2>6 DEF Dividend
  <2> QED BY <2>5
<1>6. ASSUME NEW k \in Nat, k \in S PROVE k + 1 \in S
  <2> SUFFICES ASSUME k + 1 <= N PROVE Good(k + 1)
    OBVIOUS
  <2> DEFINE d == top - 8 * k
  <2>1. /\ k \in 0 .. N - 1 /\ k + 1 \in 0 .. N /\ k + 1 # 0 /\ (k + 1) - 1 = k
        /\ d = 8 * N + 31 - 8 * k /\ d \in Int /\ d - 8 >= 31 /\ d <= top
        /\ top - 8 * (k + 1) = d - 8
    BY <1>1
  <2>2. Good(k)
    BY <1>6, <2>1
  <2>3. st[k + 1] = Crc32cByte(st[k], bytes[k + 1])
    BY <1>2, <2>1 DEF Loop
  <2> HIDE DEF d, top, P
  <2>4. ASSUME NEW i \in 0 .. 7
        PROVE  r[d - (i + 1)] = Divide(r[d - i], d - i)
    <3>1. /\ d - (i + 1) \in 31 .. top /\ d - (i + 1) # top
          /\ (d - (i + 1)) + 1 = d - i
      BY <1>1, <2>1
    <3> QED BY <1>3, <3>1 DEF Division
  <2>5. Dividend(st[k], r[d], d, {x \in P : x <= d}) /\ st[k] \in Word
    BY <2>2 DEF d
  <2>6. Dividend(st[k + 1], r[d - 8], d - 8, {x \in P : x <= d - 8})
    BY <2>1, <2>3, <2>4, <2>5, ByteDivides DEF P
  <2>7. bytes[k + 1] \in Byte
    BY <2>1
  <2>8. st[k + 1] \in Word
    <3>1. Xor(st[k], bytes[k + 1]) \in Word
      BY <2>5, <2>7, ByteIsRounds
    <3>2. \A z \in Word : z \in SUBSET Nat
      BY DEF Word, Ones
    <3> QED BY <2>3, <2>5, <2>7, <3>1, <3>2, ByteIsRounds, RoundsTypes, PolyTypes
  <2> QED BY <2>1, <2>6, <2>8
<1> HIDE DEF S
<1>7. N \in S
  BY <1>1, <1>5, <1>6, SetInduction
<1>8. Good(N)
  BY <1>1, <1>7 DEF S
<1>9. top - 8 * N = 31 /\ \A x \in Int : x \notin Rest(N)
  BY <1>1, <1>4
<1>10. r[31] \subseteq Int /\ \A x \in Int : x \in r[31] <=> 31 - x \in st[N]
  BY <1>8, <1>9 DEF Dividend
<1>11. st[N] = {31 - x : x \in r[31]}
  <2>0. st[N] \subseteq Int
    <3>1. \A z \in Word : z \subseteq Int
      BY DEF Word, Ones
    <3> QED BY <1>8, <3>1
  <2>1. \A e \in st[N] : e \in Int /\ 31 - e \in Int /\ 31 - (31 - e) = e
    BY <2>0
  <2>2. \A e \in st[N] : 31 - e \in r[31]
    BY <1>10, <2>1
  <2>3. \A x \in r[31] : 31 - x \in st[N]
    BY <1>10
  <2> QED BY <2>1, <2>2, <2>3
<1>12. Reference(bytes) = Xor(st[N], Ones)
  BY <1>3, <1>11 DEF Reference
<1> QED BY <1>2, <1>12, CopiesAgree DEF Crc32c, Crc32cFinalize, Crc32cInit

\* What both ends have in hand is what Crc32cUpdate gives for all bytes so far.
StatesAreUpdates ==
  /\ local = Crc32cUpdate(Crc32cInit, Sent)
  /\ remote = GatewayUpdate(GatewayInit, received)

LEMMA InitUpdates ==
  ASSUME CrcInit PROVE StatesAreUpdates
<1>1. message \in Seq(Byte)
  BY CrcAssumption DEF CrcInit
<1>2. Sent = <<>>
  BY <1>1 DEF CrcInit, Sent
<1> QED BY <1>2, UpdateEmpty, CopiesAgree DEF CrcInit, StatesAreUpdates

LEMMA TransferUpdates ==
  ASSUME CrcInv, StatesAreUpdates, NEW flip \in Flips, Transfer(flip)
  PROVE  StatesAreUpdates'
<1> DEFINE i == Len(received)
           b == message[i + 1]
<1>1. /\ message \in Seq(Byte) /\ received \in Seq(Byte)
      /\ i \in Nat /\ i + 1 \in 1 .. Len(message)
      /\ b \in Byte /\ flip \in Byte
  BY CrcAssumption DEF CrcInv, CrcTypeOK, Transfer
<1>2. /\ received' = Append(received, Xor(b, flip))
      /\ local' = Crc32cByte(local, b)
      /\ remote' = GatewayByte(remote, Xor(b, flip))
      /\ message' = message
  BY DEF Transfer
<1>3. Xor(b, flip) \in Byte
  BY <1>1 DEF Byte, Xor
<1>4. GatewayByte(remote, Xor(b, flip)) = Crc32cByte(remote, Xor(b, flip))
  BY TablesAgree DEF GatewayByte, Crc32cByte
<1>5. Len(received') = i + 1
  <2> HIDE DEF b
  <2> QED BY <1>1, <1>2, <1>3
<1>6. Sent \in Seq(Byte) /\ Sent' = Append(Sent, b)
  <2> HIDE DEF i
  <2>1. Sent = SubSeq(message, 1, i) /\ Sent' = SubSeq(message, 1, i + 1)
    BY <1>2, <1>5 DEF Sent, i
  <2> QED BY <1>1, <2>1
<1> HIDE DEF b
<1>7. local' = Crc32cUpdate(Crc32cInit, Sent')
  BY <1>1, <1>2, <1>6, UpdateAppend DEF StatesAreUpdates
<1>8. remote' = GatewayUpdate(GatewayInit, received')
  BY <1>1, <1>2, <1>3, <1>4, UpdateAppend, CopiesAgree DEF StatesAreUpdates
<1> QED BY <1>7, <1>8 DEF StatesAreUpdates

\* crc32c.cpp of both ends, byte by byte: after every byte of a message of any
\* length, with any errors in the transfer, the checksum of what was sent and
\* that of what was received are the remainders that define them.
THEOREM StreamsAreCrc == CrcSpec => []StreamIsCrc
<1>1. CrcInit => StatesAreUpdates
  BY InitUpdates
<1>2. CrcInv /\ StatesAreUpdates /\ [CrcNext]_crcVars => StatesAreUpdates'
  <2>1. CrcInv /\ StatesAreUpdates /\ UNCHANGED crcVars => StatesAreUpdates'
    BY DEF crcVars, StatesAreUpdates, Sent
  <2> QED BY <2>1, TransferUpdates DEF CrcNext, Complete
<1>3. CrcInv /\ StatesAreUpdates => StreamIsCrc
  <2> SUFFICES ASSUME CrcInv, StatesAreUpdates PROVE StreamIsCrc
    OBVIOUS
  <2>1. received \in Seq(Byte) /\ Sent \in Seq(Byte)
    BY DEF CrcInv, CrcTypeOK, Sent
  <2>2. /\ Crc32cFinalize(local) = Crc32c(Sent)
        /\ GatewayFinalize(remote) = Gateway(received)
    BY DEF StatesAreUpdates, Crc32c, Gateway
  <2> QED BY <2>1, <2>2, ChecksumIsReference DEF StreamIsCrc
<1> QED BY <1>1, <1>2, <1>3, CrcInvariant, PTL DEF CrcSpec
=============================================================================
