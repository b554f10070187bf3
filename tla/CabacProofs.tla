------------------------------ MODULE CabacProofs ------------------------------
(***************************************************************************)
(* Proofs about the arithmetic coding engine, for any rows of the table,   *)
(* bypass bins, remainders and number of calls: its registers stay in      *)
(* their ranges, a carry always finds a byte, and every code fits the bits *)
(* it is written in.                                                       *)
(***************************************************************************)
EXTENDS Cabac, InductionLemmas, TLAPS

(* What the bitstream handler is given. *)
Codes == {v \in Nat \X Nat : v[1] <= Two(v[2]) - 1}

Bytes == 0..255

(* The engine inside an operation: the range may have been moved.          *)
Engines ==
  [low : Nat, range : Nat, bitsLeft : Int, buffer : Bytes, numByte : Nat, codes : Seq(Codes)]

(* Twice the register may be reached while a byte below 0xff is held back, *)
(* once if there is none to take the carry.                                *)
Room(c) == IF c.buffer = 255 THEN 1 ELSE 2

Carries(c) ==
  /\ c \in Engines
  /\ c.numByte = 0 => c.buffer = 255
  /\ c.range > 0
  /\ c.low + c.range <= Two(32 - c.bitsLeft) * Room(c)

(* Before WriteOutputBitstream, between two operations, and before Flush.  *)
Unwritten(c) == Carries(c) /\ c.bitsLeft \in 4..23 /\ c.range \in 1..510
Written(c)   == Carries(c) /\ c.bitsLeft \in 12..23 /\ c.range \in 1..510
Ready(c)     == Written(c) /\ c.range \in 256..510

(* The inductive invariant. *)
CabacInv ==
  /\ phase \in {"code", "flushed"}
  /\ calls \in 0..MaxCalls
  /\ engine \in Engines
  /\ engine.range \in 256..510
  /\ engine.bitsLeft \in 12..23
  /\ phase = "code" => Ready(engine)
  /\ phase = "flushed" => engine.codes # <<>> /\ Last(engine.codes)[2] \in 5..12

--------------------------------------------------------------------------------
(* The product of two powers of two. *)
LEMMA Adding ==
  ASSUME NEW n \in 0..8, NEW a \in 0..24
  PROVE  Two(a + n) = Two(a) * Two(n)
<1>1. /\ Two(a) \in Nat
      /\ Two(a + 1) = 2 * Two(a) /\ Two(a + 2) = 4 * Two(a) /\ Two(a + 3) = 8 * Two(a)
      /\ Two(a + 4) = 16 * Two(a) /\ Two(a + 5) = 32 * Two(a) /\ Two(a + 6) = 64 * Two(a)
      /\ Two(a + 7) = 128 * Two(a) /\ Two(a + 8) = 256 * Two(a)
  <2>1. /\ Two(a) \in Nat /\ Two(a + 1) = 2 * Two(a)
        /\ Two((a + 1) + 1) = 2 * Two(a + 1) /\ Two((a + 2) + 1) = 2 * Two(a + 2)
        /\ Two((a + 3) + 1) = 2 * Two(a + 3) /\ Two((a + 4) + 1) = 2 * Two(a + 4)
        /\ Two((a + 5) + 1) = 2 * Two(a + 5) /\ Two((a + 6) + 1) = 2 * Two(a + 6)
        /\ Two((a + 7) + 1) = 2 * Two(a + 7)
    BY Doubling
  <2>2. /\ (a + 1) + 1 = a + 2 /\ (a + 2) + 1 = a + 3 /\ (a + 3) + 1 = a + 4
        /\ (a + 4) + 1 = a + 5 /\ (a + 5) + 1 = a + 6 /\ (a + 6) + 1 = a + 7
        /\ (a + 7) + 1 = a + 8
    OBVIOUS
  <2> QED BY <2>1, <2>2
<1>2. /\ Two(0) = 1 /\ Two(1) = 2 /\ Two(2) = 4 /\ Two(3) = 8 /\ Two(4) = 16
      /\ Two(5) = 32 /\ Two(6) = 64 /\ Two(7) = 128 /\ Two(8) = 256
  BY Powers
<1>3. n \in {0, 1, 2, 3, 4, 5, 6, 7, 8}
  OBVIOUS
<1> QED BY <1>1, <1>2, <1>3

--------------------------------------------------------------------------------
(* WriteOutputBitstream.                                                   *)

(* A sequence of codes is extended by codes.                               *)
LEMMA Putting ==
  ASSUME NEW c, c \in Engines, NEW v, v \in Nat, NEW n, n \in Nat, v <= Two(n) - 1
  PROVE  /\ Put(c, v, n) \in Engines
         /\ Put(c, v, n) = [c EXCEPT !.codes = Append(c.codes, <<v, n>>)]
<1>1. <<v, n>> \in Codes
  BY DEF Codes
<1> DEFINE codes == Append(c.codes, <<v, n>>)
<1>2. codes \in Seq(Codes)
  <2> c.codes \in Seq(Codes)
    BY DEF Engines
  <2> QED BY <1>1
<1>3. Put(c, v, n) = [c EXCEPT !.codes = codes]
  BY DEF Put
<1> HIDE DEF codes
<1>4. [c EXCEPT !.codes = codes] \in Engines
  BY <1>2 DEF Engines
<1> QED BY <1>3, <1>4 DEF codes

LEMMA Recoded ==
  ASSUME NEW c, c \in Engines, NEW codes, codes \in Seq(Codes),
         NEW d, d = [c EXCEPT !.codes = codes]
  PROVE  /\ d \in Engines
         /\ d.low = c.low /\ d.range = c.range /\ d.bitsLeft = c.bitsLeft
         /\ d.buffer = c.buffer /\ d.numByte = c.numByte /\ d.codes = codes
BY DEF Engines

LEMMA PuttingBytes ==
  ASSUME NEW c, c \in Engines, NEW v, v \in Bytes, NEW times, times \in Int,
         NEW d, d = PutBytes(c, v, times)
  PROVE  /\ d \in Engines
         /\ d.low = c.low /\ d.range = c.range /\ d.bitsLeft = c.bitsLeft
         /\ d.buffer = c.buffer /\ d.numByte = c.numByte
<1> DEFINE more  == [i \in 1..times |-> <<v, BYTE>>]
           codes == c.codes \o more
<1>1. <<v, BYTE>> \in Codes
  <2>1. v \in Nat /\ v <= Two(8) - 1
    BY Powers DEF Bytes
  <2> QED BY <2>1 DEF Codes, BYTE
<1>2. more \in Seq(Codes)
  <2>1. CASE times \in Nat BY <1>1, <2>1
  <2>2. CASE times \notin Nat
    <3>1. 1..times = 1..0 BY <2>2
    <3>2. more = [i \in 1..0 |-> <<v, BYTE>>] BY <3>1
    <3> QED BY <1>1, <3>2
  <2> QED BY <2>1, <2>2
<1>3. d = [c EXCEPT !.codes = codes]
  BY DEF PutBytes
<1>4. c.codes \in Seq(Codes)
  BY DEF Engines
<1>5. codes \in Seq(Codes)
  <2> HIDE DEF more
  <2> QED BY <1>2, <1>4
<1> HIDE DEF codes
<1> QED BY <1>3, <1>5, Recoded

LEMMA Division ==
  ASSUME NEW a, a \in Nat, NEW p, p \in Nat, p > 0
  PROVE  a \div p \in Nat /\ a % p \in 0 .. (p - 1) /\ a = (a \div p) * p + (a % p)
OBVIOUS

LEMMA Quotient ==
  ASSUME NEW a, a \in Nat, NEW p, p \in Nat, p > 0, NEW k, k \in Nat, a < k * p
  PROVE  a \div p < k
<1>1. a \div p \in Nat /\ (a \div p) * p <= a
  BY Division
<1>2. SUFFICES ASSUME a \div p >= k PROVE FALSE
  BY <1>1
<1>3. (a \div p) * p >= k * p
  <2> DEFINE q == a \div p
  <2>1. q \in Nat /\ q >= k
    BY <1>1, <1>2
  <2> HIDE DEF q
  <2>2. q * p >= k * p
    BY <2>1
  <2> QED BY <2>2 DEF q
<1> QED BY <1>1, <1>3

(* The fields of an engine, and an engine of changed fields.               *)
LEMMA Fields ==
  ASSUME NEW c, c \in Engines
  PROVE  /\ c.low \in Nat /\ c.range \in Nat /\ c.bitsLeft \in Int /\ c.buffer \in 0..255
         /\ c.numByte \in Nat /\ c.codes \in Seq(Codes)
BY DEF Engines, Bytes

LEMMA Moved ==
  ASSUME NEW c, c \in Engines, NEW low, low \in Nat, NEW range, range \in Nat, NEW bitsLeft, bitsLeft \in Int,
         NEW d, d = [c EXCEPT !.low = low, !.range = range, !.bitsLeft = bitsLeft]
  PROVE  /\ d \in Engines
         /\ d.low = low /\ d.range = range /\ d.bitsLeft = bitsLeft
         /\ d.buffer = c.buffer /\ d.numByte = c.numByte /\ d.codes = c.codes
BY DEF Engines

LEMMA Held ==
  ASSUME NEW c, c \in Engines, NEW numByte, numByte \in Nat, NEW buffer, buffer \in Bytes,
         NEW d, d = [c EXCEPT !.numByte = numByte, !.buffer = buffer]
  PROVE  /\ d \in Engines
         /\ d.low = c.low /\ d.range = c.range /\ d.bitsLeft = c.bitsLeft
         /\ d.buffer = buffer /\ d.numByte = numByte /\ d.codes = c.codes
BY DEF Engines

LEMMA Counted ==
  ASSUME NEW c, c \in Engines, NEW numByte, numByte \in Nat,
         NEW d, d = [c EXCEPT !.numByte = numByte]
  PROVE  /\ d \in Engines
         /\ d.low = c.low /\ d.range = c.range /\ d.bitsLeft = c.bitsLeft
         /\ d.buffer = c.buffer /\ d.numByte = numByte /\ d.codes = c.codes
BY DEF Engines

(* The lead byte and what is left of the register.  The bound on the       *)
(* register makes a carry possible only if there is a byte below 0xff.     *)
LEMMA LeadByte ==
  ASSUME NEW c, Unwritten(c), c.bitsLeft < 12,
         NEW p, p = Two(24 - c.bitsLeft),
         NEW lead, lead = c.low \div p
  PROVE  /\ p \in Nat /\ p >= 8192 /\ lead \in Nat
         /\ c.low % p \in 0 .. (p - 1)
         /\ c.low = lead * p + (c.low % p)
         /\ c.low + c.range <= 256 * p * Room(c)
         /\ lead < 256 * Room(c)
<1>1. /\ c \in Engines /\ c.bitsLeft \in 4..11 /\ c.range \in 1..510
      /\ c.low + c.range <= Two(32 - c.bitsLeft) * Room(c)
  BY DEF Unwritten, Carries
<1>2. c.low \in Nat
  BY <1>1, Fields
<1>3. /\ p \in Nat /\ p >= 8192 /\ Two(32 - c.bitsLeft) = 256 * p
  <2>1. \A b \in 4..11 : Two(24 - b) >= 8192
    BY Powers, SMTT(30)
  <2>2. (24 - c.bitsLeft) + 8 = 32 - c.bitsLeft /\ 24 - c.bitsLeft \in 0..24
        /\ 8 \in 0..8 /\ 24 - c.bitsLeft \in 0..32
    BY <1>1
  <2>3. Two((24 - c.bitsLeft) + 8) = Two(24 - c.bitsLeft) * Two(8)
    BY <2>2, Adding
  <2>4. Two(24 - c.bitsLeft) \in Nat /\ Two(8) = 256
    BY <2>2, Doubling, Powers
  <2>5. Two(24 - c.bitsLeft) >= 8192
    BY <1>1, <2>1
  <2> QED BY <2>2, <2>3, <2>4, <2>5
<1>4. /\ lead \in Nat /\ c.low % p \in 0 .. (p - 1) /\ c.low = lead * p + (c.low % p)
  <2>1. p > 0 /\ p \in Nat
    BY <1>3
  <2>2. c.low \div p \in Nat /\ c.low % p \in 0 .. (p - 1)
        /\ c.low = (c.low \div p) * p + (c.low % p)
    BY <1>2, <2>1, Division
  <2> QED BY <2>2
<1>5. Room(c) \in {1, 2}
  BY DEF Room
<1>6. c.low + c.range <= 256 * p * Room(c)
  BY <1>1, <1>3, <1>5
<1>7. lead < 256 * Room(c)
  <2>1. ASSUME NEW k, k \in Nat, c.low < k * p PROVE lead < k
    BY <1>2, <1>3, <2>1, Quotient
  <2>2. CASE Room(c) = 1
    <3>1. c.low < 256 * p
      BY <1>1, <1>2, <1>3, <1>6, <2>2
    <3> QED BY <2>1, <2>2, <3>1
  <2>3. CASE Room(c) = 2
    <3>1. c.low < 512 * p
      BY <1>1, <1>2, <1>3, <1>6, <2>3
    <3> QED BY <2>1, <2>3, <3>1
  <2> QED BY <1>5, <2>2, <2>3
<1> QED BY <1>3, <1>4, <1>6, <1>7

(* The byte held back and the 0xff bytes behind it are written.            *)
LEMMA CarryByte ==
  ASSUME NEW buffer, buffer \in 0..255, NEW carry, carry \in {0, 1}, carry = 1 => buffer # 255
  PROVE  /\ buffer + carry \in 0..255
         /\ Outstanding(carry) \in 0..255
BY DEF Outstanding

LEMMA Holding ==
  ASSUME NEW c, c \in Engines, NEW buffer, buffer \in 0..255,
         NEW carry, carry \in {0, 1}, carry = 1 => buffer # 255, NEW times, times \in Int,
         NEW d, d = PutBytes(Put(c, buffer + carry, BYTE), Outstanding(carry), times)
  PROVE  /\ d \in Engines
         /\ d.low = c.low /\ d.range = c.range /\ d.bitsLeft = c.bitsLeft
         /\ d.buffer = c.buffer /\ d.numByte = c.numByte
<1> DEFINE v     == buffer + carry
           first == Put(c, v, BYTE)
           byte  == Outstanding(carry)
<1>1. v \in Nat /\ v <= 255 /\ byte \in Bytes
  BY CarryByte DEF Bytes
<1>2. BYTE \in Nat /\ v <= Two(BYTE) - 1
  BY <1>1, Powers DEF BYTE
<1> HIDE DEF v, byte
<1>3. first \in Engines /\ first = [c EXCEPT !.codes = Append(c.codes, <<v, BYTE>>)]
  BY <1>1, <1>2, Putting
<1> HIDE DEF first
<1> DEFINE e == PutBytes(first, byte, times)
<1>4. /\ e \in Engines /\ e.low = first.low /\ e.range = first.range
      /\ e.bitsLeft = first.bitsLeft /\ e.buffer = first.buffer /\ e.numByte = first.numByte
  <2>1. e = PutBytes(first, byte, times)
    OBVIOUS
  <2> HIDE DEF e
  <2>2. byte \in Bytes
    BY <1>1
  <2>3. first \in Engines
    BY <1>3
  <2>4. e \in Engines
    BY <2>1, <2>2, <2>3, PuttingBytes
  <2>5. times \in Int
    OBVIOUS
  <2>6. ASSUME NEW a, NEW b, NEW t, a \in Engines, b \in Bytes, t \in Int, NEW f, f = PutBytes(a, b, t) PROVE f.low = a.low
    BY <2>6, PuttingBytes
  <2>7. e.low = first.low
    BY <2>1, <2>2, <2>3, PuttingBytes
  <2> QED BY <2>1, <2>2, <2>3, <2>5, PuttingBytes
<1>5. d = PutBytes(first, byte, times)
  BY DEF v, first, byte
<1>6. /\ first.low = c.low /\ first.range = c.range /\ first.bitsLeft = c.bitsLeft
      /\ first.buffer = c.buffer /\ first.numByte = c.numByte
  BY <1>3 DEF Engines
<1> QED BY <1>4, <1>5, <1>6

LEMMA Writing ==
  ASSUME NEW c, Unwritten(c)
  PROVE  /\ Written(WriteOutputBitstream(c))
         /\ WriteOutputBitstream(c).range = c.range
         /\ c.bitsLeft \in 5..16 => WriteOutputBitstream(c).bitsLeft \in 12..19
<1> DEFINE p     == Two(24 - c.bitsLeft)
           lead  == c.low \div p
           carry == lead \div 256
           low   == c.low % p
           rest  == [c EXCEPT !.bitsLeft = @ + 8, !.low = low]
           first == Put(rest, c.buffer + carry, BYTE)
           held  == PutBytes(first, Outstanding(carry), c.numByte - 1)
<1>1. /\ c \in Engines /\ c.bitsLeft \in 4..23 /\ c.range \in 1..510
      /\ c.low + c.range <= Two(32 - c.bitsLeft) * Room(c)
      /\ c.numByte = 0 => c.buffer = 255
  BY DEF Unwritten, Carries
<1>0. c \in Engines
  BY <1>1
<1>2. CASE c.bitsLeft >= 12
  <2>1. WriteOutputBitstream(c) = c
    <3>1. ~ (c.bitsLeft < 12)
      BY <1>1, <1>2
    <3> QED BY <1>2, <3>1 DEF WriteOutputBitstream
  <2> QED BY <1>1, <1>2, <2>1 DEF Written, Unwritten
<1>3. CASE c.bitsLeft < 12
  <2>1. /\ p \in Nat /\ p >= 8192 /\ lead \in Nat /\ low \in 0 .. (p - 1)
        /\ c.low = lead * p + low /\ c.low + c.range <= 256 * p * Room(c)
        /\ lead < 256 * Room(c)
    BY <1>3, LeadByte
  <2>2. /\ c.low \in Nat /\ c.buffer \in 0..255 /\ c.numByte \in Nat /\ c.codes \in Seq(Codes)
    BY <1>1, Fields
  <2>3. Masked(c.low, c.bitsLeft + 8) = low
    <3>1. 32 - (c.bitsLeft + 8) = 24 - c.bitsLeft
      BY <1>1
    <3> QED BY <3>1 DEF Masked, Two
  <2>4. 32 - (c.bitsLeft + 8) = 24 - c.bitsLeft /\ ~ (c.bitsLeft >= 12)
    BY <1>1, <1>3
  <2>5. /\ rest \in Engines /\ rest.low = low /\ rest.bitsLeft = c.bitsLeft + 8
        /\ rest.range = c.range /\ rest.buffer = c.buffer /\ rest.numByte = c.numByte
        /\ rest.codes = c.codes
    <3>1. low \in Nat /\ c.bitsLeft + 8 \in Int
      BY <1>1, <2>1
    <3> HIDE DEF low
    <3> QED BY <1>0, <3>1 DEF Engines
  <2>6. CASE lead = 255
    <3>1. WriteOutputBitstream(c) = [rest EXCEPT !.numByte = @ + 1]
      <4>1. c.low \div 2^(24 - c.bitsLeft) = 255
        BY <2>6 DEF Two
      <4> QED BY <1>3, <2>3, <2>4, <4>1 DEF WriteOutputBitstream, IsOutstanding
    <3> HIDE DEF p, lead, low, rest
    <3>2. low + c.range <= p * Room(c)
      <4>1. CASE c.buffer = 255
        BY <1>1, <2>1, <2>6, <4>1 DEF Room
      <4>2. CASE c.buffer # 255
        BY <1>1, <2>1, <4>2 DEF Room
      <4> QED BY <4>1, <4>2
    <3> DEFINE n   == c.numByte + 1
               new == [rest EXCEPT !.numByte = n]
    <3>3. /\ new \in Engines /\ new.low = low /\ new.bitsLeft = c.bitsLeft + 8
          /\ new.range = c.range /\ new.buffer = c.buffer /\ new.numByte = n
      <4>1. n \in Nat /\ rest \in Engines
        BY <2>2, <2>5
      <4> HIDE DEF n
      <4>2. /\ new \in Engines /\ new.low = rest.low /\ new.range = rest.range
            /\ new.bitsLeft = rest.bitsLeft /\ new.buffer = rest.buffer /\ new.numByte = n
        BY <4>1, Counted
      <4> QED BY <2>5, <4>2
    <3>4. WriteOutputBitstream(c) = new /\ n \in Nat /\ n # 0
      BY <2>2, <2>5, <3>1
    <3>5. Two(32 - new.bitsLeft) = p /\ Room(new) = Room(c)
      BY <2>4, <3>3 DEF p, Room
    <3> HIDE DEF new, n
    <3>6. Written(new)
      <4>1. new.bitsLeft \in 12..23 /\ new.range \in 1..510 /\ new.range > 0
        BY <1>1, <1>3, <3>3
      <4>2. new.low + new.range <= Two(32 - new.bitsLeft) * Room(new)
        BY <3>2, <3>3, <3>5
      <4>3. new \in Engines /\ new.numByte # 0
        BY <3>3, <3>4
      <4> QED BY <4>1, <4>2, <4>3 DEF Written, Carries
    <3> QED BY <1>1, <1>3, <3>3, <3>4, <3>6
  <2>7. CASE lead # 255
    <3> DEFINE new == [IF c.numByte > 0 THEN held ELSE rest
                         EXCEPT !.numByte = 1, !.buffer = lead % 256]
    <3>1. WriteOutputBitstream(c) = new
      <4>1. c.low \div 2^(24 - c.bitsLeft) = lead
        BY DEF Two
      <4> QED BY <1>3, <2>3, <2>4, <2>7, <4>1, Zenon DEF WriteOutputBitstream, IsOutstanding
    <3>2. /\ carry \in {0, 1}
          /\ carry = 1 => c.buffer # 255
          /\ lead % 256 \in 0..255
          /\ lead % 256 = 255 => lead = 511 /\ Room(c) = 2
      <4> HIDE DEF lead
      <4> QED BY <2>1, <2>7 DEF Room
    <3>3. held \in Engines /\ held.low = low /\ held.bitsLeft = c.bitsLeft + 8
          /\ held.range = c.range
      <4>1. c.buffer \in 0..255 /\ rest \in Engines /\ c.numByte - 1 \in Int
        BY <2>2, <2>5
      <4> HIDE DEF rest, carry
      <4>2. /\ held \in Engines /\ held.low = rest.low /\ held.range = rest.range
            /\ held.bitsLeft = rest.bitsLeft
        BY <3>2, <4>1, Holding
      <4> QED BY <2>5, <4>2
    <3>4. new \in Engines /\ new.low = low /\ new.bitsLeft = c.bitsLeft + 8
          /\ new.range = c.range /\ new.buffer = lead % 256 /\ new.numByte = 1
      <4> DEFINE old  == IF c.numByte > 0 THEN held ELSE rest
                 byte == lead % 256
      <4>1. old \in Engines /\ old.low = low /\ old.bitsLeft = c.bitsLeft + 8
            /\ old.range = c.range
        BY <2>5, <3>3
      <4>2. byte \in Bytes
        BY <3>2 DEF Bytes
      <4> DEFINE one == 1
      <4>3. new = [old EXCEPT !.numByte = one, !.buffer = byte] /\ one \in Nat
        OBVIOUS
      <4> HIDE DEF new, old, byte, one
      <4>4. /\ new \in Engines /\ new.low = old.low /\ new.range = old.range
            /\ new.bitsLeft = old.bitsLeft /\ new.buffer = byte /\ new.numByte = one
        <5>1. old \in Engines
          BY <4>1
        <5>2. one \in Nat
          BY <4>3
        <5>3. new = [old EXCEPT !.numByte = one, !.buffer = byte]
          BY <4>3
        <5>4. new.low = old.low BY <5>1, <5>3 DEF Engines
        <5>5. new.range = old.range BY <5>1, <5>3 DEF Engines
        <5>6. new.bitsLeft = old.bitsLeft BY <5>1, <5>3 DEF Engines
        <5>7. new.buffer = byte BY <5>1, <5>3 DEF Engines
        <5>8. new.numByte = one BY <5>1, <5>3 DEF Engines
        <5>9. new \in Engines BY <4>2, <5>1, <5>2, <5>3 DEF Engines
        <5> QED BY <5>4, <5>5, <5>6, <5>7, <5>8, <5>9
      <4> QED BY <4>1, <4>4 DEF byte, one
    <3>5. low + c.range <= p * Room(new)
      <4> HIDE DEF p, lead, low, new
      <4>1. CASE lead % 256 = 255
        BY <1>1, <2>1, <3>2, <3>4, <4>1 DEF Room
      <4>2. CASE lead % 256 # 255
        BY <1>1, <2>1, <3>4, <4>2 DEF Room
      <4> QED BY <4>1, <4>2
    <3> HIDE DEF new, low
    <3> QED BY <1>1, <1>3, <2>4, <3>1, <3>4, <3>5 DEF Written, Carries
  <2> QED BY <2>6, <2>7
<1> QED BY <1>1, <1>2, <1>3
--------------------------------------------------------------------------------
(* The operations.                                                         *)

(* After an operation that moved the interval by n bits.                   *)
After(c, range, n) ==
  /\ Written(c)
  /\ c.range = range
  /\ n = 7 => c.bitsLeft \in 12..19

(* The interval after n bits lies in the old one.                          *)
MovedBy(c, n, low, range, d) ==
  /\ Unwritten(d) /\ c.bitsLeft \in 12..23
  /\ d.low = low /\ d.range = range /\ d.bitsLeft = c.bitsLeft - n
  /\ d.buffer = c.buffer /\ d.numByte = c.numByte /\ d.codes = c.codes

LEMMA MovingIn ==
  ASSUME NEW c, Ready(c), NEW n, n \in 0..8, NEW low, low \in Nat,
         NEW range, range \in 1..510, low + range <= (c.low + c.range) * Two(n),
         NEW d, d = [c EXCEPT !.low = low, !.range = range, !.bitsLeft = c.bitsLeft - n]
  PROVE  MovedBy(c, n, low, range, d)
<1>1. c \in Engines
  BY DEF Ready, Written, Carries
<1>2. /\ c.bitsLeft \in 12..23
      /\ c.low + c.range <= Two(32 - c.bitsLeft) * Room(c)
      /\ c.numByte = 0 => c.buffer = 255
  BY DEF Ready, Written, Carries
<1>3. c.low \in Nat /\ c.range \in Nat
  BY <1>1, Fields
<1>4. range \in Nat /\ range > 0
  OBVIOUS
<1> DEFINE bitsLeft == c.bitsLeft - n
<1>5. bitsLeft \in 4..23 /\ bitsLeft \in Int
  BY <1>2
<1>6. d = [c EXCEPT !.low = low, !.range = range, !.bitsLeft = bitsLeft]
  OBVIOUS
<1> HIDE DEF bitsLeft
<1>7. d \in Engines
  BY <1>1, <1>4, <1>5, <1>6 DEF Engines
<1>8. d.low = low /\ d.range = range /\ d.bitsLeft = bitsLeft
  BY <1>1, <1>6 DEF Engines
<1>9. d.buffer = c.buffer /\ d.numByte = c.numByte /\ d.codes = c.codes
  BY <1>1, <1>6 DEF Engines
<1>10. low + range <= Two(32 - bitsLeft) * Room(d)
  <2>1. Room(d) = Room(c) /\ Room(c) \in {1, 2}
    BY <1>9 DEF Room
  <2>2. Two(32 - bitsLeft) = Two(32 - c.bitsLeft) * Two(n)
    <3>1. 32 - c.bitsLeft \in 0..24 /\ 32 - bitsLeft = (32 - c.bitsLeft) + n
      BY <1>2 DEF bitsLeft
    <3> QED BY <3>1, Adding
  <2>3. Two(n) \in {1, 2, 4, 8, 16, 32, 64, 128, 256}
    BY Powers
  <2>4. Two(32 - c.bitsLeft) \in Nat
    <3>1. 32 - c.bitsLeft \in 0..32
      BY <1>2
    <3> QED BY <3>1, Doubling
  <2> DEFINE old == Two(32 - c.bitsLeft)
             sum == c.low + c.range
             pow == Two(n)
             new == low + range
  <2>5. old \in Nat /\ sum \in Nat /\ new \in Nat /\ pow \in {1, 2, 4, 8, 16, 32, 64, 128, 256}
        /\ sum <= old * Room(c) /\ new <= sum * pow
    BY <1>2, <1>3, <1>4, <2>3, <2>4
  <2> HIDE DEF old, sum, pow, new
  <2>6. new <= (old * pow) * Room(c)
    BY <2>1, <2>5
  <2> QED BY <2>1, <2>2, <2>6 DEF old, new, pow
<1>11. Unwritten(d)
  <2>1. d.numByte = 0 => d.buffer = 255
    BY <1>2, <1>9
  <2>2. d.range > 0 /\ d.range \in 1..510 /\ d.bitsLeft \in 4..23
    BY <1>4, <1>5, <1>8
  <2>3. d.low + d.range <= Two(32 - d.bitsLeft) * Room(d)
    BY <1>8, <1>10
  <2> QED BY <1>7, <2>1, <2>2, <2>3 DEF Unwritten, Carries
<1> QED BY <1>2, <1>8, <1>9, <1>11 DEF bitsLeft, MovedBy

LEMMA Moving ==
  ASSUME NEW c, Ready(c), NEW n, n \in 0..8, NEW low, low \in Nat,
         NEW range, range \in 1..510, low + range <= (c.low + c.range) * Two(n),
         NEW d, d = [c EXCEPT !.low = low, !.range = range, !.bitsLeft = c.bitsLeft - n]
  PROVE  After(WriteOutputBitstream(d), range, n)
<1>0. MovedBy(c, n, low, range, d)
  BY MovingIn
<1>1. Unwritten(d) /\ d.range = range
  BY <1>0 DEF MovedBy
<1>2. c.bitsLeft \in 12..23 /\ d.bitsLeft = c.bitsLeft - n
  BY <1>0 DEF MovedBy
<1>3. n = 7 => d.bitsLeft \in 5..16
  BY <1>2
<1> QED BY <1>1, <1>3, Writing DEF After

LEMMA Shifting ==
  ASSUME NEW c, Ready(c), NEW n, n \in 0..8, NEW low, low \in Nat,
         NEW range, range \in Nat, low + range <= c.low + c.range,
         range * Two(n) \in 1..510
  PROVE  After(Shifted(c, low, range, n), range * Two(n), n)
<1>1. c \in Engines
  BY DEF Ready, Written, Carries
<1>2. c.low \in Nat /\ c.range \in Nat
  BY <1>1, Fields
<1>3. Two(n) \in {1, 2, 4, 8, 16, 32, 64, 128, 256}
  BY Powers
<1> DEFINE l == low * Two(n)
           r == range * Two(n)
           d == [c EXCEPT !.low = l, !.range = r, !.bitsLeft = c.bitsLeft - n]
<1>4. l \in Nat
  BY <1>3
<1>5. l + r <= (c.low + c.range) * Two(n)
  <2> DEFINE pow == Two(n)
  <2>1. pow \in {1, 2, 4, 8, 16, 32, 64, 128, 256}
    BY <1>3
  <2> HIDE DEF pow
  <2>2. low * pow + range * pow <= (c.low + c.range) * pow
    BY <1>2, <2>1
  <2> QED BY <2>2 DEF pow
<1>6. Shifted(c, low, range, n) = WriteOutputBitstream(d)
  BY DEF Shifted, Two
<1>7. d = [c EXCEPT !.low = l, !.range = r, !.bitsLeft = c.bitsLeft - n] /\ r \in 1..510
  OBVIOUS
<1> HIDE DEF d, l
<1>8. After(WriteOutputBitstream(d), r, n)
  <2> HIDE DEF r
  <2>1. r \in 1..510
    BY <1>7
  <2>2. d = [c EXCEPT !.low = l, !.range = r, !.bitsLeft = c.bitsLeft - n]
    BY <1>7
  <2> QED BY <1>4, <1>5, <2>1, <2>2, Moving
<1> QED BY <1>6, <1>8
(* The least probable range is the smaller part of the interval, so that   *)
(* one bit is enough for the other part.                                   *)
LEMMA LPSRanges ==
  ASSUME NEW row, row \in LPSRows, NEW range, range \in 256..510
  PROVE  /\ LPSRange(row, range) \in 6..240
         /\ range - LPSRange(row, range) \in 128..504
<1>1. /\ row[1] \in 6..128 /\ row[2] \in 6..176 /\ row[3] \in 6..208 /\ row[4] \in 6..240
  <2>1. row \in [1..4 -> 6..240] /\ row[1] <= 128 /\ row[2] <= 176 /\ row[3] <= 208
    BY LPSRowsAssumption
  <2>2. row[1] \in 6..240 /\ row[2] \in 6..240 /\ row[3] \in 6..240 /\ row[4] \in 6..240
    BY <2>1
  <2> QED BY <2>1, <2>2
<1>2. CASE range \in 256..319
  <2>1. ((range \div 64) % 4) + 1 = 1
    BY <1>2
  <2>2. LPSRange(row, range) = row[1]
    BY <2>1, Zenon DEF LPSRange
  <2>3. row[1] \in 6..128
    BY <1>1
  <2> DEFINE uiLPS == LPSRange(row, range)
  <2>4. uiLPS \in 6..128
    BY <2>2, <2>3
  <2> HIDE DEF uiLPS
  <2>5. uiLPS \in 6..240 /\ range - uiLPS \in 128..504
    BY <1>2, <2>4
  <2> QED BY <2>5 DEF uiLPS
<1>3. CASE range \in 320..383
  <2>1. ((range \div 64) % 4) + 1 = 2
    BY <1>3
  <2>2. LPSRange(row, range) = row[2]
    BY <2>1, Zenon DEF LPSRange
  <2>3. row[2] \in 6..176
    BY <1>1
  <2> DEFINE uiLPS == LPSRange(row, range)
  <2>4. uiLPS \in 6..176
    BY <2>2, <2>3
  <2> HIDE DEF uiLPS
  <2>5. uiLPS \in 6..240 /\ range - uiLPS \in 128..504
    BY <1>3, <2>4
  <2> QED BY <2>5 DEF uiLPS
<1>4. CASE range \in 384..447
  <2>1. ((range \div 64) % 4) + 1 = 3
    BY <1>4
  <2>2. LPSRange(row, range) = row[3]
    BY <2>1, Zenon DEF LPSRange
  <2>3. row[3] \in 6..208
    BY <1>1
  <2> DEFINE uiLPS == LPSRange(row, range)
  <2>4. uiLPS \in 6..208
    BY <2>2, <2>3
  <2> HIDE DEF uiLPS
  <2>5. uiLPS \in 6..240 /\ range - uiLPS \in 128..504
    BY <1>4, <2>4
  <2> QED BY <2>5 DEF uiLPS
<1>5. CASE range \in 448..510
  <2>1. ((range \div 64) % 4) + 1 = 4
    BY <1>5
  <2>2. LPSRange(row, range) = row[4]
    BY <2>1, Zenon DEF LPSRange
  <2>3. row[4] \in 6..240
    BY <1>1
  <2> DEFINE uiLPS == LPSRange(row, range)
  <2>4. uiLPS \in 6..240
    BY <2>2, <2>3
  <2> HIDE DEF uiLPS
  <2>5. uiLPS \in 6..240 /\ range - uiLPS \in 128..504
    BY <1>5, <2>4
  <2> QED BY <2>5 DEF uiLPS
<1> QED BY <1>2, <1>3, <1>4, <1>5

LEMMA Logarithm ==
  ASSUME NEW k, k \in 0..4, NEW q, q \in Nat, Two(k) <= q, q < Two(k + 1)
  PROVE  LOG2(q) = k + 1
<1>1. /\ Two(0) = 1 /\ Two(1) = 2 /\ Two(2) = 4 /\ Two(3) = 8 /\ Two(4) = 16 /\ Two(5) = 32
  BY Powers
<1>2. q \in 1..31 /\ q # 0
  BY <1>1
<1>3. \A j \in 5..30 : Two(j) \in Nat /\ Two(j) >= 32
  BY Powers, SMTT(30)
<1>4. Two(k) <= q /\ q \div 2 < Two(k)
  BY <1>1
<1>5. \A j \in 0..30 : Two(j) <= q /\ q \div 2 < Two(j) => j = k
  <2> TAKE j \in 0..30
  <2>1. CASE j \in 5..30
    BY <1>2, <1>3, <2>1
  <2>2. CASE j \in 0..4
    BY <1>1, <2>2
  <2> QED BY <2>1, <2>2
<1> DEFINE K == {j \in 0..30 : Two(j) <= q /\ q \div 2 < Two(j)}
<1>6. K = {k}
  <2>1. k \in 0..30
    OBVIOUS
  <2> QED BY <1>4, <1>5, <2>1
<1>7. LOG2(q) = 1 + CHOOSE j \in K : TRUE
  <2>1. LOG2(q) = 1 + CHOOSE j \in 0..30 : Two(j) <= q /\ q \div 2 < Two(j)
    BY <1>2, Zenon DEF LOG2, Two
  <2>2. (CHOOSE j \in 0..30 : Two(j) <= q /\ q \div 2 < Two(j)) = CHOOSE j \in K : TRUE
    <3>1. \A j : (j \in 0..30 /\ Two(j) <= q /\ q \div 2 < Two(j)) <=> (j \in K /\ TRUE)
      OBVIOUS
    <3> QED BY <3>1, Zenon
  <2> QED BY <2>1, <2>2, Zenon
<1> DEFINE choice == CHOOSE j \in K : TRUE
<1>8. choice = k
  <2> HIDE DEF K
  <2> QED BY <1>6
<1>9. LOG2(q) = 1 + choice
  BY <1>7, Zenon
<1> HIDE DEF choice
<1> QED BY <1>8, <1>9

LEMMA Renormalised ==
  ASSUME NEW uiLPS, uiLPS \in 6..240
  PROVE  /\ RenormBits(uiLPS) \in 0..8
         /\ uiLPS * Two(RenormBits(uiLPS)) \in 256..510
<1> DEFINE q == uiLPS \div 8
<1>1. q \in Nat
  OBVIOUS
<1>2. /\ Two(0) = 1 /\ Two(1) = 2 /\ Two(2) = 4 /\ Two(3) = 8 /\ Two(4) = 16
      /\ Two(5) = 32 /\ Two(6) = 64
  BY Powers
<1>3. LOG2(0) = 0
  BY DEF LOG2
<1>4. \A k \in 0..4 : Two(k) <= q /\ q < Two(k + 1) => RenormBits(uiLPS) = 5 - k
  <2> TAKE k \in 0..4
  <2> HAVE Two(k) <= q /\ q < Two(k + 1)
  <2>1. LOG2(q) = k + 1
    BY <1>1, Logarithm
  <2>2. RenormBits(uiLPS) = 6 - LOG2(q)
    BY DEF RenormBits
  <2> QED BY <2>1, <2>2
<1>5. CASE uiLPS \in 6..7
  <2>1. q = 0
    BY <1>5
  <2>2. RenormBits(uiLPS) = 6
    BY <1>3, <2>1 DEF RenormBits
  <2> QED BY <1>2, <1>5, <2>2
<1>6. CASE uiLPS \in 8..15
  <2>1. q = 1 /\ 0 \in 0..4 /\ 0 + 1 = 1
    BY <1>6
  <2>2. RenormBits(uiLPS) = 5
    BY <1>2, <1>4, <2>1
  <2> QED BY <1>2, <1>6, <2>2
<1>7. CASE uiLPS \in 16..31
  <2>1. q \in 2..3 /\ 1 \in 0..4 /\ 1 + 1 = 2
    BY <1>7
  <2>2. RenormBits(uiLPS) = 4
    BY <1>2, <1>4, <2>1
  <2> QED BY <1>2, <1>7, <2>2
<1>8. CASE uiLPS \in 32..63
  <2>1. q \in 4..7 /\ 2 \in 0..4 /\ 2 + 1 = 3
    BY <1>8
  <2>2. RenormBits(uiLPS) = 3
    BY <1>2, <1>4, <2>1
  <2> QED BY <1>2, <1>8, <2>2
<1>9. CASE uiLPS \in 64..127
  <2>1. q \in 8..15 /\ 3 \in 0..4 /\ 3 + 1 = 4
    BY <1>9
  <2>2. RenormBits(uiLPS) = 2
    BY <1>2, <1>4, <2>1
  <2> QED BY <1>2, <1>9, <2>2
<1>10. CASE uiLPS \in 128..240
  <2>1. q \in 16..31 /\ 4 \in 0..4 /\ 4 + 1 = 5
    BY <1>10
  <2>2. RenormBits(uiLPS) = 1
    BY <1>2, <1>4, <2>1
  <2> QED BY <1>2, <1>10, <2>2
<1> QED BY <1>5, <1>6, <1>7, <1>8, <1>9, <1>10

LEMMA MPSRenormalised ==
  ASSUME NEW range, range \in 128..508
  PROVE  /\ MPSShift(range) \in 0..8
         /\ range * Two(MPSShift(range)) \in 256..510
BY Powers DEF MPSShift

(* A bin coded with a context. *)
LEMMA EncodingBin ==
  ASSUME NEW c, Ready(c), NEW row, row \in LPSRows, NEW lps, lps \in BOOLEAN
  PROVE  Ready(EncodeBin(c, row, lps))
<1>1. c \in Engines /\ c.range \in 256..510
  BY DEF Ready, Written, Carries
<1>2. c.low \in Nat /\ c.range \in Nat
  BY <1>1, Fields
<1> DEFINE uiLPS == LPSRange(row, c.range)
           range == c.range - uiLPS
<1>3. uiLPS \in 6..240 /\ range \in 128..504
  BY <1>1, LPSRanges
<1> HIDE DEF uiLPS
<1>4. CASE lps
  <2> DEFINE n   == RenormBits(uiLPS)
             low == c.low + range
  <2>1. n \in 0..8 /\ uiLPS * Two(n) \in 256..510
    BY <1>3, Renormalised
  <2>2. low \in Nat /\ uiLPS \in Nat /\ low + uiLPS <= c.low + c.range
    BY <1>2, <1>3
  <2>3. EncodeBin(c, row, lps) = Shifted(c, low, uiLPS, n)
    BY <1>4 DEF EncodeBin, uiLPS
  <2> HIDE DEF n, low
  <2>4. uiLPS * Two(n) \in 1..510
    BY <2>1
  <2>5. After(Shifted(c, low, uiLPS, n), uiLPS * Two(n), n)
    BY <2>1, <2>2, <2>4, Shifting
  <2> QED BY <2>1, <2>3, <2>5 DEF After, Ready
<1>5. CASE ~lps
  <2> DEFINE n == MPSShift(range)
  <2>1. n \in 0..8 /\ range * Two(n) \in 256..510
    <3>1. range \in 128..508
      BY <1>3
    <3> HIDE DEF range
    <3> QED BY <3>1, MPSRenormalised
  <2>2. range \in Nat /\ c.low + range <= c.low + c.range
    BY <1>2, <1>3
  <2>3. EncodeBin(c, row, lps) = Shifted(c, c.low, range, n)
    BY <1>5 DEF EncodeBin, uiLPS
  <2> HIDE DEF n, range
  <2>4. range * Two(n) \in 1..510
    BY <2>1
  <2>5. After(Shifted(c, c.low, range, n), range * Two(n), n)
    BY <1>2, <2>1, <2>2, <2>4, Shifting
  <2> QED BY <2>1, <2>3, <2>5 DEF After, Ready
<1> QED BY <1>4, <1>5
(* Up to eight bypass bins: their number takes part of the interval.       *)
LEMMA EncodingEP ==
  ASSUME NEW c, Ready(c), NEW n, n \in 1..8, NEW value, value \in Nat, value <= Two(n) - 1
  PROVE  Ready(EncodeEP(c, value, n))
<1>1. c \in Engines /\ c.range \in 256..510
  BY DEF Ready, Written, Carries
<1>2. c.low \in Nat /\ c.range \in Nat
  BY <1>1, Fields
<1>3. Two(n) \in {1, 2, 4, 8, 16, 32, 64, 128, 256}
  BY Powers
<1> DEFINE l   == c.low * Two(n) + c.range * value
           r   == c.range
           d   == [c EXCEPT !.low = l, !.range = r, !.bitsLeft = c.bitsLeft - n]
           pow == Two(n)
<1>4. l \in Nat /\ l + r <= (c.low + c.range) * Two(n)
  <2>1. pow \in {1, 2, 4, 8, 16, 32, 64, 128, 256} /\ value + 1 <= pow
    BY <1>3
  <2> HIDE DEF pow
  <2>2. c.range * value \in Nat /\ c.range * value + c.range <= c.range * pow
    <3>1. c.range * (value + 1) <= c.range * pow
      BY <1>2, <2>1
    <3> QED BY <1>2, <2>1, <3>1
  <2>3. c.low * pow \in Nat /\ (c.low + c.range) * pow = c.low * pow + c.range * pow
    BY <1>2, <2>1
  <2> DEFINE x == c.low * pow
             y == c.range * value
             z == c.range * pow
  <2>4. x \in Nat /\ y \in Nat /\ z \in Nat /\ y + c.range <= z
    BY <1>2, <2>1, <2>2, <2>3
  <2>5. (c.low + c.range) * pow = x + z /\ l = x + y
    BY <2>3 DEF pow
  <2> HIDE DEF x, y, z, l
  <2>6. l \in Nat /\ l + r <= x + z
    BY <1>2, <2>4, <2>5
  <2> QED BY <2>5, <2>6 DEF pow
<1>5. d = [c EXCEPT !.low = l, !.range = r, !.bitsLeft = c.bitsLeft - n] /\ r \in 1..510
  BY <1>1
<1>6. EncodeEP(c, value, n) = WriteOutputBitstream(d)
  <2>1. d = [c EXCEPT !.low = l, !.bitsLeft = c.bitsLeft - n]
    BY <1>1 DEF Engines
  <2>2. EncodeEP(c, value, n)
          = WriteOutputBitstream([c EXCEPT !.low = l, !.bitsLeft = c.bitsLeft - n])
    BY DEF EncodeEP, Two
  <2> QED BY <2>1, <2>2
<1> HIDE DEF d, l
<1>7. After(WriteOutputBitstream(d), r, n)
  <2> HIDE DEF r
  <2>1. r \in 1..510
    BY <1>5
  <2>2. d = [c EXCEPT !.low = l, !.range = r, !.bitsLeft = c.bitsLeft - n]
    BY <1>5
  <2>3. n \in 0..8
    OBVIOUS
  <2> QED BY <1>4, <2>1, <2>2, <2>3, Moving
<1> QED BY <1>1, <1>6, <1>7 DEF After, Ready

(* What fits n bits, as the callers of EncodeBinsEP have it.               *)
Fits(value, n) == value \in Nat /\ n \in 1..20 /\ value <= Two(n) - 1

LEMMA EncodingBinsEP ==
  ASSUME NEW c, Ready(c), NEW value, NEW n, Fits(value, n)
  PROVE  Ready(EncodeBinsEP(c, value, n))
<1>1. value \in Nat /\ n \in 1..20
  BY DEF Fits
<1> DEFINE chunks  == (n - 1) \div 8
           Byte(k) == (value \div 2^(n - 8*k)) % 256
           F(put)  == [k \in 0..chunks |->
                         IF k = 0 THEN c ELSE EncodeEP(put[k-1], Byte(k), 8)]
           put     == CHOOSE f : f = F(f)
           one     == EncodeEP(c, Byte(1), 8)
           two     == EncodeEP(one, Byte(2), 8)
           last    == n - 8 * chunks
<1>2. chunks \in 0..2 /\ last \in 1..8
  BY <1>1
<1>3. put = F(put)
  <2> DEFINE g == [k \in 0..chunks |-> IF k = 0 THEN c ELSE IF k = 1 THEN one ELSE two]
  <2>1. ASSUME NEW k \in 0..chunks
        PROVE  g[k] = IF k = 0 THEN c ELSE EncodeEP(g[k-1], Byte(k), 8)
    <3>1. k \in {0, 1, 2}
      BY <1>2
    <3>2. CASE k = 0
      BY <3>2
    <3>3. CASE k = 1
      <4>1. g[0] = c /\ g[1] = one /\ 1 - 1 = 0
        BY <1>2, <3>3
      <4> QED BY <3>3, <4>1
    <3>4. CASE k = 2
      <4>1. g[1] = one /\ g[2] = two /\ 2 - 1 = 1
        BY <1>2, <3>4
      <4> QED BY <3>4, <4>1
    <3> QED BY <3>1, <3>2, <3>3, <3>4
  <2>2. g = F(g)
    <3> HIDE DEF one, two, Byte
    <3>1. g = [k \in 0..chunks |-> g[k]]
      OBVIOUS
    <3> HIDE DEF g, chunks
    <3> QED BY <2>1, <3>1
  <2> QED BY <2>2
<1>4. \A k \in 1..chunks : Byte(k) \in Nat /\ Byte(k) <= Two(8) - 1
  <2> TAKE k \in 1..chunks
  <2> DEFINE p == Two(n - 8*k)
  <2>1. n - 8*k \in 0..32
    BY <1>1, <1>2
  <2>2. p \in Nat /\ p > 0
    BY <2>1, Doubling
  <2> HIDE DEF p
  <2>3. value \div p \in Nat
    BY <1>1, <2>2, Division
  <2>4. Byte(k) = (value \div p) % 256
    BY DEF p, Two
  <2>5. Two(8) = 256
    BY Powers
  <2> QED BY <2>3, <2>4, <2>5
<1>5. value % Two(last) \in Nat /\ value % Two(last) <= Two(last) - 1
  <2> DEFINE p == Two(last)
  <2>1. p \in Nat /\ p > 0
    <3>1. last \in 0..32
      BY <1>2
    <3> QED BY <3>1, Doubling
  <2> HIDE DEF p
  <2>2. value % p \in 0 .. (p - 1)
    BY <1>1, <2>1, Division
  <2>3. value % p \in Nat /\ value % p <= p - 1
    BY <2>1, <2>2
  <2> QED BY <2>3 DEF p
<1>6. EncodeBinsEP(c, value, n) = EncodeEP(put[chunks], value % Two(last), last)
  BY Zenon DEF EncodeBinsEP, Two
<1>7. Ready(put[chunks])
  <2>1. put[0] = c
    <3>1. 0 \in 0..chunks
      BY <1>2
    <3> HIDE DEF put
    <3> QED BY <1>3, <3>1
  <2>2. ASSUME NEW k \in 1..chunks, Ready(put[k-1]) PROVE Ready(put[k])
    <3>1. k \in 0..chunks /\ k # 0
      BY <1>2
    <3>2. put[k] = EncodeEP(put[k-1], Byte(k), 8)
      <4> HIDE DEF put, Byte
      <4> QED BY <1>3, <3>1
    <3>3. Byte(k) \in Nat /\ Byte(k) <= Two(8) - 1
      BY <1>4
    <3>4. 8 \in 1..8
      OBVIOUS
    <3> DEFINE byte == Byte(k)
    <3>5. byte \in Nat /\ byte <= Two(8) - 1
      BY <3>3
    <3> HIDE DEF put, Byte, byte
    <3>6. Ready(EncodeEP(put[k-1], byte, 8))
      BY <2>2, <3>4, <3>5, EncodingEP
    <3> QED BY <3>2, <3>6 DEF byte
  <2> HIDE DEF put, Byte, F
  <2>3. CASE chunks = 0
    BY <2>1, <2>3
  <2>4. CASE chunks = 1
    <3>1. 1 \in 1..chunks /\ 1 - 1 = 0
      BY <2>4
    <3>2. Ready(put[1 - 1])
      BY <2>1, <3>1
    <3> QED BY <2>2, <2>4, <3>1, <3>2
  <2>5. CASE chunks = 2
    <3>1. 1 \in 1..chunks /\ 1 - 1 = 0 /\ 2 \in 1..chunks /\ 2 - 1 = 1
      BY <2>5
    <3>2. Ready(put[1 - 1])
      BY <2>1, <3>1
    <3>3. Ready(put[1])
      BY <2>2, <3>1, <3>2
    <3>4. Ready(put[2 - 1])
      BY <3>1, <3>3
    <3> QED BY <2>2, <2>5, <3>1, <3>4
  <2> QED BY <1>2, <2>3, <2>4, <2>5
<1> HIDE DEF put, last
<1>8. Ready(EncodeEP(put[chunks], value % Two(last), last))
  <2> DEFINE v == value % Two(last)
  <2>1. v \in Nat /\ v <= Two(last) - 1
    BY <1>5
  <2>2. last \in 1..8
    BY <1>2
  <2> HIDE DEF v
  <2>3. Ready(EncodeEP(put[chunks], v, last))
    BY <1>7, <2>1, <2>2, EncodingEP
  <2> QED BY <2>3 DEF v
<1> QED BY <1>6, <1>8
(* The prefix and the suffix of a remainder fit their lengths, which are   *)
(* at most 19 and 15.                                                      *)
LEMMA GolombLengths ==
  ASSUME NEW number, number \in Nat, number < Two(15), NEW param, param \in 0..4
  PROVE  LET length == GolombLength(number, param)
         IN  /\ length \in param..15
             /\ number - (Two(length) - Two(param)) \in Nat
             /\ number - (Two(length) - Two(param)) <= Two(length) - 1
<1> DEFINE Short(n) == number < Two(n + 1) - Two(param)
           T        == {n \in param..20 : Short(n)}
           length   == GolombLength(number, param)
<1>0. Two(param) \in {1, 2, 4, 8, 16}
  BY Powers
<1>1. 15 \in T
  <2>1. Two(15 + 1) = 2 * Two(15) /\ Two(15) \in Nat
    <3>1. 15 \in 0..31 /\ 15 \in 0..32
      OBVIOUS
    <3> QED BY <3>1, Doubling
  <2>2. Two(15) >= 16
    BY Powers
  <2>3. Short(15)
    <3> DEFINE p == Two(15)
               q == Two(15 + 1)
               r == Two(param)
    <3>1. p \in Nat /\ q = 2 * p /\ p >= 16 /\ r \in {1, 2, 4, 8, 16} /\ number < p
      BY <1>0, <2>1, <2>2
    <3> HIDE DEF p, q, r
    <3>2. number < q - r
      BY <3>1
    <3> QED BY <3>2 DEF q, r
  <2>4. 15 \in param..20
    OBVIOUS
  <2> HIDE DEF Short
  <2> QED BY <2>3, <2>4
<1>2. length = CHOOSE x \in T : \A y \in T : x <= y
  BY DEF GolombLength, Min, Two
<1>3. length \in T /\ \A y \in T : length <= y
  <2> HIDE DEF length
  <2>1. T \subseteq Nat
    <3> HIDE DEF Short
    <3> QED OBVIOUS
  <2> HIDE DEF T
  <2>2. T # {}
    BY <1>1
  <2>3. \E x \in T : \A y \in T : x <= y
    BY <2>1, <2>2, LeastNatural, Zenon
  <2> QED BY <1>2, <2>3
<1> HIDE DEF length
<1>4. length \in param..20 /\ Short(length)
  <2> HIDE DEF Short
  <2> QED BY <1>3
<1>5. length <= 15
  <2> HIDE DEF T
  <2> QED BY <1>1, <1>3
<1>6. Two(length + 1) = 2 * Two(length) /\ Two(length) \in Nat
  <2>1. length \in 0..31 /\ length \in 0..32
    <3> HIDE DEF Short
    <3> QED BY <1>4
  <2> QED BY <2>1, Doubling
<1> DEFINE p == Two(length)
           r == Two(param)
<1>7. number >= p - r
  <2>1. CASE length = param
    <3>1. p = r /\ r \in Nat
      BY <1>0, <2>1
    <3> HIDE DEF p, r
    <3> QED BY <3>1
  <2>2. CASE length # param
    <3> HIDE DEF Short
    <3>1. length - 1 \in param..20 /\ (length - 1) + 1 = length
      BY <1>4, <2>2
    <3>2. length - 1 \notin T
      <4>1. ~ (length <= length - 1)
        BY <1>4
      <4> HIDE DEF T
      <4> QED BY <1>3, <4>1
    <3>3. ~ Short(length - 1)
      BY <3>1, <3>2
    <3>4. ~ (number < Two((length - 1) + 1) - r)
      BY <3>3 DEF Short
    <3>5. ~ (number < p - r)
      BY <3>1, <3>4
    <3>6. p \in Nat /\ r \in Nat
      BY <1>0, <1>6
    <3> HIDE DEF p, r
    <3> QED BY <3>5, <3>6
  <2> QED BY <2>1, <2>2
<1>8. length \in param..15
  <2> HIDE DEF Short
  <2> QED BY <1>4, <1>5
<1>9. number - (p - r) \in Nat /\ number - (p - r) <= p - 1
  <2>1. number < 2 * p - r
    BY <1>4, <1>6
  <2>2. p \in Nat /\ r \in Nat
    BY <1>0, <1>6
  <2> HIDE DEF p, r
  <2> QED BY <1>7, <2>1, <2>2
<1> QED BY <1>8, <1>9 DEF length

LEMMA PairOfOnes ==
  ASSUME NEW S, NEW s \in Seq(S), NEW t \in Seq(S), Len(s) = 1, Len(t) = 1
  PROVE  (s \o t)[1] = s[1] /\ (s \o t)[2] = t[1]
OBVIOUS

(* Two codes at most, each of which fits; the suffix may be missing.       *)
LEMMA RemainderCodes ==
  ASSUME NEW symbol, symbol \in Nat, symbol < Two(15), NEW param, param \in 0..4
  PROVE  LET codes == CoeffRemainCodes(symbol, param)
         IN  /\ Fits(codes[1][1], codes[1][2])
             /\ Len(codes) # 1 => Fits(codes[2][1], codes[2][2])
<1> DEFINE number == symbol - COEF_REMAIN_BIN_REDUCTION * 2^param
           length == GolombLength(number, param)
           ones   == IF number < 0 THEN symbol \div 2^param
                                   ELSE COEF_REMAIN_BIN_REDUCTION + length - param
           suffix == IF number < 0 THEN <<symbol % 2^param, param>>
                                   ELSE <<number - (2^length - 2^param), length>>
           prefix == <<2^(ones + 1) - 2, ones + 1>>
           codes  == CoeffRemainCodes(symbol, param)
<1>1. codes = <<prefix>> \o IF suffix[2] > 0 THEN <<suffix>> ELSE <<>>
  BY DEF CoeffRemainCodes
<1>2. Two(param) \in {1, 2, 4, 8, 16} /\ Two(15) \in Nat
  BY Powers
<1>3. number = symbol - 3 * Two(param)
  BY DEF COEF_REMAIN_BIN_REDUCTION, Two
<1> HIDE DEF number
<1>4. /\ number \in Int /\ number < Two(15)
      /\ number < 0 => symbol < 3 * Two(param)
  <2> DEFINE p == Two(param)
             m == Two(15)
  <2>1. p \in {1, 2, 4, 8, 16} /\ m \in Nat /\ number = symbol - 3 * p /\ symbol < m
    BY <1>2, <1>3
  <2> HIDE DEF p, m
  <2>2. number \in Int /\ number < m /\ number < 0 => symbol < 3 * p
    BY <2>1
  <2>3. number \in Int /\ number < m
    BY <2>1
  <2> QED BY <2>2, <2>3 DEF p, m
<1>5. number >= 0 => /\ length \in param..15
                     /\ number - (Two(length) - Two(param)) \in Nat
                     /\ number - (Two(length) - Two(param)) <= Two(length) - 1
  <2> HAVE number >= 0
  <2>1. number \in Nat /\ number < Two(15)
    BY <1>4
  <2> QED BY <2>1, GolombLengths DEF length
<1> HIDE DEF length
<1>6. ones \in 0..18
  <2>1. CASE number < 0
    <3>1. ones = symbol \div Two(param)
      BY <2>1 DEF Two
    <3>2. symbol \div Two(param) \in 0..2
      <4> DEFINE p == Two(param)
      <4>1. p \in Nat /\ p > 0 /\ symbol < 3 * p /\ 3 \in Nat
        BY <1>2, <1>4, <2>1
      <4> HIDE DEF p
      <4>2. symbol \div p \in Nat /\ symbol \div p < 3
        BY <4>1, Division, Quotient
      <4>3. symbol \div p \in 0..2
        BY <4>2
      <4> QED BY <4>3 DEF p
    <3> QED BY <3>1, <3>2
  <2>2. CASE ~ (number < 0)
    <3>1. number >= 0
      BY <1>3, <2>2
    <3>2. length \in param..15
      BY <1>5, <3>1
    <3> QED BY <2>2, <3>2 DEF COEF_REMAIN_BIN_REDUCTION
  <2> QED BY <2>1, <2>2
<1>7. Fits(prefix[1], prefix[2])
  <2> HIDE DEF ones
  <2>1. \A n \in 0..18 : Two(n + 1) \in Nat /\ Two(n + 1) >= 2
    BY Powers, SMTT(30)
  <2>2. Two(ones + 1) - 2 \in Nat /\ Two(ones + 1) - 2 <= Two(ones + 1) - 1
    BY <1>6, <2>1
  <2>3. ones + 1 \in 1..20
    BY <1>6
  <2>4. prefix[1] = Two(ones + 1) - 2 /\ prefix[2] = ones + 1
    BY DEF Two
  <2> HIDE DEF prefix
  <2> QED BY <2>2, <2>3, <2>4 DEF Fits
<1>8. suffix[2] > 0 => Fits(suffix[1], suffix[2])
  <2> HAVE suffix[2] > 0
  <2>1. CASE number < 0
    <3>1. suffix[1] = symbol % Two(param) /\ suffix[2] = param
      BY <2>1 DEF Two
    <3>2. symbol % Two(param) \in Nat /\ symbol % Two(param) <= Two(param) - 1
      <4> DEFINE p == Two(param)
      <4>1. p \in Nat /\ p > 0
        BY <1>2
      <4> HIDE DEF p
      <4>2. symbol % p \in 0 .. (p - 1)
        BY <4>1, Division
      <4>3. symbol % p \in Nat /\ symbol % p <= p - 1
        BY <4>1, <4>2
      <4> QED BY <4>3 DEF p
    <3> HIDE DEF suffix
    <3> QED BY <3>1, <3>2 DEF Fits
  <2>2. CASE ~ (number < 0)
    <3>1. number >= 0
      BY <1>3, <2>2
    <3>2. /\ length \in param..15
          /\ number - (Two(length) - Two(param)) \in Nat
          /\ number - (Two(length) - Two(param)) <= Two(length) - 1
      BY <1>5, <3>1
    <3>3. suffix[1] = number - (Two(length) - Two(param)) /\ suffix[2] = length
      BY <2>2 DEF Two
    <3> HIDE DEF suffix
    <3> QED BY <3>2, <3>3 DEF Fits
  <2> QED BY <2>1, <2>2
<1> HIDE DEF prefix, suffix
<1>9. CASE suffix[2] > 0
  <2>1. codes = <<prefix>> \o <<suffix>>
    BY <1>1, <1>9, Zenon
  <2> HIDE DEF codes
  <2>2. codes[1] = prefix /\ codes[2] = suffix
    <3> DEFINE s == <<prefix>>
               t == <<suffix>>
    <3>1. /\ s \in Seq({prefix, suffix}) /\ t \in Seq({prefix, suffix})
          /\ Len(s) = 1 /\ Len(t) = 1 /\ s[1] = prefix /\ t[1] = suffix /\ codes = s \o t
      BY <2>1
    <3> HIDE DEF s, t
    <3> QED BY <3>1, PairOfOnes
  <2> QED BY <1>7, <1>8, <1>9, <2>2 DEF codes
<1>10. CASE ~ (suffix[2] > 0)
  <2>1. codes = <<prefix>>
    <3>1. codes = <<prefix>> \o <<>>
      BY <1>1, <1>10, Zenon
    <3>2. <<prefix>> \in Seq({prefix})
      OBVIOUS
    <3>3. <<prefix>> \o <<>> = <<prefix>>
      BY <3>2
    <3> QED BY <3>1, <3>3
  <2> HIDE DEF codes
  <2>2. codes[1] = prefix /\ Len(codes) = 1
    BY <2>1
  <2> QED BY <1>7, <2>2 DEF codes
<1> QED BY <1>9, <1>10

LEMMA EncodingCodes ==
  ASSUME NEW c, Ready(c), NEW codes, Fits(codes[1][1], codes[1][2]),
         Len(codes) # 1 => Fits(codes[2][1], codes[2][2])
  PROVE  Ready(EncodeCodes(c, codes))
<1> DEFINE prefix == EncodeBinsEP(c, codes[1][1], codes[1][2])
<1>1. Ready(prefix)
  BY EncodingBinsEP
<1> HIDE DEF prefix
<1>2. CASE Len(codes) = 1
  <2>1. EncodeCodes(c, codes) = prefix
    BY <1>2, Zenon DEF EncodeCodes, prefix
  <2> QED BY <1>1, <2>1
<1>3. CASE Len(codes) # 1
  <2>1. EncodeCodes(c, codes) = EncodeBinsEP(prefix, codes[2][1], codes[2][2])
    BY <1>3, Zenon DEF EncodeCodes, prefix
  <2> QED BY <1>1, <1>3, <2>1, EncodingBinsEP
<1> QED BY <1>2, <1>3

(* The terminating bin keeps two of the interval, or what is below them.   *)
LEMMA EncodingTerminatingBit ==
  ASSUME NEW c, Ready(c)
  PROVE  /\ Ready(EncodeTerminatingBit(c, 0))
         /\ Ready(EncodeTerminatingBit(c, 1))
         /\ EncodeTerminatingBit(c, 1).bitsLeft \in 12..19
<1>1. c \in Engines /\ c.range \in 256..510
  BY DEF Ready, Written, Carries
<1>2. c.low \in Nat /\ c.range \in Nat
  BY <1>1, Fields
<1> DEFINE range == c.range - 2
           low   == c.low + range
           n     == MPSShift(range)
<1>3. range \in 254..508 /\ range \in 128..508 /\ range \in Nat /\ low \in Nat
  BY <1>1, <1>2
<1>4. Ready(EncodeTerminatingBit(c, 0))
  <2>1. EncodeTerminatingBit(c, 0) = Shifted(c, c.low, range, n)
    BY DEF EncodeTerminatingBit
  <2>2. n \in 0..8 /\ range * Two(n) \in 256..510
    <3> HIDE DEF range
    <3> QED BY <1>3, MPSRenormalised
  <2>3. c.low + range <= c.low + c.range
    BY <1>1, <1>2
  <2> HIDE DEF n, range
  <2>4. range * Two(n) \in 1..510
    BY <2>2
  <2>5. After(Shifted(c, c.low, range, n), range * Two(n), n)
    BY <1>2, <1>3, <2>2, <2>3, <2>4, Shifting
  <2> QED BY <2>1, <2>2, <2>5 DEF After, Ready
<1>5. Ready(EncodeTerminatingBit(c, 1)) /\ EncodeTerminatingBit(c, 1).bitsLeft \in 12..19
  <2> DEFINE two == 2
             seven == 7
  <2>1. EncodeTerminatingBit(c, 1) = Shifted(c, low, two, seven)
    BY DEF EncodeTerminatingBit
  <2>2. seven \in 0..8 /\ two \in Nat /\ two * Two(seven) = 256
    BY Powers
  <2>3. low + two <= c.low + c.range
    BY <1>1, <1>2
  <2>4. two * Two(seven) \in 1..510
    BY <2>2
  <2> HIDE DEF two, seven, low
  <2>5. After(Shifted(c, low, two, seven), two * Two(seven), seven)
    BY <1>3, <2>2, <2>3, <2>4, Shifting
  <2>6. seven = 7
    BY DEF seven
  <2> QED BY <2>1, <2>2, <2>5, <2>6 DEF After, Ready
<1> QED BY <1>4, <1>5
(* What is left of the register is written in the bits that are left.      *)
LEMMA Flushing ==
  ASSUME NEW c, Ready(c), c.bitsLeft \in 12..19
  PROVE  /\ Flush(c) \in Engines
         /\ Flush(c).range = c.range /\ Flush(c).bitsLeft = c.bitsLeft
         /\ Flush(c).codes # <<>> /\ Last(Flush(c).codes)[2] \in 5..12
<1>1. c \in Engines
  BY DEF Ready, Written, Carries
<1>2. /\ c.range \in 1..510
      /\ c.low + c.range <= Two(32 - c.bitsLeft) * Room(c)
      /\ c.numByte = 0 => c.buffer = 255
  BY DEF Ready, Written, Carries
<1>3. /\ c.low \in Nat /\ c.range \in Nat /\ c.numByte \in Nat /\ c.buffer \in 0..255
      /\ c.codes \in Seq(Codes)
  BY <1>1, Fields
<1> DEFINE p     == Two(32 - c.bitsLeft)
           bits  == 24 - c.bitsLeft
           q     == Two(bits)
           carry == c.low \div 2^(32 - c.bitsLeft)
           one   == IF carry # 0 THEN 1 ELSE 0
           held  == IF carry # 0 \/ c.numByte > 0 THEN Put(c, c.buffer + one, BYTE) ELSE c
           bytes == PutBytes(held, IF carry # 0 THEN 0 ELSE 255, c.numByte - 1)
           low   == IF carry # 0 THEN c.low - 2^(32 - c.bitsLeft) ELSE c.low
           code  == low \div 256
           put   == Put(bytes, code, bits)
           d     == [put EXCEPT !.low = low, !.numByte = IF @ > 1 THEN 1 ELSE @]
<1>4. Flush(c) = d
  BY Zenon DEF Flush
<1>5. /\ bits \in 5..12 /\ q \in Nat /\ q > 0 /\ p = 256 * q
      /\ carry = c.low \div p
  <2>1. bits \in 0..24 /\ bits \in 0..32 /\ bits \in 5..12 /\ 32 - c.bitsLeft = bits + 8
        /\ 8 \in 0..8
    OBVIOUS
  <2> HIDE DEF bits
  <2>2. q \in Nat /\ q > 0
    BY <2>1, Doubling
  <2>3. Two(bits + 8) = Two(bits) * Two(8) /\ Two(8) = 256
    BY <2>1, Adding, Powers
  <2>4. p = 256 * q
    BY <2>1, <2>2, <2>3
  <2>5. carry = c.low \div p
    BY DEF Two
  <2> QED BY <2>1, <2>2, <2>4, <2>5
<1>6. /\ low \in Nat /\ low < p
      /\ carry # 0 => c.buffer # 255
  <2>1. low = IF carry # 0 THEN c.low - p ELSE c.low
    BY DEF Two
  <2>2. carry \in Nat /\ c.low % p \in 0 .. (p - 1) /\ c.low = carry * p + (c.low % p)
    <3>1. p \in Nat /\ p > 0
      BY <1>5
    <3>2. c.low \in Nat /\ carry = c.low \div p
      BY <1>3, <1>5
    <3> DEFINE low0 == c.low
    <3>3. low0 \in Nat
      BY <3>2
    <3> HIDE DEF p, carry, low0
    <3>4. low0 \div p \in Nat /\ low0 % p \in 0 .. (p - 1) /\ low0 = (low0 \div p) * p + (low0 % p)
      BY <3>1, <3>3, Division
    <3> QED BY <3>2, <3>4 DEF low0
  <2>3. p \in Nat /\ p > 0
    BY <1>5
  <2>4. c.low < p * Room(c)
    <3>1. Room(c) \in {1, 2}
      BY DEF Room
    <3> DEFINE m == p * Room(c)
    <3>2. m \in Nat /\ c.low + c.range <= m
      BY <1>2, <2>3, <3>1
    <3>3. c.range >= 1
      BY <1>2
    <3> HIDE DEF m
    <3>4. c.low < m
      BY <1>3, <3>2, <3>3
    <3> QED BY <3>4 DEF m
  <2> HIDE DEF p, carry, low
  <2>5. CASE carry = 0
    <3>1. c.low < p
      BY <1>3, <2>2, <2>3, <2>5
    <3> QED BY <1>3, <2>1, <2>5, <3>1
  <2>6. CASE carry # 0
    <3>1. c.low >= p
      <4>1. carry * p >= p
        BY <2>2, <2>3, <2>6
      <4> DEFINE m == carry * p
                 r == c.low % p
      <4>2. m >= p /\ m \in Nat /\ r \in Nat /\ c.low = m + r
        BY <2>2, <2>3, <4>1
      <4> HIDE DEF m, r
      <4> QED BY <2>3, <4>2
    <3>2. c.buffer # 255
      BY <1>3, <2>3, <2>4, <3>1 DEF Room
    <3>3. c.low < p * 2
      BY <2>4, <3>2 DEF Room
    <3> QED BY <1>3, <2>1, <2>3, <2>6, <3>1, <3>2, <3>3
  <2> QED BY <2>5, <2>6
<1>7. code \in Nat /\ code <= q - 1
  <2> HIDE DEF p, q, low
  <2>1. code \in Nat /\ code < q
    <3>1. low < q * 256
      BY <1>5, <1>6
    <3> QED BY <1>5, <1>6, <3>1
  <2> HIDE DEF code
  <2> QED BY <1>5, <2>1
<1>8. /\ held \in Engines /\ held.range = c.range /\ held.bitsLeft = c.bitsLeft
      /\ held.numByte = c.numByte
  <2>1. CASE carry # 0 \/ c.numByte > 0
    <3> DEFINE v == c.buffer + one
    <3>1. v \in Nat /\ v <= 255
      <4> DEFINE buffer == c.buffer
      <4>0. buffer \in 0..255
        BY <1>3
      <4> HIDE DEF carry, buffer
      <4>1. CASE carry # 0
        <5>1. buffer # 255 /\ one = 1
          BY <1>6, <4>1 DEF buffer
        <5> HIDE DEF one
        <5>2. buffer + one \in Nat /\ buffer + one <= 255
          BY <4>0, <5>1
        <5> QED BY <5>2 DEF buffer
      <4>2. CASE carry = 0
        <5>1. one = 0
          BY <4>2
        <5> HIDE DEF one
        <5>2. buffer + one \in Nat /\ buffer + one <= 255
          BY <4>0, <5>1
        <5> QED BY <5>2 DEF buffer
      <4> QED BY <4>1, <4>2
    <3>2. BYTE \in Nat /\ v <= Two(BYTE) - 1
      BY <3>1, Powers DEF BYTE
    <3>3. held = Put(c, v, BYTE)
      BY <2>1
    <3> HIDE DEF v, held
    <3>4. v \in Nat
      BY <3>1
    <3>5. BYTE \in Nat
      BY <3>2
    <3>6. v <= Two(BYTE) - 1
      BY <3>2
    <3>7. Put(c, v, BYTE) \in Engines
      BY <1>1, <3>4, <3>5, <3>6, Putting
    <3>8. Put(c, v, BYTE) = [c EXCEPT !.codes = Append(c.codes, <<v, BYTE>>)]
      BY <1>1, <3>4, <3>5, <3>6, Putting
    <3>9. /\ Put(c, v, BYTE).range = c.range /\ Put(c, v, BYTE).bitsLeft = c.bitsLeft
          /\ Put(c, v, BYTE).numByte = c.numByte
      BY <1>1, <3>8 DEF Engines
    <3> QED BY <3>3, <3>7, <3>9
  <2>2. CASE ~ (carry # 0 \/ c.numByte > 0)
    <3>1. held = c
      BY <2>2
    <3> HIDE DEF held
    <3> QED BY <1>1, <3>1
  <2> QED BY <2>1, <2>2
<1> HIDE DEF held
<1>9. /\ bytes \in Engines /\ bytes.range = c.range /\ bytes.bitsLeft = c.bitsLeft
      /\ bytes.numByte = c.numByte
  <2> DEFINE byte  == IF carry # 0 THEN 0 ELSE 255
             times == c.numByte - 1
  <2>1. byte \in Bytes
    <3> HIDE DEF carry
    <3> QED BY DEF Bytes
  <2>2. times \in Int
    BY <1>3
  <2>3. bytes = PutBytes(held, byte, times)
    OBVIOUS
  <2>4. held \in Engines
    BY <1>8
  <2> HIDE DEF bytes, byte, times
  <2>5. bytes \in Engines
    BY <2>1, <2>2, <2>3, <2>4, PuttingBytes
  <2>6. bytes.range = held.range
    BY <2>1, <2>2, <2>3, <2>4, PuttingBytes
  <2>7. bytes.bitsLeft = held.bitsLeft
    BY <2>1, <2>2, <2>3, <2>4, PuttingBytes
  <2>8. bytes.numByte = held.numByte
    BY <2>1, <2>2, <2>3, <2>4, PuttingBytes
  <2> QED BY <1>8, <2>5, <2>6, <2>7, <2>8
<1> HIDE DEF bytes, code, q, p
<1>10. /\ put \in Engines /\ put = [bytes EXCEPT !.codes = Append(bytes.codes, <<code, bits>>)]
  <2>1. bytes \in Engines
    BY <1>9
  <2>2. code \in Nat
    BY <1>7
  <2>3. bits \in Nat
    BY <1>5
  <2>4. code <= Two(bits) - 1
    BY <1>7 DEF q
  <2> HIDE DEF bits
  <2>5. Put(bytes, code, bits) \in Engines
    BY <2>1, <2>2, <2>3, <2>4, Putting
  <2>6. Put(bytes, code, bits) = [bytes EXCEPT !.codes = Append(bytes.codes, <<code, bits>>)]
    BY <2>1, <2>2, <2>3, <2>4, Putting
  <2> QED BY <2>5, <2>6
<1>11. /\ put.range = c.range /\ put.bitsLeft = c.bitsLeft /\ put.numByte = c.numByte
       /\ put.codes = Append(bytes.codes, <<code, bits>>)
  <2> HIDE DEF bits, put
  <2> QED BY <1>9, <1>10 DEF Engines
<1>12. put.codes # <<>> /\ Last(put.codes)[2] = bits
  <2>1. bytes.codes \in Seq(Codes)
    BY <1>9 DEF Engines
  <2>2. put.codes = Append(bytes.codes, <<code, bits>>)
    BY <1>11
  <2> DEFINE old == bytes.codes
             new == <<code, bits>>
             all == put.codes
  <2>3. old \in Seq(Codes) /\ all = Append(old, new)
    BY <2>1, <2>2
  <2>4. new[2] = bits
    OBVIOUS
  <2> HIDE DEF old, new, all, bits
  <2>5. all # <<>> /\ all[Len(all)] = new
    BY <2>3
  <2> QED BY <2>4, <2>5 DEF all, Last
<1> HIDE DEF put, bits, low
<1> DEFINE n == IF put.numByte > 1 THEN 1 ELSE put.numByte
<1>13. d = [put EXCEPT !.low = low, !.numByte = n] /\ n \in Nat
  BY <1>3, <1>11
<1> HIDE DEF d, n
<1>14. d \in Engines
  <2>1. low \in Nat
    BY <1>6
  <2>2. put \in Engines
    BY <1>10
  <2>3. n \in Nat
    BY <1>13
  <2>4. d = [put EXCEPT !.low = low, !.numByte = n]
    BY <1>13
  <2> QED BY <2>1, <2>2, <2>3, <2>4 DEF Engines
<1>15. d.range = put.range /\ d.bitsLeft = put.bitsLeft /\ d.codes = put.codes
  BY <1>10, <1>13 DEF Engines
<1> QED BY <1>4, <1>5, <1>11, <1>12, <1>14, <1>15
--------------------------------------------------------------------------------
(* The invariant.                                                          *)

LEMMA Reset == Ready(ResetCabac)
<1> DEFINE c == ResetCabac
<1>1. /\ c.low = 0 /\ c.range = 510 /\ c.bitsLeft = 23 /\ c.buffer = 255 /\ c.numByte = 0
      /\ c \in Engines
  BY DEF ResetCabac, Engines, Bytes
<1> HIDE DEF c
<1>2. Two(32 - c.bitsLeft) = 512 /\ Room(c) = 1
  BY <1>1, Powers DEF Room
<1>3. Ready(c)
  BY <1>1, <1>2 DEF Ready, Written, Carries
<1> QED BY <1>3 DEF c

LEMMA CabacInitial == Init => CabacInv
<1> HAVE Init
<1>1. engine = ResetCabac /\ phase = "code" /\ calls = 0
  BY DEF Init
<1>2. Ready(engine)
  BY <1>1, Reset
<1>3. engine \in Engines /\ engine.range \in 256..510 /\ engine.bitsLeft \in 12..23
  BY <1>2 DEF Ready, Written, Carries
<1>4. calls \in 0..MaxCalls
  BY <1>1, MaxCallsAssumption
<1> QED BY <1>1, <1>2, <1>3, <1>4 DEF CabacInv

(* A call that encodes bins leaves the engine ready for the next one.      *)
LEMMA CodeStep ==
  ASSUME CabacInv, NEW c, NEW coded, Code(c, coded), Ready(engine) => Ready(c)
  PROVE  CabacInv'
<1>1. /\ phase = "code" /\ calls < MaxCalls /\ calls' = calls + 1
      /\ engine' = c /\ phase' = phase
  BY DEF Code
<1>2. Ready(engine')
  BY <1>1 DEF CabacInv
<1>3. engine' \in Engines /\ engine'.range \in 256..510 /\ engine'.bitsLeft \in 12..23
  BY <1>2 DEF Ready, Written, Carries
<1>4. calls' \in 0..MaxCalls
  <2>1. calls \in 0..MaxCalls
    BY DEF CabacInv
  <2> QED BY <1>1, <2>1, MaxCallsAssumption
<1>5. phase' = "code"
  BY <1>1
<1> QED BY <1>2, <1>3, <1>4, <1>5 DEF CabacInv

LEMMA CabacStep == CabacInv /\ [Next]_cabacVars => CabacInv'
<1> SUFFICES ASSUME CabacInv, [Next]_cabacVars PROVE CabacInv'
  OBVIOUS
<1>1. ASSUME NEW row \in LPSRows, NEW lps \in BOOLEAN, CodeBin(row, lps) PROVE CabacInv'
  <2>1. Ready(engine) => Ready(EncodeBin(engine, row, lps))
    BY EncodingBin
  <2> QED BY <1>1, <2>1, CodeStep DEF CodeBin
<1>2. ASSUME NEW v \in BypassBins, CodeBypass(v) PROVE CabacInv'
  <2>1. Fits(v[1], v[2])
    <3>1. v[2] \in 1..20 /\ v[1] \in 0..(2^v[2] - 1)
      BY BypassBinsAssumption
    <3>2. v[2] \in 0..32 /\ v[2] \in 1..20
      BY <3>1
    <3>3. Two(v[2]) \in Nat
      BY <3>2, Doubling
    <3>4. v[1] \in 0..(Two(v[2]) - 1)
      BY <3>1 DEF Two
    <3> DEFINE p == Two(v[2])
               u == v[1]
    <3>5. u \in 0..(p - 1) /\ p \in Nat
      BY <3>3, <3>4
    <3> HIDE DEF p, u
    <3>6. u \in Nat /\ u <= p - 1
      BY <3>5
    <3> QED BY <3>2, <3>6 DEF Fits, p, u
  <2>2. Ready(engine) => Ready(EncodeBinsEP(engine, v[1], v[2]))
    BY <2>1, EncodingBinsEP
  <2> QED BY <1>2, <2>2, CodeStep DEF CodeBypass
<1>3. ASSUME NEW r \in Remainders, CodeRemainder(r[1], r[2]) PROVE CabacInv'
  <2> DEFINE symbol == r[1]
             param  == r[2]
             codes  == CoeffRemainCodes(symbol, param)
  <2>1. symbol \in Nat /\ symbol < Two(15) /\ param \in 0..4
    <3>1. r[1] \in 0..(2^15 - 1) /\ r[2] \in 0..4
      BY RemaindersAssumption, Zenon
    <3> DEFINE p == Two(15)
    <3>2. symbol \in 0..(p - 1) /\ param \in 0..4
      BY <3>1, Zenon DEF Two
    <3>3. p \in Nat
      BY Powers
    <3> HIDE DEF p, symbol, param
    <3>4. symbol \in Nat /\ symbol < p
      BY <3>2, <3>3
    <3> QED BY <3>2, <3>4 DEF p
  <2> HIDE DEF symbol, param
  <2>2. /\ Fits(codes[1][1], codes[1][2])
        /\ Len(codes) # 1 => Fits(codes[2][1], codes[2][2])
    BY <2>1, RemainderCodes
  <2> HIDE DEF codes
  <2>3. Ready(engine) => Ready(EncodeCodes(engine, codes))
    BY <2>2, EncodingCodes
  <2>4. \E coded : Code(EncodeCodes(engine, codes), coded)
    BY <1>3, Zenon DEF CodeRemainder, codes, symbol, param
  <2>5. PICK coded : Code(EncodeCodes(engine, codes), coded)
    BY <2>4
  <2> QED BY <2>3, <2>5, CodeStep
<1>4. ASSUME FinishCTU PROVE CabacInv'
  <2>1. Ready(engine) => Ready(EncodeTerminatingBit(engine, 0))
    BY EncodingTerminatingBit
  <2> QED BY <1>4, <2>1, CodeStep DEF FinishCTU
<1>5. ASSUME NEW isLastSliceCTU \in BOOLEAN, FinishTile(isLastSliceCTU) PROVE CabacInv'
  <2> DEFINE c == IF isLastSliceCTU THEN engine ELSE EncodeTerminatingBit(engine, 0)
             e == EncodeTerminatingBit(c, 1)
  <2>1. /\ phase = "code" /\ phase' = "flushed" /\ engine' = Flush(e) /\ calls' = calls
    BY <1>5 DEF FinishTile
  <2>2. Ready(engine)
    BY <2>1 DEF CabacInv
  <2>3. Ready(c)
    BY <2>2, EncodingTerminatingBit
  <2> HIDE DEF c
  <2>4. Ready(e) /\ e.bitsLeft \in 12..19
    BY <2>3, EncodingTerminatingBit
  <2> HIDE DEF e
  <2>5. /\ Flush(e) \in Engines
        /\ Flush(e).range = e.range /\ Flush(e).bitsLeft = e.bitsLeft
        /\ Flush(e).codes # <<>> /\ Last(Flush(e).codes)[2] \in 5..12
    BY <2>4, Flushing
  <2>6. e.range \in 256..510 /\ e.bitsLeft \in 12..23
    BY <2>4 DEF Ready, Written
  <2>7. /\ engine' \in Engines /\ engine'.range \in 256..510 /\ engine'.bitsLeft \in 12..23
        /\ engine'.codes # <<>> /\ Last(engine'.codes)[2] \in 5..12
    BY <2>1, <2>5, <2>6
  <2>8. calls' \in 0..MaxCalls
    BY <2>1 DEF CabacInv
  <2> QED BY <2>1, <2>7, <2>8 DEF CabacInv
<1>6. ASSUME NextFrame PROVE CabacInv'
  <2>1. engine' = ResetCabac /\ phase' = "code" /\ calls' = 0
    BY <1>6 DEF NextFrame
  <2>2. Ready(engine')
    BY <2>1, Reset
  <2>3. engine' \in Engines /\ engine'.range \in 256..510 /\ engine'.bitsLeft \in 12..23
    BY <2>2 DEF Ready, Written, Carries
  <2>4. calls' \in 0..MaxCalls
    BY <2>1, MaxCallsAssumption
  <2> QED BY <2>1, <2>2, <2>3, <2>4 DEF CabacInv
<1>7. ASSUME UNCHANGED cabacVars PROVE CabacInv'
  BY <1>7 DEF CabacInv, cabacVars, Ready, Written, Carries, Room
<1> QED BY <1>1, <1>2, <1>3, <1>4, <1>5, <1>6, <1>7 DEF Next

(* The inductive invariant of the engine. *)
THEOREM CabacInvariant == CabacSpec => []CabacInv
BY CabacInitial, CabacStep, PTL DEF CabacSpec

(***************************************************************************)
(* Between two calls the registers are in their ranges: nine bits of range *)
(* without the leading zero, and 12 to 23 bits left, so that the register  *)
(* m_uiLow never needs a bit above the 32 of u32 while it takes the next   *)
(* bins.                                                                   *)
(***************************************************************************)
THEOREM CabacTypes == CabacSpec => []CabacTypeOK
<1>1. CabacInv => CabacTypeOK
  <2> HAVE CabacInv
  <2>1. engine \in Engines
    BY DEF CabacInv
  <2>2. engine.low \in Nat /\ engine.buffer \in 0..255 /\ engine.numByte \in Nat
    BY <2>1, Fields
  <2> QED BY <2>2 DEF CabacInv, CabacTypeOK
<1> QED BY <1>1, CabacInvariant, PTL

(***************************************************************************)
(* A carry that leaves the register in WriteOutputBitstream finds a byte   *)
(* below 0xff held back, for any rows of the table, bins and remainders.   *)
(***************************************************************************)
THEOREM CarriesHaveRoom == CabacSpec => []CarryHasRoom
<1>1. CabacInv => CarryHasRoom
  <2> SUFFICES ASSUME CabacInv, phase = "code"
               PROVE  engine.low + engine.range <=
                        2^(32 - engine.bitsLeft) * IF engine.numByte = 0 \/ engine.buffer = 255
                                                   THEN 1 ELSE 2
    BY Zenon DEF CarryHasRoom
  <2>1. /\ engine.numByte = 0 => engine.buffer = 255
        /\ engine.low + engine.range <= Two(32 - engine.bitsLeft) * Room(engine)
    BY DEF CabacInv, Ready, Written, Carries
  <2>2. Room(engine) = IF engine.numByte = 0 \/ engine.buffer = 255 THEN 1 ELSE 2
    BY <2>1 DEF Room
  <2>3. Two(32 - engine.bitsLeft) = 2^(32 - engine.bitsLeft)
    BY DEF Two
  <2> QED BY <2>1, <2>2, <2>3, Zenon
<1> QED BY <1>1, CabacInvariant, PTL

(***************************************************************************)
(* Every code handed to PutUNInBitstream fits its length: the byte held    *)
(* back plus the carry, the byte between, and what Flush leaves, which is  *)
(* 5 to 12 bits long.                                                      *)
(***************************************************************************)
THEOREM CodesAlwaysFit == CabacSpec => []CodesFit
<1>1. CabacInv => CodesFit
  <2> HAVE CabacInv
  <2>1. engine.codes \in Seq(Codes)
    <3>1. engine \in Engines
      BY DEF CabacInv
    <3> QED BY <3>1, Fields
  <2>2. ASSUME NEW i \in DOMAIN engine.codes
        PROVE  engine.codes[i][1] \in 0..(2^engine.codes[i][2] - 1)
    <3> DEFINE v == engine.codes[i]
    <3>1. v \in Codes
      BY <2>1
    <3> HIDE DEF v
    <3>2. v[1] \in Nat /\ v[1] <= Two(v[2]) - 1
      BY <3>1 DEF Codes
    <3>3. Two(v[2]) \in Int
      <4>1. v[2] \in Nat
        BY <3>1 DEF Codes
      <4> QED BY <4>1 DEF Two
    <3> DEFINE p == Two(v[2])
    <3>4. v[1] \in 0..(p - 1)
      <4>1. p \in Int /\ v[1] \in Nat /\ v[1] <= p - 1
        BY <3>2, <3>3
      <4> HIDE DEF p
      <4> QED BY <4>1
    <3> QED BY <3>4, Zenon DEF p, Two, v
  <2>3. phase = "flushed" => Last(engine.codes)[2] \in 5..12
    BY DEF CabacInv
  <2> QED BY <2>2, <2>3, Zenon DEF CodesFit
<1> QED BY <1>1, CabacInvariant, PTL
================================================================================
