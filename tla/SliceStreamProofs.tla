-------------------------- MODULE SliceStreamProofs --------------------------
(***************************************************************************)
(* Theorems about the bitstream handlers (SliceStream.tla), for every size *)
(* of the frame, number of tiles, QP and code that Cabac may put: the      *)
(* handlers are well formed, their assertions on words and bytes hold, no  *)
(* tile ends in a byte of zero, and a tile takes at most half as many      *)
(* bytes again as were put, so that it is in its buffer if that many are.  *)
(*                                                                         *)
(* Each operation is summed up in two numbers.  Weight is sixteen times    *)
(* the bytes in the buffer, eight for each zero at its end (two of them    *)
(* are what an escape takes) and three times the bits in the cache: an     *)
(* operation that puts n bits adds at most 3 n (Puts), escapes included.   *)
(* And the free bits of the cache move by n modulo 8, which is what        *)
(* FlushRemBytes asserts.  A list of fields has a cost, an upper bound on  *)
(* its bits (CostsUpTo), and a list that ends in the trailing bits leaves  *)
(* a one in the last byte (Stopped).                                       *)
(***************************************************************************)
EXTENDS SliceStream, InductionLemmas, TLAPS

Bytes == 0..255
Words == [1..WORD -> Bit]

(* The handlers of a run. *)
Handlers ==
  [uiCurrWord : Words, iBitLocPtr : 1..WORD, buffer : Seq(Bytes), allocBytes : Nat,
   room : BOOLEAN, sure : BOOLEAN]

--------------------------------------------------------------------------------
(* FLUSH_BITS. *)

(* The number of eight bits, written out. *)
Eight(w, from) ==
  128 * w[from + 1] + 64 * w[from + 2] + 32 * w[from + 3] + 16 * w[from + 4]
  + 8 * w[from + 5] + 4 * w[from + 6] + 2 * w[from + 7] + w[from + 8]

IsNumber(f, w, from, n) ==
  f = [i \in 0..n |-> IF i = 0 THEN 0 ELSE 2 * f[i-1] + w[from + i]]

(* NumberAt takes eight steps to a byte. *)
LEMMA ByteNumber ==
  ASSUME NEW w \in Words, NEW from \in 0..24
  PROVE  NumberAt(w, from, BYTE) = Eight(w, from)
<1> DEFINE b(i) == w[from + i]
<1>1. \A i \in 1..8 : b(i) \in Int
  <2> TAKE i \in 1..8
  <2>1. from + i \in 1..WORD
    BY DEF WORD
  <2>2. w[from + i] \in Bit
    BY <2>1 DEF Words
  <2> QED BY <2>2 DEF Bit
<1> HIDE DEF b
<1> DEFINE s1 == b(1)
           s2 == 2 * s1 + b(2)
           s3 == 2 * s2 + b(3)
           s4 == 2 * s3 + b(4)
           s5 == 2 * s4 + b(5)
           s6 == 2 * s5 + b(6)
           s7 == 2 * s6 + b(7)
           s8 == 2 * s7 + b(8)
           g == [i \in 0..8 |->
                   IF i = 0 THEN 0 ELSE IF i = 1 THEN s1 ELSE IF i = 2 THEN s2
                   ELSE IF i = 3 THEN s3 ELSE IF i = 4 THEN s4 ELSE IF i = 5 THEN s5
                   ELSE IF i = 6 THEN s6 ELSE IF i = 7 THEN s7 ELSE s8]
<1>2. g[0] = 0 /\ g[1] = s1 /\ g[2] = s2 /\ g[3] = s3 /\ g[4] = s4 /\ g[5] = s5 /\ g[6] = s6
      /\ g[7] = s7 /\ g[8] = s8 /\ g = [i \in 0..8 |-> g[i]]
  OBVIOUS
<1>3. /\ s1 = 2 * 0 + b(1)
  BY <1>1
<1> HIDE DEF g, s1
<1>4. \A i \in 0..8 : g[i] = IF i = 0 THEN 0 ELSE 2 * g[i-1] + b(i)
  <2> TAKE i \in 0..8
  <2>1. i \in {0, 1, 2, 3, 4, 5, 6, 7, 8}
    OBVIOUS
  <2> QED BY <1>2, <1>3, <2>1
<1>5. IsNumber(g, w, from, 8)
  <2>1. g = [i \in 0..8 |-> IF i = 0 THEN 0 ELSE 2 * g[i-1] + b(i)]
    BY <1>2, <1>4, Zenon
  <2> QED BY <2>1, Zenon DEF IsNumber, b
<1> DEFINE f == CHOOSE ff : IsNumber(ff, w, from, 8)
<1>6. IsNumber(f, w, from, 8)
  BY <1>5
<1>7. NumberAt(w, from, 8) = f[8]
  BY Zenon DEF NumberAt, IsNumber
<1> HIDE DEF f
<1>8. \A i \in 0..8 : f[i] = IF i = 0 THEN 0 ELSE 2 * f[i-1] + b(i)
  BY <1>6 DEF IsNumber, b
<1>9. f[8] = s8
  <2>1. f[0] = 0 /\ f[1] = 2 * f[0] + b(1) /\ f[2] = 2 * f[1] + b(2) /\ f[3] = 2 * f[2] + b(3)
        /\ f[4] = 2 * f[3] + b(4) /\ f[5] = 2 * f[4] + b(5) /\ f[6] = 2 * f[5] + b(6)
        /\ f[7] = 2 * f[6] + b(7) /\ f[8] = 2 * f[7] + b(8)
    BY <1>8
  <2> QED BY <2>1, <1>3
<1>10. s8 = 128 * b(1) + 64 * b(2) + 32 * b(3) + 16 * b(4) + 8 * b(5) + 4 * b(6) + 2 * b(7) + b(8)
  BY <1>1 DEF s1
<1> HIDE DEF s8
<1> QED BY <1>7, <1>9, <1>10 DEF Eight, b, BYTE

ByteAt(w, k) == NumberAt(w, BYTE * (k-1), BYTE)

(* A byte of a word is a byte, and is 0 only if its bits are. *)
LEMMA WordByte ==
  ASSUME NEW w \in Words, NEW k \in 1..4
  PROVE  /\ ByteAt(w, k) \in Bytes
         /\ (\E i \in (8 * k - 7)..(8 * k) : w[i] = 1) => ByteAt(w, k) # 0
<1> DEFINE from == BYTE * (k-1)
<1>1. from \in 0..24 /\ from + 8 = 8 * k
  BY DEF BYTE
<1> HIDE DEF from
<1>2. ByteAt(w, k) = Eight(w, from)
  BY <1>1, ByteNumber, Zenon DEF ByteAt, from
<1> DEFINE b(i) == w[from + i]
<1>3. \A i \in 1..8 : b(i) \in 0..1
  <2> TAKE i \in 1..8
  <2>1. from + i \in 1..WORD
    BY <1>1 DEF WORD
  <2>2. w[from + i] \in Bit
    BY <2>1 DEF Words
  <2> QED BY <2>2 DEF Bit
<1>4. ByteAt(w, k) = 128 * b(1) + 64 * b(2) + 32 * b(3) + 16 * b(4) + 8 * b(5) + 4 * b(6) + 2 * b(7) + b(8)
  BY <1>2 DEF Eight
<1>5. ASSUME NEW i \in (8 * k - 7)..(8 * k), w[i] = 1
      PROVE  \E j \in 1..8 : b(j) = 1
  <2>1. i - from \in 1..8 /\ from + (i - from) = i
    BY <1>1
  <2> QED BY <1>5, <2>1
<1> HIDE DEF b
<1>6. b(1) \in 0..1 /\ b(2) \in 0..1 /\ b(3) \in 0..1 /\ b(4) \in 0..1 /\ b(5) \in 0..1 /\ b(6) \in 0..1
      /\ b(7) \in 0..1 /\ b(8) \in 0..1
  BY <1>3
<1>7. ByteAt(w, k) \in Bytes
  BY <1>4, <1>6 DEF Bytes
<1>8. ASSUME NEW j \in 1..8, b(j) = 1 PROVE ByteAt(w, k) # 0
  <2>1. j \in {1, 2, 3, 4, 5, 6, 7, 8}
    OBVIOUS
  <2> QED BY <1>4, <1>6, <1>8, <2>1
<1> QED BY <1>5, <1>7, <1>8

(* A byte behind a buffer, escaped or not. *)
WithByte(buf, byte, emuprev) ==
  IF emuprev /\ NeedsEscape(buf, byte) THEN buf \o <<3, byte>> ELSE Append(buf, byte)

IsFlush(f, buffer, w, n, emuprev) ==
  f = [k \in 0..n |-> IF k = 0 THEN buffer
                      ELSE WithByte(f[k-1], ByteAt(w, k), emuprev)]

(* c is a with t behind it. *)
JoinOf(c, a, t) ==
  /\ Len(c) = Len(a) + Len(t)
  /\ \A i \in 1..Len(a) : c[i] = a[i]
  /\ \A i \in 1..Len(t) : c[Len(a) + i] = t[i]

(* Two lists joined, element by element. *)
LEMMA Joined ==
  ASSUME NEW S, NEW a \in Seq(S), NEW t \in Seq(S)
  PROVE  a \o t \in Seq(S) /\ JoinOf(a \o t, a, t)
BY DEF JoinOf

(* The bytes of zero that the buffer ends in, up to two: two of them are   *)
(* what the next escape takes.                                             *)
ZerosBehind(buf) ==
  IF Before(buf, 1) # 0 THEN 0 ELSE IF Before(buf, 2) # 0 THEN 1 ELSE 2

(* Sixteen for a byte; a byte of zero brings eight, and an escape, which   *)
(* follows two of them, uses them up.                                      *)
BufferWeight(buf) == 16 * Len(buf) + 8 * ZerosBehind(buf)

(* The weight of a buffer is a number. *)
LEMMA BufferWeightIn ==
  ASSUME NEW buf \in Seq(Bytes)
  PROVE  BufferWeight(buf) \in Nat /\ 16 * Len(buf) <= BufferWeight(buf)
<1> DEFINE n == Len(buf)
           z == ZerosBehind(buf)
<1>1. n \in Nat /\ z \in 0..2
  BY DEF ZerosBehind
<1>2. BufferWeight(buf) = 16 * n + 8 * z
  BY DEF BufferWeight
<1> HIDE DEF n, z
<1>3. BufferWeight(buf) \in Nat /\ 16 * n <= BufferWeight(buf)
  BY <1>1, <1>2
<1> QED BY <1>3 DEF n

(* What one byte does to a buffer. *)
LEMMA OneByte ==
  ASSUME NEW buf \in Seq(Bytes), NEW byte \in Bytes, NEW emuprev \in BOOLEAN
  PROVE  /\ WithByte(buf, byte, emuprev) \in Seq(Bytes)
         /\ Len(WithByte(buf, byte, emuprev)) \in (Len(buf) + 1)..(Len(buf) + 2)
         /\ BufferWeight(WithByte(buf, byte, emuprev)) <= BufferWeight(buf) + 24
         /\ Before(WithByte(buf, byte, emuprev), 1) = byte
<1> DEFINE b == WithByte(buf, byte, emuprev)
           escaped == emuprev /\ NeedsEscape(buf, byte)
           n == Len(buf)
           z == ZerosBehind(buf)
           m == Len(b)
           y == ZerosBehind(b)
<1>1. ASSUME ~ escaped
      PROVE  /\ b \in Seq(Bytes) /\ m = n + 1
             /\ Before(b, 1) = byte /\ Before(b, 2) = Before(buf, 1)
  <2>1. b = Append(buf, byte)
    BY <1>1 DEF WithByte
  <2>2. Append(buf, byte) \in Seq(Bytes) /\ Len(Append(buf, byte)) = Len(buf) + 1
        /\ Append(buf, byte)[Len(buf) + 1] = byte
        /\ \A i \in 1..Len(buf) : Append(buf, byte)[i] = buf[i]
    OBVIOUS
  <2> HIDE DEF b
  <2>3. b \in Seq(Bytes) /\ m = n + 1 /\ b[m] = byte /\ n \in Nat
        /\ \A i \in 1..n : b[i] = buf[i]
    BY <2>1, <2>2
  <2>4. Before(b, 1) = byte
    BY <2>3 DEF Before
  <2>5. Before(b, 2) = Before(buf, 1)
    BY <2>3 DEF Before
  <2> QED BY <2>3, <2>4, <2>5
<1>2. ASSUME escaped
      PROVE  /\ b \in Seq(Bytes) /\ m = n + 2
             /\ Before(b, 1) = byte /\ Before(b, 2) = 3
  <2> DEFINE t == <<3, byte>>
             c == buf \o t
  <2>1. t \in Seq(Bytes) /\ Len(t) = 2 /\ t[2] = byte /\ t[1] = 3
    BY DEF Bytes
  <2> HIDE DEF t
  <2>2. c \in Seq(Bytes) /\ Len(c) = Len(buf) + 2 /\ c[Len(buf) + 2] = byte
        /\ c[Len(buf) + 1] = 3
    <3>1. 2 \in 1..Len(t) /\ 1 \in 1..Len(t)
      BY <2>1
    <3> HIDE DEF c
    <3>2. c \in Seq(Bytes) /\ JoinOf(c, buf, t)
      BY <2>1, Joined DEF c
    <3> QED BY <2>1, <3>1, <3>2 DEF JoinOf
  <2>3. b = c
    BY <1>2, Zenon DEF WithByte, c, t
  <2> HIDE DEF b, c
  <2>4. b \in Seq(Bytes) /\ m = n + 2 /\ b[m] = byte /\ b[m - 1] = 3 /\ n \in Nat
    BY <2>2, <2>3
  <2>5. Before(b, 1) = byte /\ Before(b, 2) = 3
    BY <2>4 DEF Before
  <2> QED BY <2>4, <2>5
<1>3. n \in Nat /\ BufferWeight(buf) = 16 * n + 8 * z /\ BufferWeight(b) = 16 * m + 8 * y
  BY DEF BufferWeight
<1>4. z \in 0..2 /\ y \in 0..2
  BY DEF ZerosBehind
<1>5. ~ escaped => y <= z + 1
  <2>1. ASSUME ~ escaped, y = 2 PROVE z >= 1
    <3>1. Before(buf, 1) = 0
      BY <1>1, <2>1 DEF ZerosBehind
    <3> QED BY <3>1 DEF ZerosBehind
  <2> QED BY <1>4, <2>1
<1>6. escaped => y <= 1 /\ z = 2
  <2>1. ASSUME escaped PROVE y <= 1
    <3>1. Before(b, 2) = 3
      BY <1>2, <2>1
    <3> HIDE DEF b
    <3> QED BY <3>1 DEF ZerosBehind
  <2>2. ASSUME escaped PROVE z = 2
    BY <2>2 DEF ZerosBehind, NeedsEscape
  <2> QED BY <2>1, <2>2
<1>7. b \in Seq(Bytes) /\ Before(b, 1) = byte
  BY <1>1, <1>2
<1>8. (~ escaped => m = n + 1) /\ (escaped => m = n + 2)
  BY <1>1, <1>2
<1> HIDE DEF n, m, z, y, escaped, b
<1>9. m \in (n + 1)..(n + 2) /\ BufferWeight(b) <= BufferWeight(buf) + 24
  BY <1>3, <1>4, <1>5, <1>6, <1>8
<1> QED BY <1>7, <1>9 DEF b, n, m

(* The buffer behind n bytes of a word. *)
Grown(b, buffer, w, n) ==
  /\ b \in Seq(Bytes)
  /\ Len(b) \in (Len(buffer) + n)..(Len(buffer) + 2 * n)
  /\ BufferWeight(b) <= BufferWeight(buffer) + 24 * n
  /\ n = 0 => b = buffer
  /\ n > 0 => Before(b, 1) = ByteAt(w, n)

(* The function in FLUSH_BITS is defined. *)
LEMMA FlushExists ==
  ASSUME NEW buffer, NEW w, NEW emuprev, NEW n \in 0..4
  PROVE  \E f : IsFlush(f, buffer, w, n, emuprev)
<1> DEFINE s1 == WithByte(buffer, ByteAt(w, 1), emuprev)
           s2 == WithByte(s1, ByteAt(w, 2), emuprev)
           s3 == WithByte(s2, ByteAt(w, 3), emuprev)
           s4 == WithByte(s3, ByteAt(w, 4), emuprev)
           g == [i \in 0..n |->
                   IF i = 0 THEN buffer ELSE IF i = 1 THEN s1 ELSE IF i = 2 THEN s2
                   ELSE IF i = 3 THEN s3 ELSE s4]
<1>1. g = [i \in 0..n |-> g[i]]
  OBVIOUS
<1>2. \A i \in 0..n : /\ i = 0 => g[i] = buffer
                      /\ i = 1 => g[i] = s1
                      /\ i = 2 => g[i] = s2
                      /\ i = 3 => g[i] = s3
                      /\ i = 4 => g[i] = s4
  <2> HIDE DEF s1, s2, s3, s4
  <2> QED OBVIOUS
<1> HIDE DEF g
<1>3. \A i \in 0..n : g[i] = IF i = 0 THEN buffer ELSE WithByte(g[i-1], ByteAt(w, i), emuprev)
  <2> TAKE i \in 0..n
  <2>1. i \in {0, 1, 2, 3, 4}
    OBVIOUS
  <2>2. i # 0 => i - 1 \in 0..n
    OBVIOUS
  <2> HIDE DEF s1, s2, s3, s4
  <2>3. CASE i = 0
    BY <1>2, <2>3
  <2>4. CASE i = 1
    BY <1>2, <2>2, <2>4 DEF s1
  <2>5. CASE i = 2
    BY <1>2, <2>2, <2>5 DEF s2
  <2>6. CASE i = 3
    BY <1>2, <2>2, <2>6 DEF s3
  <2>7. CASE i = 4
    BY <1>2, <2>2, <2>7 DEF s4
  <2> QED BY <2>1, <2>3, <2>4, <2>5, <2>6, <2>7
<1>4. IsFlush(g, buffer, w, n, emuprev)
  <2>1. g = [i \in 0..n |-> IF i = 0 THEN buffer ELSE WithByte(g[i-1], ByteAt(w, i), emuprev)]
    BY <1>1, <1>3, Zenon
  <2> QED BY <2>1 DEF IsFlush
<1> QED BY <1>4

(* FLUSH_BITS puts numbits \div 8 bytes, each of them escaped or not. *)
LEMMA FlushGrows ==
  ASSUME NEW buffer \in Seq(Bytes), NEW w \in Words, NEW emuprev \in BOOLEAN,
         NEW numbits \in 0..32
  PROVE  Grown(FlushBits(buffer, w, numbits, emuprev), buffer, w, numbits \div 8)
<1> DEFINE n == numbits \div 8
           f == CHOOSE ff : IsFlush(ff, buffer, w, n, emuprev)
<1>1. n \in 0..4 /\ numbits \div BYTE = n
  BY DEF BYTE
<1>2. FlushBits(buffer, w, numbits, emuprev) = f[n]
  <2> HIDE DEF n
  <2>1. FlushBits(buffer, w, numbits, emuprev) =
          LET flushed[k \in 0..n] ==
                IF k = 0 THEN buffer ELSE WithByte(flushed[k-1], ByteAt(w, k), emuprev)
          IN  flushed[n]
    BY <1>1, Zenon DEF FlushBits, WithByte, ByteAt
  <2> QED BY <2>1, Zenon DEF IsFlush
<1> HIDE DEF n
<1>3. IsFlush(f, buffer, w, n, emuprev)
  BY <1>1, FlushExists
<1> HIDE DEF f
<1>4. \A k \in 0..n : f[k] = IF k = 0 THEN buffer ELSE WithByte(f[k-1], ByteAt(w, k), emuprev)
  BY <1>3 DEF IsFlush
<1>5. Grown(f[0], buffer, w, 0)
  <2>1. f[0] = buffer
    BY <1>1, <1>4
  <2>2. BufferWeight(buffer) \in Nat /\ Len(buffer) \in Nat
    BY BufferWeightIn
  <2> QED BY <2>1, <2>2 DEF Grown
<1>6. ASSUME NEW k \in 1..4, k <= n, Grown(f[k-1], buffer, w, k-1) PROVE Grown(f[k], buffer, w, k)
  <2> DEFINE b == f[k-1]
             byte == ByteAt(w, k)
  <2>1. f[k] = WithByte(b, byte, emuprev)
    BY <1>1, <1>4, <1>6
  <2>2. byte \in Bytes
    BY WordByte
  <2>3. /\ b \in Seq(Bytes) /\ Len(b) \in (Len(buffer) + (k-1))..(Len(buffer) + 2 * (k-1))
        /\ BufferWeight(b) <= BufferWeight(buffer) + 24 * (k-1)
    BY <1>6 DEF Grown
  <2> HIDE DEF b, byte
  <2>4. /\ f[k] \in Seq(Bytes)
        /\ Len(f[k]) \in (Len(b) + 1)..(Len(b) + 2)
        /\ BufferWeight(f[k]) <= BufferWeight(b) + 24
        /\ Before(f[k], 1) = byte
    BY <2>1, <2>2, <2>3, OneByte
  <2>5. Len(f[k]) \in (Len(buffer) + k)..(Len(buffer) + 2 * k)
    BY <2>3, <2>4
  <2>6. BufferWeight(f[k]) <= BufferWeight(buffer) + 24 * k
    <3>1. BufferWeight(buffer) \in Nat /\ BufferWeight(b) \in Nat /\ BufferWeight(f[k]) \in Nat
      BY <2>3, <2>4, BufferWeightIn
    <3> QED BY <2>3, <2>4, <3>1
  <2> QED BY <2>4, <2>5, <2>6 DEF Grown, byte
<1>7. Grown(f[n], buffer, w, n)
  <2>1. n \in {0, 1, 2, 3, 4}
    BY <1>1
  <2>2. n >= 1 => Grown(f[1], buffer, w, 1)
    BY <1>1, <1>5, <1>6
  <2>3. n >= 2 => Grown(f[2], buffer, w, 2)
    BY <1>1, <2>2, <1>6
  <2>4. n >= 3 => Grown(f[3], buffer, w, 3)
    BY <1>1, <2>3, <1>6
  <2>5. n >= 4 => Grown(f[4], buffer, w, 4)
    BY <1>1, <2>4, <1>6
  <2> QED BY <1>5, <2>1, <2>2, <2>3, <2>4, <2>5
<1> QED BY <1>2, <1>7 DEF n

(* A word with a code or'ed in is a word, and keeps its ones. *)
LEMMA OrIntoWord ==
  ASSUME NEW w \in Words, NEW code \in Seq(Bit), NEW at \in Int
  PROVE  /\ OrInto(w, code, at) \in Words
         /\ \A i \in 1..WORD : w[i] = 1 => OrInto(w, code, at)[i] = 1
         /\ \A i \in 1..WORD : i - at \in DOMAIN code /\ code[i - at] = 1
                                 => OrInto(w, code, at)[i] = 1
<1>1. \A i \in 1..WORD : w[i] \in Bit
  BY DEF Words
<1>2. OrInto(w, code, at) \in Words
  BY <1>1 DEF OrInto, Words, Bit
<1>3. \A i \in 1..WORD : w[i] = 1 => OrInto(w, code, at)[i] = 1
  BY DEF OrInto
<1>4. \A i \in 1..WORD : i - at \in DOMAIN code /\ code[i - at] = 1
                           => OrInto(w, code, at)[i] = 1
  BY DEF OrInto
<1> QED BY <1>2, <1>3, <1>4

(* The cleared word. *)
LEMMA ZerosWord == Zeros(WORD) \in Words
BY DEF Zeros, Words, WORD, Bit

(* The weight of the buffer, and three for each bit in the cache. *)
Weight(h) == BufferWeight(h.buffer) + 3 * (WORD - h.iBitLocPtr)

(* g is h with n bits more. *)
Puts(h, g, n) ==
  /\ g \in Handlers
  /\ g.allocBytes = h.allocBytes
  /\ Weight(g) <= Weight(h) + 3 * n
  /\ (g.iBitLocPtr + n - h.iBitLocPtr) % BYTE = 0
  /\ g.sure = h.sure
  /\ h.room /\ Weight(h) + 3 * n < 16 * h.allocBytes => g.room

(* A code that leaves the word incomplete, and one that completes it. *)
Cached(h, g, code) ==
  /\ g.uiCurrWord = OrInto(h.uiCurrWord, code, WORD - h.iBitLocPtr)
  /\ g.iBitLocPtr = h.iBitLocPtr - Len(code)
  /\ g.buffer = h.buffer
  /\ g.room = h.room

Completed(h, g, code) ==
  /\ g.uiCurrWord = RestOf(code, h.iBitLocPtr)
  /\ g.iBitLocPtr = h.iBitLocPtr - Len(code) + WORD
  /\ Grown(g.buffer, h.buffer, OrInto(h.uiCurrWord, code, WORD - h.iBitLocPtr), 4)
  /\ g.room = (h.room /\ Len(g.buffer) < h.allocBytes)

CodeIsPut(h, g, code) ==
  /\ g \in Handlers
  /\ g.allocBytes = h.allocBytes
  /\ g.sure = h.sure
  /\ IF h.iBitLocPtr - Len(code) > 0 THEN Cached(h, g, code) ELSE Completed(h, g, code)

(* The types of the fields of a handler. *)
LEMMA HandlerFields ==
  ASSUME NEW h \in Handlers
  PROVE  /\ h.uiCurrWord \in Words /\ h.iBitLocPtr \in 1..32 /\ h.buffer \in Seq(Bytes)
         /\ h.allocBytes \in Nat /\ h.room \in BOOLEAN /\ h.sure \in BOOLEAN
         /\ Len(h.buffer) \in Nat /\ BufferWeight(h.buffer) \in Nat
         /\ Weight(h) \in Nat /\ 16 * Len(h.buffer) <= Weight(h)
<1>1. /\ h.uiCurrWord \in Words /\ h.iBitLocPtr \in 1..32 /\ h.buffer \in Seq(Bytes)
      /\ h.allocBytes \in Nat /\ h.room \in BOOLEAN /\ h.sure \in BOOLEAN
  BY DEF Handlers, WORD
<1>2. /\ Len(h.buffer) \in Nat /\ BufferWeight(h.buffer) \in Nat
      /\ 16 * Len(h.buffer) <= BufferWeight(h.buffer)
  BY <1>1, BufferWeightIn
<1> DEFINE k == Len(h.buffer)
           w == BufferWeight(h.buffer)
           p == h.iBitLocPtr
<1>3. p \in 1..32 /\ k \in Nat /\ w \in Nat /\ 16 * k <= w
  BY <1>1, <1>2
<1>4. Weight(h) = w + 3 * (32 - p)
  BY DEF Weight, WORD
<1> HIDE DEF p, k, w
<1>5. Weight(h) \in Nat /\ 16 * k <= Weight(h)
  BY <1>3, <1>4
<1> QED BY <1>1, <1>2, <1>5 DEF k

(* What PutCodeInBitstream does, in terms of CodeIsPut. *)
LEMMA CodePut ==
  ASSUME NEW h \in Handlers, NEW code \in Seq(Bit), Len(code) <= 32, NEW emuprev \in BOOLEAN
  PROVE  CodeIsPut(h, PutCodeInBitstream(h, code, emuprev), code)
<1> DEFINE free == h.iBitLocPtr
           left == free - Len(code)
           word == OrInto(h.uiCurrWord, code, WORD - free)
           full == FlushBits(h.buffer, word, WORD, emuprev)
           rest == RestOf(code, free)
           ok   == h.room /\ Len(full) < h.allocBytes
           down == left + WORD
           a == [h EXCEPT !.uiCurrWord = word, !.iBitLocPtr = left]
           b == [h EXCEPT !.uiCurrWord = rest, !.iBitLocPtr = down, !.buffer = full, !.room = ok]
           g == PutCodeInBitstream(h, code, emuprev)
<1>1. h.uiCurrWord \in Words /\ free \in 1..32 /\ h.buffer \in Seq(Bytes) /\ h.allocBytes \in Nat
      /\ h.room \in BOOLEAN /\ h.sure \in BOOLEAN
  BY HandlerFields
<1>2. g = IF left > 0 THEN a ELSE b
  BY DEF PutCodeInBitstream, WordNotFull
<1>3. word \in Words
  <2>1. WORD - free \in Int
    <3>1. free \in 1..32
      BY <1>1
    <3> HIDE DEF free
    <3> QED BY <3>1 DEF WORD
  <2> QED BY <1>1, <2>1, OrIntoWord
<1>4. rest \in Words
  <2>1. -free \in Int
    <3>1. free \in 1..32
      BY <1>1
    <3> HIDE DEF free
    <3> QED BY <3>1
  <2> QED BY <2>1, ZerosWord, OrIntoWord DEF RestOf
<1>5. Grown(full, h.buffer, word, 4)
  <2>1. WORD \in 0..32 /\ WORD \div 8 = 4
    BY DEF WORD
  <2> HIDE DEF word
  <2> QED BY <1>1, <1>3, <2>1, FlushGrows
<1>6. left \in Int /\ left <= 32 /\ (left > 0 => left \in 1..WORD) /\ (~ left > 0 => down \in 1..WORD)
      /\ Len(code) \in Nat
  <2> DEFINE n == Len(code)
  <2>1. free \in 1..32 /\ n \in Nat /\ n <= 32
    BY <1>1
  <2> HIDE DEF free, n
  <2>2. left = free - n
    BY DEF n
  <2> HIDE DEF left, down
  <2>3. down = left + 32
    BY DEF down, WORD
  <2>4. left \in Int /\ left <= 32 /\ (left > 0 => left \in 1..32) /\ (~ left > 0 => down \in 1..32)
    BY <2>1, <2>2, <2>3
  <2> QED BY <2>1, <2>4 DEF WORD, n
<1>7. full \in Seq(Bytes)
  BY <1>5 DEF Grown
<1>8. ok \in BOOLEAN
  OBVIOUS
<1> HIDE DEF free, left, word, full, rest, ok, down, g
<1>9. CASE left > 0
  <2>1. g = a
    BY <1>2, <1>9
  <2>2. a \in Handlers /\ a.uiCurrWord = word /\ a.iBitLocPtr = left /\ a.buffer = h.buffer
        /\ a.allocBytes = h.allocBytes /\ a.sure = h.sure /\ a.room = h.room
    BY <1>3, <1>6, <1>9 DEF Handlers
  <2> HIDE DEF a
  <2> QED BY <1>9, <2>1, <2>2 DEF CodeIsPut, Cached, free, left, word, g
<1>10. CASE ~ left > 0
  <2>1. g = b
    BY <1>2, <1>10
  <2>2. b \in Handlers /\ b.uiCurrWord = rest /\ b.iBitLocPtr = down /\ b.buffer = full
        /\ b.allocBytes = h.allocBytes /\ b.sure = h.sure /\ b.room = ok
    BY <1>4, <1>6, <1>7, <1>8, <1>10 DEF Handlers
  <2> HIDE DEF b
  <2>3. Completed(h, g, code)
    <3>1. g.uiCurrWord = RestOf(code, h.iBitLocPtr)
      BY <2>1, <2>2 DEF rest, free
    <3>2. g.iBitLocPtr = h.iBitLocPtr - Len(code) + WORD
      BY <2>1, <2>2 DEF down, left, free
    <3>3. Grown(g.buffer, h.buffer, OrInto(h.uiCurrWord, code, WORD - h.iBitLocPtr), 4)
      BY <1>5, <2>1, <2>2 DEF word, free
    <3>4. g.room = (h.room /\ Len(g.buffer) < h.allocBytes)
      BY <2>1, <2>2 DEF ok
    <3> QED BY <3>1, <3>2, <3>3, <3>4 DEF Completed
  <2>4. g \in Handlers /\ g.allocBytes = h.allocBytes /\ g.sure = h.sure
        /\ ~ h.iBitLocPtr - Len(code) > 0
    BY <1>10, <2>1, <2>2 DEF left, free
  <2> QED BY <2>3, <2>4 DEF CodeIsPut, g
<1> QED BY <1>9, <1>10

(* A code puts its bits. *)
LEMMA CodePuts ==
  ASSUME NEW h \in Handlers, NEW g, NEW code \in Seq(Bit), CodeIsPut(h, g, code)
  PROVE  Puts(h, g, Len(code))
<1> DEFINE n == Len(code)
           k == BufferWeight(h.buffer)
           m == BufferWeight(g.buffer)
           l == Len(g.buffer)
           p == h.iBitLocPtr
           q == g.iBitLocPtr
<1>1. n \in Nat /\ k \in Nat /\ m \in Nat /\ p \in 1..32 /\ q \in 1..32 /\ g \in Handlers
      /\ h.room \in BOOLEAN /\ g.allocBytes = h.allocBytes /\ h.allocBytes \in Nat
      /\ g.sure = h.sure /\ l \in Nat /\ 16 * l <= m
  BY HandlerFields, BufferWeightIn DEF CodeIsPut
<1>2. Weight(h) = k + 3 * (32 - p) /\ Weight(g) = m + 3 * (32 - q)
  BY DEF Weight, WORD
<1>3. CASE p - n > 0
  <2>1. q = p - n /\ m = k /\ g.room = h.room
    BY <1>3 DEF CodeIsPut, Cached
  <2> HIDE DEF n, k, m, p, q
  <2>2. Weight(g) <= Weight(h) + 3 * n /\ (q + n - p) % 8 = 0
    BY <1>1, <1>2, <2>1
  <2> QED BY <1>1, <2>1, <2>2 DEF Puts, BYTE, n, p, q
<1>4. CASE ~ p - n > 0
  <2>1. q = p - n + 32 /\ m <= k + 96 /\ g.room = (h.room /\ l < h.allocBytes)
    <3>1. Completed(h, g, code)
      BY <1>4 DEF CodeIsPut
    <3>2. q = p - n + 32 /\ g.room = (h.room /\ l < h.allocBytes)
      BY <3>1 DEF Completed, WORD
    <3>3. m <= k + 24 * 4
      BY <3>1 DEF Completed, Grown
    <3> QED BY <1>1, <3>2, <3>3
  <2> HIDE DEF n, k, m, l, p, q
  <2>2. Weight(g) <= Weight(h) + 3 * n /\ (q + n - p) % 8 = 0
    BY <1>1, <1>2, <1>4, <2>1
  <2>3. Weight(h) + 3 * n < 16 * h.allocBytes => l < h.allocBytes
    BY <1>1, <1>2, <1>4, <2>1
  <2> QED BY <1>1, <2>1, <2>2, <2>3 DEF Puts, BYTE, n, p, q
<1> QED BY <1>3, <1>4

(* One after the other. *)
LEMMA PutsBoth ==
  ASSUME NEW h \in Handlers, NEW g, NEW k, NEW n \in Nat, NEW m \in Nat,
         Puts(h, g, n), Puts(g, k, m)
  PROVE  Puts(h, k, n + m)
<1>1. /\ Weight(h) \in Nat /\ Weight(g) \in Nat /\ Weight(k) \in Nat
      /\ h.iBitLocPtr \in 1..32 /\ g.iBitLocPtr \in 1..32 /\ k.iBitLocPtr \in 1..32
      /\ h.room \in BOOLEAN /\ g.room \in BOOLEAN /\ h.allocBytes \in Nat
  BY HandlerFields DEF Puts
<1>2. Weight(k) <= Weight(h) + 3 * (n + m)
  BY <1>1 DEF Puts
<1>3. (k.iBitLocPtr + (n + m) - h.iBitLocPtr) % 8 = 0
  <2>1. (g.iBitLocPtr + n - h.iBitLocPtr) % 8 = 0 /\ (k.iBitLocPtr + m - g.iBitLocPtr) % 8 = 0
    BY DEF Puts, BYTE
  <2> DEFINE p == h.iBitLocPtr
             q == g.iBitLocPtr
             r == k.iBitLocPtr
  <2>2. p \in 1..32 /\ q \in 1..32 /\ r \in 1..32 /\ (q + n - p) % 8 = 0 /\ (r + m - q) % 8 = 0
    BY <1>1, <2>1
  <2> HIDE DEF p, q, r
  <2>3. PICK x \in Int : q + n - p = 8 * x
    <3>1. q + n - p \in Int
      BY <2>2
    <3> QED BY <2>2, <3>1
  <2>4. PICK y \in Int : r + m - q = 8 * y
    <3>1. r + m - q \in Int
      BY <2>2
    <3> QED BY <2>2, <3>1
  <2>5. r + (n + m) - p = 8 * (x + y)
    BY <2>2, <2>3, <2>4
  <2>6. (8 * (x + y)) % 8 = 0
    OBVIOUS
  <2> QED BY <2>5, <2>6 DEF r, p
<1>4. h.room /\ Weight(h) + 3 * (n + m) < 16 * h.allocBytes => k.room
  BY <1>1 DEF Puts
<1>5. k \in Handlers /\ k.allocBytes = h.allocBytes /\ k.sure = h.sure
  BY DEF Puts
<1> QED BY <1>2, <1>3, <1>4, <1>5 DEF Puts, BYTE

(* A handler that is left alone. *)
LEMMA PutsNothing == ASSUME NEW h \in Handlers PROVE Puts(h, h, 0)
<1>1. h.iBitLocPtr \in 1..32 /\ Weight(h) \in Nat
  BY HandlerFields
<1> DEFINE p == h.iBitLocPtr
           w == Weight(h)
<1>2. p \in 1..32 /\ w \in Nat
  BY <1>1
<1> HIDE DEF p, w
<1>3. (p + 0 - p) % 8 = 0 /\ w <= w + 3 * 0
  BY <1>2
<1> QED BY <1>3 DEF p, w, Puts, BYTE

--------------------------------------------------------------------------------
(* A higher power of two is no smaller. *)
LEMMA Growing ==
  ASSUME NEW k \in 0..32, NEW j \in 0..32, j <= k PROVE Two(j) <= Two(k)
<1> DEFINE T == {m \in Nat : m <= 32 => \A i \in 0..m : Two(i) <= Two(m)}
<1>1. 0 \in T
  BY Doubling
<1>2. ASSUME NEW m \in Nat, m \in T PROVE m + 1 \in T
  <2> SUFFICES ASSUME m + 1 <= 32, NEW i \in 0..(m + 1) PROVE Two(i) <= Two(m + 1)
    OBVIOUS
  <2>1. Two(m + 1) = 2 * Two(m) /\ Two(m) \in Nat /\ Two(i) \in Nat
    BY Doubling
  <2>2. CASE i = m + 1
    BY <2>1, <2>2
  <2>3. CASE i # m + 1
    <3>1. i \in 0..m /\ m <= 32
      BY <2>3
    <3>2. Two(i) <= Two(m)
      BY <1>2, <3>1
    <3> QED BY <2>1, <3>2
  <2> QED BY <2>2, <2>3
<1> HIDE DEF T
<1>3. Nat \subseteq T
  BY <1>1, <1>2, NaturalsOf
<1>4. k \in T
  BY <1>3
<1> QED BY <1>4 DEF T

(* LOG2 of a number of k + 1 bits. *)
LEMMA LogarithmIs ==
  ASSUME NEW k \in 0..30, NEW q \in Nat, Two(k) <= q, q < Two(k + 1)
  PROVE  LOG2(q) = k + 1
<1>1. Two(k) \in Nat /\ Two(k) >= 1 /\ Two(k + 1) = 2 * Two(k)
  BY Doubling
<1>2. Two(k) <= q /\ q \div 2 < Two(k) /\ q # 0
  <2> DEFINE t == Two(k)
  <2>1. t \in Nat /\ t >= 1 /\ t <= q /\ q < 2 * t
    BY <1>1
  <2> HIDE DEF t
  <2>2. q \div 2 < t
    BY <2>1
  <2> QED BY <2>1, <2>2 DEF t
<1>3. ASSUME NEW j \in 0..30, Two(j) <= q, q \div 2 < Two(j) PROVE j = k
  <2> DEFINE t == Two(j)
  <2>1. t \in Nat /\ Two(j + 1) = 2 * t
    BY Doubling
  <2>2. q < 2 * t
    <3>1. t \in Nat /\ q \div 2 < t
      BY <2>1, <1>3
    <3> HIDE DEF t
    <3> QED BY <3>1
  <2>3. q < Two(j + 1)
    BY <2>1, <2>2
  <2>4. CASE j < k
    <3>1. j + 1 \in 0..32 /\ k \in 0..32 /\ j + 1 <= k
      BY <2>4
    <3>2. Two(j + 1) <= Two(k)
      BY <3>1, Growing
    <3>3. Two(j + 1) \in Nat
      BY <2>1
    <3> QED BY <1>1, <2>3, <3>2, <3>3
  <2>5. CASE k < j
    <3>1. k + 1 \in 0..32 /\ j \in 0..32 /\ k + 1 <= j
      BY <2>5
    <3>2. Two(k + 1) <= Two(j)
      BY <3>1, Growing
    <3> QED BY <1>1, <1>3, <2>1, <3>2
  <2> QED BY <2>4, <2>5
<1> DEFINE K == {j \in 0..30 : Two(j) <= q /\ q \div 2 < Two(j)}
<1>4. K = {k}
  BY <1>2, <1>3
<1>5. LOG2(q) = 1 + CHOOSE j \in K : TRUE
  <2>1. LOG2(q) = 1 + CHOOSE j \in 0..30 : Two(j) <= q /\ q \div 2 < Two(j)
    BY <1>2, Zenon DEF LOG2, Two
  <2>2. (CHOOSE j \in 0..30 : Two(j) <= q /\ q \div 2 < Two(j)) = CHOOSE j \in K : TRUE
    OBVIOUS
  <2> QED BY <2>1, <2>2
<1> HIDE DEF K
<1> QED BY <1>4, <1>5

(* A number below 2^m has a number of bits. *)
LEMMA LogarithmOf ==
  ASSUME NEW m \in 1..31, NEW q \in Nat, q >= 1, q < Two(m)
  PROVE  \E k \in 0..(m - 1) : Two(k) <= q /\ q < Two(k + 1) /\ LOG2(q) = k + 1
<1> DEFINE T == {j \in 0..32 : q < Two(j)}
<1>1. T \subseteq Nat /\ m \in T
  OBVIOUS
<1>2. PICK j \in T : \A i \in T : j <= i
  <2> HIDE DEF T
  <2> QED BY <1>1, LeastNatural
<1>3. j # 0
  <2>1. Two(0) = 1
    BY Powers
  <2>2. 0 \notin T
    BY <2>1
  <2> QED BY <2>2
<1> DEFINE k == j - 1
<1>4. k \in 0..(m - 1) /\ k \in 0..30 /\ k + 1 = j /\ k \notin T /\ k \in 0..32
  BY <1>1, <1>2, <1>3
<1>5. Two(k) \in Nat
  BY <1>4, Doubling
<1>6. q < Two(k + 1) /\ Two(k) <= q
  BY <1>2, <1>4, <1>5
<1> HIDE DEF k
<1>7. LOG2(q) = k + 1
  BY <1>4, <1>6, LogarithmIs
<1> QED BY <1>4, <1>6, <1>7

(* A number in n bits is a code of n bits. *)
LEMMA BitsOfIn ==
  ASSUME NEW v \in Int, NEW n \in Nat
  PROVE  BitsOf(v, n) \in Seq(Bit) /\ Len(BitsOf(v, n)) = n
<1>1. ASSUME NEW i \in 1..n PROVE (IF n - i > 30 THEN 0 ELSE (v \div Two(n - i)) % 2) \in Bit
  <2>1. CASE n - i > 30
    BY <2>1 DEF Bit
  <2>2. CASE ~ n - i > 30
    <3> DEFINE t == Two(n - i)
    <3>1. n - i \in 0..32
      BY <2>2
    <3>2. t \in Nat /\ t >= 1
      BY <3>1, Doubling
    <3> HIDE DEF t
    <3>3. v \div t \in Int
      BY <3>2
    <3> DEFINE d == v \div t
    <3>4. d \in Int
      BY <3>3
    <3> HIDE DEF d
    <3>5. d % 2 \in {0, 1}
      BY <3>4
    <3> QED BY <2>2, <3>5 DEF t, d, Bit
  <2> QED BY <2>1, <2>2
<1> DEFINE s == [i \in 1..n |-> IF n - i > 30 THEN 0 ELSE (v \div Two(n - i)) % 2]
<1>2. BitsOf(v, n) = s
  BY Zenon DEF BitsOf, Two
<1>3. s \in [1..n -> Bit]
  BY <1>1
<1> HIDE DEF s
<1> QED BY <1>2, <1>3

(* n zeros are a code of n bits. *)
LEMMA ZerosIn ==
  ASSUME NEW n \in Nat PROVE Zeros(n) \in Seq(Bit) /\ Len(Zeros(n)) = n
<1> DEFINE s == [i \in 1..n |-> 0]
<1>1. s \in [1..n -> Bit]
  BY DEF Bit
<1> HIDE DEF s
<1>2. s \in Seq(Bit) /\ Len(s) = n
  BY <1>1
<1> QED BY <1>2 DEF s, Zeros

(* The fields the headers put. *)
UEValues == {v \in Nat : v < 65535}
SEValues == {v \in Int : -1000 <= v /\ v <= 1000}

UFields  == [kind : {"u"}, val : Nat, len : 1..32]
UEFields == [kind : {"ue"}, val : UEValues, len : {0}]
SEFields == [kind : {"se"}, val : SEValues, len : {0}]
Fields   == UFields \cup UEFields \cup SEFields \cup {Trailing}

UELength(v) == 2 * (LOG2(v + 1) - 1) + 1

(* The bits of a field that is not the trailing bits. *)
Length(f) ==
  IF f.kind = "u" THEN f.len ELSE IF f.kind = "ue" THEN UELength(f.val)
  ELSE UELength(SignedCode(f.val))

(* The length of the code for a number, from the power of two below it. *)
LEMMA UELengthIs ==
  ASSUME NEW k, k \in 0..15, NEW v, v \in Nat, Two(k) <= v + 1, v + 1 < Two(k + 1)
  PROVE  UELength(v) = 2 * k + 1
<1> DEFINE q == v + 1
<1>1. q \in Nat /\ Two(k) <= q /\ q < Two(k + 1) /\ k \in 0..30
  OBVIOUS
<1> HIDE DEF q
<1>2. LOG2(q) = k + 1
  BY <1>1, LogarithmIs
<1>3. 2 * ((k + 1) - 1) + 1 = 2 * k + 1
  OBVIOUS
<1> QED BY <1>2, <1>3 DEF UELength, q

(* A number of the headers has such a power of two. *)
LEMMA UELengthIn ==
  ASSUME NEW v, v \in UEValues
  PROVE  \E k \in 0..15 : LOG2(v + 1) = k + 1 /\ UELength(v) = 2 * k + 1
<1> DEFINE q == v + 1
           m == 16
<1>1. m \in 1..31 /\ q \in Nat /\ q >= 1 /\ q < Two(m) /\ m - 1 = 15
  BY Powers DEF UEValues
<1> HIDE DEF q, m
<1>2. PICK k \in 0..(m - 1) : Two(k) <= q /\ q < Two(k + 1) /\ LOG2(q) = k + 1
  BY <1>1, LogarithmOf
<1>3. k \in 0..15
  BY <1>1
<1>4. 2 * ((k + 1) - 1) + 1 = 2 * k + 1
  BY <1>3
<1>5. UELength(v) = 2 * k + 1
  BY <1>2, <1>4 DEF UELength, q
<1> QED BY <1>2, <1>3, <1>5 DEF q

(* PutUNInBitstream puts iLength bits. *)
LEMMA UNPuts ==
  ASSUME NEW h \in Handlers, NEW v \in Int, NEW n \in 1..32
  PROVE  Puts(h, PutUNInBitstream(h, v, n), n)
<1> DEFINE h1 == [h EXCEPT !.sure = @ /\ n > 0]
           code == BitsOf(v, n)
           yes == TRUE
<1>1. h1 = h
  <2>1. (h.sure /\ n > 0) = h.sure
    <3>1. n > 0 /\ h.sure \in BOOLEAN
      BY HandlerFields
    <3> QED BY <3>1
  <2> DEFINE ok == h.sure /\ n > 0
  <2>3. h1 = [h EXCEPT !.sure = ok]
    OBVIOUS
  <2>4. ok = h.sure
    BY <2>1
  <2> HIDE DEF ok
  <2>2. [h EXCEPT !.sure = h.sure] = h
    BY DEF Handlers
  <2> QED BY <2>2, <2>3, <2>4
<1>2. code \in Seq(Bit) /\ Len(code) = n /\ Len(code) <= 32
  BY BitsOfIn
<1>3. PutUNInBitstream(h, v, n) = PutCodeInBitstream(h1, code, yes)
  BY DEF PutUNInBitstream
<1>4. yes \in BOOLEAN
  OBVIOUS
<1> HIDE DEF h1, code, yes
<1>5. CodeIsPut(h, PutCodeInBitstream(h, code, yes), code)
  BY <1>2, <1>4, CodePut
<1>6. Puts(h, PutCodeInBitstream(h, code, yes), Len(code))
  BY <1>2, <1>5, CodePuts
<1> QED BY <1>1, <1>2, <1>3, <1>6

(* PutUVInBitstream puts zeros, as many as the number has bits but one,    *)
(* and the number.                                                         *)
LEMMA UVPuts ==
  ASSUME NEW h \in Handlers, NEW v \in UEValues
  PROVE  Puts(h, PutUVInBitstream(h, v), UELength(v))
<1>1. PICK k \in 0..15 : LOG2(v + 1) = k + 1 /\ UELength(v) = 2 * k + 1
  BY UELengthIn
<1> DEFINE zeros == Zeros(k)
           code == BitsOf(v + 1, k + 1)
           yes == TRUE
           g == PutCodeInBitstream(h, zeros, yes)
<1>2. zeros \in Seq(Bit) /\ Len(zeros) = k
  BY ZerosIn
<1>3. code \in Seq(Bit) /\ Len(code) = k + 1
  <2>1. v + 1 \in Int /\ k + 1 \in Nat
    BY DEF UEValues
  <2> QED BY <2>1, BitsOfIn
<1>4. PutUVInBitstream(h, v) = PutCodeInBitstream(g, code, yes)
  <2>1. LOG2(v + 1) - 1 = k
    BY <1>1
  <2> QED BY <2>1 DEF PutUVInBitstream
<1>5. yes \in BOOLEAN
  OBVIOUS
<1> HIDE DEF zeros, code, yes, g
<1>6. Puts(h, g, k)
  <2>1. Len(zeros) <= 32
    BY <1>2
  <2>2. CodeIsPut(h, g, zeros)
    BY <1>2, <1>5, <2>1, CodePut DEF g
  <2>3. Puts(h, g, Len(zeros))
    BY <1>2, <2>2, CodePuts
  <2> QED BY <1>2, <2>3
<1>7. Puts(g, PutCodeInBitstream(g, code, yes), k + 1)
  <2>1. g \in Handlers /\ Len(code) <= 32
    BY <1>3, <1>6 DEF Puts
  <2>2. CodeIsPut(g, PutCodeInBitstream(g, code, yes), code)
    BY <1>3, <1>5, <2>1, CodePut
  <2>3. Puts(g, PutCodeInBitstream(g, code, yes), Len(code))
    BY <1>3, <2>1, <2>2, CodePuts
  <2> QED BY <1>3, <2>3
<1>8. Puts(h, PutCodeInBitstream(g, code, yes), k + (k + 1))
  <2>1. k \in Nat /\ k + 1 \in Nat
    OBVIOUS
  <2> QED BY <1>6, <1>7, <2>1, PutsBoth
<1>9. k + (k + 1) = UELength(v)
  BY <1>1
<1> QED BY <1>4, <1>8, <1>9

(* A field puts its bits. *)
LEMMA FieldPuts ==
  ASSUME NEW h \in Handlers, NEW f \in Fields, f.kind # "trailing"
  PROVE  Puts(h, PutField(h, f), Length(f)) /\ Length(f) \in 1..32
<1>1. CASE f \in UFields
  <2>1. f.kind = "u" /\ f.val \in Int /\ f.len \in 1..32
    BY <1>1 DEF UFields
  <2>2. PutField(h, f) = PutUNInBitstream(h, f.val, f.len)
    BY <2>1 DEF PutField
  <2>3. Length(f) = f.len
    BY <2>1 DEF Length
  <2> QED BY <2>1, <2>2, <2>3, UNPuts
<1>2. CASE f \in UEFields
  <2>1. f.kind = "ue" /\ f.val \in UEValues
    BY <1>2 DEF UEFields
  <2>2. PutField(h, f) = PutUVInBitstream(h, f.val)
    BY <2>1 DEF PutField
  <2>3. Length(f) = UELength(f.val)
    BY <2>1 DEF Length
  <2>4. UELength(f.val) \in 1..32
    BY <2>1, UELengthIn
  <2> QED BY <2>1, <2>2, <2>3, <2>4, UVPuts
<1>3. CASE f \in SEFields
  <2> DEFINE v == SignedCode(f.val)
  <2>1. f.kind = "se" /\ f.val \in SEValues
    BY <1>3 DEF SEFields
  <2>2. PutField(h, f) = PutUVInBitstream(h, v)
    BY <2>1 DEF PutField, PutSVInBitstream
  <2>3. Length(f) = UELength(v)
    BY <2>1 DEF Length
  <2>4. v \in UEValues
    <3> DEFINE x == f.val
    <3>1. x \in Int /\ -1000 <= x /\ x <= 1000
      BY <2>1 DEF SEValues
    <3> HIDE DEF x
    <3>2. SignedCode(x) \in Nat /\ SignedCode(x) < 65535
      BY <3>1 DEF SignedCode
    <3> QED BY <3>2 DEF x, UEValues
  <2> HIDE DEF v
  <2>5. UELength(v) \in 1..32
    BY <2>4, UELengthIn
  <2> QED BY <2>2, <2>3, <2>4, <2>5, UVPuts
<1>4. f # Trailing
  BY DEF Trailing
<1> QED BY <1>1, <1>2, <1>3, <1>4 DEF Fields

Terminated(buffer) == buffer # <<>> /\ Before(buffer, 1) # 0

(* The last whole byte, in the buffer or in the cache, holds a one.        *)
Stopped(g) ==
  /\ g \in Handlers
  /\ g.iBitLocPtr % BYTE = 0
  /\ IF g.iBitLocPtr = WORD THEN Terminated(g.buffer)
     ELSE \E i \in (WORD - g.iBitLocPtr - 7)..(WORD - g.iBitLocPtr) : g.uiCurrWord[i] = 1

(* g is h with at most n bits more. *)
PutsUpTo(h, g, n) == \E m \in 0..n : Puts(h, g, m)

(* A word whose last byte has a one leaves a byte that is not 0. *)
LEMMA GrownTerminated ==
  ASSUME NEW buffer \in Seq(Bytes), NEW w \in Words, NEW n \in 1..4, NEW b, Grown(b, buffer, w, n),
         NEW i \in (8 * n - 7)..(8 * n), w[i] = 1
  PROVE  Terminated(b)
<1>1. ByteAt(w, n) # 0
  BY WordByte
<1>2. b \in Seq(Bytes) /\ Len(b) >= 1 /\ Before(b, 1) = ByteAt(w, n)
  <2> DEFINE k == Len(buffer)
             m == Len(b)
  <2>1. b \in Seq(Bytes) /\ k \in Nat /\ m \in (k + n)..(k + 2 * n) /\ Before(b, 1) = ByteAt(w, n)
    BY DEF Grown
  <2> HIDE DEF k, m
  <2>2. m >= 1
    BY <2>1
  <2> QED BY <2>1, <2>2 DEF m
<1>3. b # <<>>
  BY <1>2
<1> QED BY <1>1, <1>2, <1>3 DEF Terminated

(* WriteRBSPTrailingBits leaves whole bytes, the last with a one. *)
LEMMA TrailingStops ==
  ASSUME NEW h \in Handlers
  PROVE  Stopped(WriteRBSPTrailingBits(h)) /\ PutsUpTo(h, WriteRBSPTrailingBits(h), 8)
<1> DEFINE one == <<1>>
           yes == TRUE
           g == PutCodeInBitstream(h, one, yes)
           p == h.iBitLocPtr
           q == g.iBitLocPtr
           a == (BYTE - (WORD - q)) % BYTE
           zeros == Zeros(a)
           k == PutCodeInBitstream(g, zeros, yes)
<1>1. WriteRBSPTrailingBits(h) = k
  BY DEF WriteRBSPTrailingBits, WriteAlignZeroBits
<1>2. one \in Seq(Bit) /\ Len(one) = 1 /\ one[1] = 1 /\ 1 \in DOMAIN one /\ yes \in BOOLEAN
  BY DEF Bit
<1> HIDE DEF one, yes, g
<1>3. CodeIsPut(h, g, one)
  <2>1. Len(one) <= 32
    BY <1>2
  <2> QED BY <1>2, <2>1, CodePut DEF g
<1>4. Puts(h, g, 1)
  <2>1. Puts(h, g, Len(one))
    BY <1>2, <1>3, CodePuts
  <2> QED BY <1>2, <2>1
<1>5. p \in 1..32 /\ g \in Handlers /\ q \in 1..32
  BY <1>4, HandlerFields DEF Puts
<1>6. a \in 0..7 /\ (a + (32 - q)) % 8 = 0 /\ a \in Nat
  <2> HIDE DEF p, q
  <2>1. (8 - (32 - q)) % 8 \in 0..7 /\ (((8 - (32 - q)) % 8) + (32 - q)) % 8 = 0
    BY <1>5
  <2> QED BY <2>1 DEF BYTE, WORD
<1> HIDE DEF a
<1>7. zeros \in Seq(Bit) /\ Len(zeros) = a
  BY <1>6, ZerosIn
<1> HIDE DEF zeros, k
<1>8. CodeIsPut(g, k, zeros)
  <2>1. Len(zeros) <= 32
    BY <1>6, <1>7
  <2> QED BY <1>2, <1>5, <1>7, <2>1, CodePut DEF k
<1>9. Puts(g, k, a)
  <2>1. Puts(g, k, Len(zeros))
    BY <1>5, <1>7, <1>8, CodePuts
  <2> QED BY <1>7, <2>1
<1>10. PutsUpTo(h, k, 8)
  <2> DEFINE n == 1
  <2>1. n \in Nat /\ Puts(h, g, n) /\ n + a \in 0..8
    BY <1>4, <1>6
  <2> HIDE DEF n
  <2>2. Puts(h, k, n + a)
    BY <1>6, <1>9, <2>1, PutsBoth
  <2> QED BY <2>1, <2>2 DEF PutsUpTo
<1>11. g.uiCurrWord \in Words /\ h.uiCurrWord \in Words /\ g.buffer \in Seq(Bytes) /\ h.buffer \in Seq(Bytes)
       /\ k \in Handlers
  BY <1>5, <1>9, HandlerFields DEF Puts
<1>12. CASE p = 1
  <2> DEFINE w == OrInto(h.uiCurrWord, one, WORD - p)
             at == WORD - p
             i == 32
  <2>1. q = 32 /\ Grown(g.buffer, h.buffer, w, 4)
    <3>1. ~ p - Len(one) > 0
      BY <1>2, <1>12
    <3>2. Completed(h, g, one)
      BY <1>3, <3>1 DEF CodeIsPut
    <3> QED BY <1>2, <1>12, <3>2 DEF Completed, WORD
  <2>2. at = 31 /\ at \in Int /\ i \in 1..WORD /\ i - at = 1
    BY <1>12 DEF WORD
  <2> HIDE DEF at, i
  <2>3. w \in Words /\ w[i] = 1
    <3>1. i - at \in DOMAIN one /\ one[i - at] = 1
      BY <1>2, <2>2
    <3>2. OrInto(h.uiCurrWord, one, at) \in Words /\ OrInto(h.uiCurrWord, one, at)[i] = 1
      BY <1>2, <1>11, <2>2, <3>1, OrIntoWord
    <3> QED BY <3>2 DEF at
  <2>4. Terminated(g.buffer)
    <3> DEFINE n == 4
    <3>1. n \in 1..4 /\ i \in (8 * n - 7)..(8 * n) /\ Grown(g.buffer, h.buffer, w, n)
      BY <2>1 DEF i
    <3> HIDE DEF n, w
    <3> QED BY <1>11, <2>3, <3>1, GrownTerminated
  <2>5. a = 0
    BY <1>6, <2>1
  <2>6. k.iBitLocPtr = 32 /\ k.buffer = g.buffer
    <3>1. q - Len(zeros) > 0 /\ q - Len(zeros) = 32
      BY <1>7, <2>1, <2>5
    <3>2. Cached(g, k, zeros)
      BY <1>8, <3>1 DEF CodeIsPut
    <3> QED BY <3>1, <3>2 DEF Cached
  <2>7. k.iBitLocPtr % BYTE = 0
    BY <2>6 DEF BYTE
  <2> QED BY <1>1, <1>10, <1>11, <2>4, <2>6, <2>7 DEF Stopped, WORD
<1>13. CASE p # 1
  <2> DEFINE at == WORD - p
             i == 33 - p
             v == OrInto(h.uiCurrWord, one, at)
  <2>1. at \in Int /\ i \in 1..WORD /\ i - at = 1 /\ i \in 1..31
    <3> HIDE DEF p
    <3> QED BY <1>5, <1>13 DEF WORD
  <2> HIDE DEF at, i
  <2>2. q = p - 1 /\ g.uiCurrWord = v
    <3>1. p - Len(one) > 0
      <4> HIDE DEF p
      <4> QED BY <1>2, <1>5, <1>13
    <3>2. Cached(h, g, one)
      BY <1>3, <3>1 DEF CodeIsPut
    <3> QED BY <1>2, <3>2 DEF Cached, at
  <2>3. g.uiCurrWord[i] = 1
    <3>1. i - at \in DOMAIN one /\ one[i - at] = 1
      BY <1>2, <2>1
    <3>2. OrInto(h.uiCurrWord, one, at)[i] = 1
      BY <1>2, <1>11, <2>1, <3>1, OrIntoWord
    <3> QED BY <2>2, <3>2
  <2> DEFINE at2 == WORD - q
             w == OrInto(g.uiCurrWord, zeros, at2)
  <2>4. w \in Words /\ w[i] = 1
    <3>1. at2 \in Int
      <4> HIDE DEF q
      <4> QED BY <1>5 DEF WORD
    <3> HIDE DEF at2
    <3> QED BY <1>7, <1>11, <2>1, <2>3, <3>1, OrIntoWord
  <2>5. CASE q - a > 0
    <3>1. Cached(g, k, zeros)
      BY <1>7, <1>8, <2>5 DEF CodeIsPut
    <3>2. k.iBitLocPtr = q - a /\ k.uiCurrWord = w
      BY <1>7, <3>1 DEF Cached
    <3> DEFINE r == k.iBitLocPtr
    <3>3. r = q - a /\ q = 32 - i
      <4> HIDE DEF p
      <4> QED BY <1>5, <2>2, <3>2 DEF i
    <3> HIDE DEF q, r, w
    <3>4. r \in 1..31 /\ r % 8 = 0 /\ i \in (32 - r - 7)..(32 - r)
      BY <1>5, <1>6, <2>1, <2>5, <3>3
    <3>5. Stopped(k)
      <4>1. r # WORD /\ r % BYTE = 0 /\ i \in (WORD - r - 7)..(WORD - r)
        BY <3>4 DEF BYTE, WORD
      <4>2. k.uiCurrWord[i] = 1
        BY <2>4, <3>2
      <4> QED BY <1>11, <4>1, <4>2 DEF Stopped, r
    <3> QED BY <1>1, <1>10, <3>5
  <2>6. CASE ~ q - a > 0
    <3>1. Completed(g, k, zeros)
      BY <1>7, <1>8, <2>6 DEF CodeIsPut
    <3>2. k.iBitLocPtr = q - a + 32 /\ Grown(k.buffer, g.buffer, w, 4)
      BY <1>7, <3>1 DEF Completed, WORD
    <3> DEFINE r == k.iBitLocPtr
               n == 4
    <3>3. r = q - a + 32 /\ q = 32 - i
      <4> HIDE DEF p
      <4> QED BY <1>5, <2>2, <3>2 DEF i
    <3>4. n \in 1..4 /\ Grown(k.buffer, g.buffer, w, n)
      BY <3>2
    <3> HIDE DEF q, r, w
    <3>5. r = 32 /\ i \in (8 * n - 7)..(8 * n)
      BY <1>5, <1>6, <2>1, <2>6, <3>3
    <3> HIDE DEF n
    <3>6. Terminated(k.buffer)
      BY <1>11, <2>4, <3>4, <3>5, GrownTerminated
    <3>7. k.iBitLocPtr = 32 /\ 32 % 8 = 0
      BY <3>5 DEF r
    <3>8. Stopped(k)
      BY <1>11, <3>6, <3>7 DEF Stopped, BYTE, WORD
    <3> QED BY <1>1, <1>10, <3>8
  <2> QED BY <2>5, <2>6
<1> QED BY <1>12, <1>13

(* FlushRemBytes. *)
Flushed(h, g) ==
  /\ g \in Handlers
  /\ g.allocBytes = h.allocBytes
  /\ g.iBitLocPtr = h.iBitLocPtr
  /\ 16 * Len(g.buffer) <= Weight(h)
  /\ g.sure = (h.sure /\ h.iBitLocPtr % BYTE = 0)
  /\ g.room = h.room
  /\ Stopped(h) => Terminated(g.buffer)

(* FlushRemBytes puts the whole bytes of the cache. *)
LEMMA RemFlushed ==
  ASSUME NEW h \in Handlers PROVE Flushed(h, FlushRemBytes(h))
<1> DEFINE p == h.iBitLocPtr
           w == h.uiCurrWord
           bits == WORD - p
           yes == TRUE
           b == FlushBits(h.buffer, w, bits, yes)
           ok == h.sure /\ p % BYTE = 0
           z == Zeros(WORD)
           g == [h EXCEPT !.uiCurrWord = z, !.buffer = b, !.sure = ok]
<1>1. FlushRemBytes(h) = g
  BY Zenon DEF FlushRemBytes
<1>2. w \in Words /\ p \in 1..32 /\ h.buffer \in Seq(Bytes) /\ h.allocBytes \in Nat /\ h.sure \in BOOLEAN
      /\ h.room \in BOOLEAN
  BY HandlerFields
<1>3. bits \in 0..32 /\ yes \in BOOLEAN /\ bits = 32 - p
  <2> HIDE DEF p
  <2> QED BY <1>2 DEF WORD
<1> HIDE DEF bits, yes
<1> DEFINE n == bits \div 8
<1>4. Grown(b, h.buffer, w, n)
  <2> HIDE DEF w
  <2> QED BY <1>2, <1>3, FlushGrows
<1>5. n \in 0..4 /\ 8 * n <= bits /\ (p % 8 = 0 => 8 * n = bits)
  <2> HIDE DEF p
  <2> QED BY <1>2, <1>3
<1> HIDE DEF n
<1>6. ok \in BOOLEAN /\ z \in Words /\ b \in Seq(Bytes)
  BY <1>4, ZerosWord DEF Grown
<1> HIDE DEF b, ok, z
<1>7. /\ g \in Handlers /\ g.iBitLocPtr = h.iBitLocPtr /\ g.allocBytes = h.allocBytes /\ g.buffer = b
      /\ g.sure = ok /\ g.room = h.room
  BY <1>2, <1>6 DEF Handlers
<1> HIDE DEF g
<1>8. 16 * Len(b) <= Weight(h)
  <2> DEFINE k == BufferWeight(h.buffer)
             l == BufferWeight(b)
             m == Len(b)
  <2>1. /\ k \in Nat /\ l \in Nat /\ m \in Nat /\ 16 * m <= l /\ l <= k + 24 * n
        /\ Weight(h) = k + 3 * bits
    BY <1>2, <1>4, <1>6, BufferWeightIn DEF Grown, Weight, bits
  <2> HIDE DEF k, l, m
  <2>2. 16 * m <= Weight(h)
    BY <1>3, <1>5, <2>1
  <2> QED BY <2>2 DEF m
<1>9. ASSUME Stopped(h) PROVE Terminated(b)
  <2>1. p % 8 = 0
    BY <1>9 DEF Stopped, BYTE
  <2>2. CASE p = 32
    <3>1. n = 0
      <4> HIDE DEF p
      <4> QED BY <1>3, <1>5, <2>2
    <3>2. b = h.buffer
      BY <1>4, <3>1 DEF Grown
    <3> QED BY <1>9, <2>2, <3>2 DEF Stopped, WORD
  <2>3. CASE p # 32
    <3>1. PICK i \in (WORD - p - 7)..(WORD - p) : w[i] = 1
      BY <1>9, <2>3 DEF Stopped, WORD
    <3>2. n \in 1..4 /\ i \in (8 * n - 7)..(8 * n)
      <4> HIDE DEF p, w
      <4> QED BY <1>2, <1>3, <1>5, <2>1, <2>3, <3>1 DEF WORD
    <3> HIDE DEF w
    <3> QED BY <1>2, <1>4, <3>1, <3>2, GrownTerminated
  <2> QED BY <2>2, <2>3
<1> QED BY <1>1, <1>7, <1>8, <1>9 DEF Flushed, ok

(* Two functions that begin alike and go on alike. *)
Lockstep(f, g, n) == f[0] = g[0] /\ \A k \in 1..n : f[k-1] = g[k-1] => f[k] = g[k]
AlikeTo(f, g, n)  == \A k \in 0..n : f[k] = g[k]

(* Functions in lockstep are alike. *)
LEMMA Agreeing ==
  ASSUME NEW n \in Nat, NEW f, NEW g, Lockstep(f, g, n) PROVE AlikeTo(f, g, n)
<1> DEFINE T == {k \in Nat : k <= n => f[k] = g[k]}
<1>1. 0 \in T
  BY DEF Lockstep
<1>2. ASSUME NEW k \in Nat, k \in T PROVE k + 1 \in T
  <2>1. CASE k + 1 <= n
    <3>1. k + 1 \in 1..n /\ (k + 1) - 1 = k /\ f[k] = g[k]
      BY <1>2, <2>1
    <3> QED BY <3>1 DEF Lockstep
  <2> QED BY <2>1
<1> HIDE DEF T
<1>3. Nat \subseteq T
  BY <1>1, <1>2, NaturalsOf
<1> QED BY <1>3 DEF T, AlikeTo

IsPut(f, h, fields, n) ==
  f = [k \in 0..n |-> IF k = 0 THEN h ELSE PutField(f[k-1], fields[k])]

(* The function in PutFields is defined. *)
LEMMA PutExists ==
  ASSUME NEW h, NEW fields, NEW n \in Nat PROVE \E f : IsPut(f, h, fields, n)
<1> DEFINE T == {m \in Nat : \E f : IsPut(f, h, fields, m)}
<1>1. 0 \in T
  <2>1. IsPut([k \in 0..0 |-> h], h, fields, 0)
    BY DEF IsPut
  <2> QED BY <2>1
<1>2. ASSUME NEW m \in Nat, m \in T PROVE m + 1 \in T
  <2>1. PICK f : IsPut(f, h, fields, m)
    BY <1>2
  <2> DEFINE g == [k \in 0..(m + 1) |-> IF k = 0 THEN h ELSE PutField(f[k-1], fields[k])]
  <2>2. \A k \in 0..m : g[k] = f[k]
    BY <2>1 DEF IsPut
  <2>3. \A k \in 0..(m + 1) : g[k] = IF k = 0 THEN h ELSE PutField(f[k-1], fields[k])
    OBVIOUS
  <2>4. g = [k \in 0..(m + 1) |-> g[k]]
    OBVIOUS
  <2> HIDE DEF g
  <2>5. \A k \in 0..(m + 1) : g[k] = IF k = 0 THEN h ELSE PutField(g[k-1], fields[k])
    <3> TAKE k \in 0..(m + 1)
    <3>1. CASE k = 0
      BY <2>3, <3>1
    <3>2. CASE k # 0
      <4>1. k - 1 \in 0..m
        BY <3>2
      <4>2. g[k-1] = f[k-1]
        BY <2>2, <4>1
      <4> QED BY <2>3, <3>2, <4>2
    <3> QED BY <3>1, <3>2
  <2>6. g = [k \in 0..(m + 1) |-> IF k = 0 THEN h ELSE PutField(g[k-1], fields[k])]
    BY <2>4, <2>5, Zenon
  <2> QED BY <2>6 DEF IsPut
<1> HIDE DEF T
<1>3. Nat \subseteq T
  BY <1>1, <1>2, NaturalsOf
<1> QED BY <1>3 DEF T

(* PutFields takes the last value of a function with its equation. *)
LEMMA PutIs ==
  ASSUME NEW h, NEW fields, Len(fields) \in Nat
  PROVE  \E f : /\ f[0] = h
                /\ \A k \in 1..Len(fields) : f[k] = PutField(f[k-1], fields[k])
                /\ PutFields(h, fields) = f[Len(fields)]
<1> DEFINE n == Len(fields)
           f == CHOOSE ff : IsPut(ff, h, fields, n)
<1>1. IsPut(f, h, fields, n)
  BY PutExists
<1>2. PutFields(h, fields) = f[n]
  BY Zenon DEF PutFields, IsPut
<1> HIDE DEF f, n
<1>3. n \in Nat
  BY DEF n
<1>4. f[0] = h /\ \A k \in 1..n : f[k] = PutField(f[k-1], fields[k])
  BY <1>1, <1>3 DEF IsPut
<1> QED BY <1>2, <1>4 DEF n

(* No fields leave a handler alone. *)
LEMMA PutNone == ASSUME NEW h PROVE PutFields(h, <<>>) = h
<1> DEFINE none == <<>>
<1>1. Len(none) = 0
  OBVIOUS
<1> HIDE DEF none
<1>2. PICK f : f[0] = h /\ PutFields(h, none) = f[Len(none)]
  BY <1>1, PutIs
<1> QED BY <1>1, <1>2 DEF none

(* Two lists of fields are put one after the other. *)
LEMMA PutBoth ==
  ASSUME NEW h, NEW S, NEW a \in Seq(S), NEW b \in Seq(S)
  PROVE  PutFields(h, a \o b) = PutFields(PutFields(h, a), b)
<1> DEFINE c == a \o b
           n == Len(a)
           m == Len(b)
           g == PutFields(h, a)
<1>1. JoinOf(c, a, b) /\ n \in Nat /\ m \in Nat /\ Len(c) \in Nat
  <2>1. c \in Seq(S) /\ JoinOf(c, a, b)
    BY Joined
  <2> HIDE DEF c
  <2> QED BY <2>1
<1> HIDE DEF c
<1>2. PICK x : x[0] = h /\ (\A k \in 1..Len(c) : x[k] = PutField(x[k-1], c[k])) /\ PutFields(h, c) = x[Len(c)]
  BY <1>1, PutIs
<1>3. PICK y : y[0] = h /\ (\A k \in 1..n : y[k] = PutField(y[k-1], a[k])) /\ g = y[n]
  BY <1>1, PutIs
<1>4. PICK z : z[0] = g /\ (\A k \in 1..m : z[k] = PutField(z[k-1], b[k])) /\ PutFields(g, b) = z[m]
  <2> HIDE DEF g
  <2> QED BY <1>1, PutIs
<1> HIDE DEF g
<1>5. Len(c) = n + m /\ (\A i \in 1..n : c[i] = a[i]) /\ (\A i \in 1..m : c[n + i] = b[i])
  BY <1>1 DEF JoinOf
<1> HIDE DEF n, m
<1>6. x[n] = y[n]
  <2>1. \A k \in 1..n : x[k-1] = y[k-1] => x[k] = y[k]
    <3> TAKE k \in 1..n
    <3>1. k \in 1..Len(c) /\ c[k] = a[k]
      BY <1>1, <1>5
    <3> QED BY <1>2, <1>3, <3>1
  <2>2. x[0] = y[0]
    BY <1>2, <1>3
  <2>3. n \in Nat
    BY <1>1
  <2>4. Lockstep(x, y, n)
    BY <2>1, <2>2 DEF Lockstep
  <2>5. AlikeTo(x, y, n)
    BY <2>3, <2>4, Agreeing
  <2> QED BY <2>3, <2>5 DEF AlikeTo
<1> DEFINE w == [k \in 0..m |-> x[n + k]]
<1>7. \A k \in 0..m : w[k] = x[n + k]
  OBVIOUS
<1> HIDE DEF w
<1>8. w[m] = z[m]
  <2>1. \A k \in 1..m : w[k-1] = z[k-1] => w[k] = z[k]
    <3> TAKE k \in 1..m
    <3>1. n + k \in 1..Len(c) /\ c[n + k] = b[k] /\ (n + k) - 1 = n + (k - 1) /\ k - 1 \in 0..m /\ k \in 0..m
      BY <1>1, <1>5
    <3>2. x[n + k] = PutField(x[n + (k - 1)], b[k])
      BY <1>2, <3>1
    <3>3. w[k] = PutField(w[k-1], b[k])
      BY <1>7, <3>1, <3>2
    <3>4. z[k] = PutField(z[k-1], b[k])
      BY <1>4
    <3> QED BY <3>3, <3>4
  <2>2. w[0] = z[0]
    <3>1. n + 0 = n /\ 0 \in 0..m
      BY <1>1
    <3> QED BY <1>3, <1>4, <1>6, <1>7, <3>1
  <2>3. m \in Nat
    BY <1>1
  <2>4. Lockstep(w, z, m)
    BY <2>1, <2>2 DEF Lockstep
  <2>5. AlikeTo(w, z, m)
    BY <2>3, <2>4, Agreeing
  <2> QED BY <2>3, <2>5 DEF AlikeTo
<1>9. x[n + m] = w[m]
  BY <1>1, <1>7
<1> QED BY <1>2, <1>4, <1>5, <1>8, <1>9 DEF c, g

(* One field is put by PutField. *)
LEMMA PutOne == ASSUME NEW h, NEW f PROVE PutFields(h, <<f>>) = PutField(h, f)
<1> DEFINE s == <<f>>
<1>1. Len(s) = 1 /\ s[1] = f
  OBVIOUS
<1> HIDE DEF s
<1>2. PICK x : x[0] = h /\ (\A k \in 1..Len(s) : x[k] = PutField(x[k-1], s[k])) /\ PutFields(h, s) = x[Len(s)]
  BY <1>1, PutIs
<1>3. x[1] = PutField(x[1-1], s[1])
  BY <1>1, <1>2
<1>4. 1 - 1 = 0
  OBVIOUS
<1> QED BY <1>1, <1>2, <1>3, <1>4 DEF s

--------------------------------------------------------------------------------
(* These fields are at most n bits, whatever they are put behind. *)
CostsUpTo(fields, n) ==
  /\ fields \in Seq(Fields)
  /\ \A h \in Handlers : PutsUpTo(h, PutFields(h, fields), n)

(* A list of one field. *)
LEMMA CostOfField ==
  ASSUME NEW f \in Fields, f.kind # "trailing", NEW n \in Nat, Length(f) <= n
  PROVE  CostsUpTo(<<f>>, n)
<1>1. ASSUME NEW h \in Handlers PROVE PutsUpTo(h, PutFields(h, <<f>>), n)
  <2>1. Puts(h, PutField(h, f), Length(f)) /\ Length(f) \in 1..32
    BY FieldPuts
  <2>2. Length(f) \in 0..n
    BY <2>1
  <2> QED BY <2>1, <2>2, PutOne DEF PutsUpTo
<1>2. <<f>> \in Seq(Fields)
  OBVIOUS
<1> QED BY <1>1, <1>2 DEF CostsUpTo

(* The trailing bits are at most eight. *)
LEMMA CostOfTrailing == CostsUpTo(<<Trailing>>, 8)
<1>1. ASSUME NEW h \in Handlers PROVE PutsUpTo(h, PutFields(h, <<Trailing>>), 8)
  <2>1. PutField(h, Trailing) = WriteRBSPTrailingBits(h)
    BY DEF PutField, Trailing
  <2> QED BY <2>1, PutOne, TrailingStops
<1>2. <<Trailing>> \in Seq(Fields)
  BY DEF Fields
<1> QED BY <1>1, <1>2 DEF CostsUpTo

(* Bounds add up over two puts. *)
LEMMA PutsUpToBoth ==
  ASSUME NEW h \in Handlers, NEW g, NEW k, NEW n \in Nat, NEW m \in Nat,
         PutsUpTo(h, g, n), PutsUpTo(g, k, m)
  PROVE  PutsUpTo(h, k, n + m)
<1>1. PICK a \in 0..n : Puts(h, g, a)
  BY DEF PutsUpTo
<1>2. PICK b \in 0..m : Puts(g, k, b)
  BY DEF PutsUpTo
<1>3. Puts(h, k, a + b)
  <2>1. a \in Nat /\ b \in Nat
    OBVIOUS
  <2> QED BY <1>1, <1>2, <2>1, PutsBoth
<1>4. a + b \in 0..(n + m)
  OBVIOUS
<1> QED BY <1>3, <1>4 DEF PutsUpTo

(* A put leaves a handler. *)
LEMMA PutsUpToHandler ==
  ASSUME NEW h, NEW g, NEW n, PutsUpTo(h, g, n) PROVE g \in Handlers
BY DEF PutsUpTo, Puts

(* The bounds of two lists add up. *)
LEMMA CostOfBoth ==
  ASSUME NEW a, NEW b, NEW n \in Nat, NEW m \in Nat, CostsUpTo(a, n), CostsUpTo(b, m)
  PROVE  CostsUpTo(a \o b, n + m)
<1>1. ASSUME NEW h \in Handlers PROVE PutsUpTo(h, PutFields(h, a \o b), n + m)
  <2> DEFINE g == PutFields(h, a)
  <2>1. PutsUpTo(h, g, n)
    BY DEF CostsUpTo
  <2>2. PutFields(h, a \o b) = PutFields(g, b)
    BY PutBoth DEF CostsUpTo
  <2> HIDE DEF g
  <2>3. g \in Handlers
    BY <2>1, PutsUpToHandler
  <2>4. PutsUpTo(g, PutFields(g, b), m)
    BY <2>3 DEF CostsUpTo
  <2> QED BY <2>1, <2>2, <2>4, PutsUpToBoth
<1>2. a \o b \in Seq(Fields)
  BY DEF CostsUpTo
<1> QED BY <1>1, <1>2 DEF CostsUpTo

(* No fields cost nothing. *)
LEMMA CostOfNone == CostsUpTo(<<>>, 0)
<1>1. ASSUME NEW h \in Handlers PROVE PutsUpTo(h, PutFields(h, <<>>), 0)
  <2>1. PutFields(h, <<>>) = h
    BY PutNone
  <2>2. Puts(h, h, 0) /\ 0 \in 0..0
    BY PutsNothing
  <2> QED BY <2>1, <2>2 DEF PutsUpTo
<1>2. <<>> \in Seq(Fields)
  OBVIOUS
<1> QED BY <1>1, <1>2 DEF CostsUpTo

(* A bound may be raised. *)
LEMMA CostAtMost ==
  ASSUME NEW a, NEW n \in Nat, NEW m \in Nat, CostsUpTo(a, n), n <= m
  PROVE  CostsUpTo(a, m)
<1>1. ASSUME NEW h \in Handlers PROVE PutsUpTo(h, PutFields(h, a), m)
  <2>1. PICK k \in 0..n : Puts(h, PutFields(h, a), k)
    BY DEF CostsUpTo, PutsUpTo
  <2>2. k \in 0..m
    OBVIOUS
  <2> QED BY <2>1, <2>2 DEF PutsUpTo
<1> QED BY <1>1 DEF CostsUpTo

(* Fields of at most b bits each. *)
LEMMA CostOfAll ==
  ASSUME NEW fields \in Seq(Fields), NEW b \in Nat,
         \A i \in 1..Len(fields) : fields[i].kind # "trailing" /\ Length(fields[i]) <= b
  PROVE  CostsUpTo(fields, b * Len(fields))
<1> DEFINE n == Len(fields)
<1>1. n \in Nat
  OBVIOUS
<1>2. ASSUME NEW h \in Handlers PROVE PutsUpTo(h, PutFields(h, fields), b * n)
  <2>1. PICK x : x[0] = h /\ (\A k \in 1..n : x[k] = PutField(x[k-1], fields[k])) /\ PutFields(h, fields) = x[n]
    BY <1>1, PutIs
  <2> DEFINE T == {m \in Nat : m <= n => PutsUpTo(h, x[m], b * m)}
  <2>2. 0 \in T
    <3>1. Puts(h, h, 0) /\ b * 0 = 0 /\ 0 \in 0..0
      BY PutsNothing
    <3> QED BY <2>1, <3>1 DEF PutsUpTo
  <2>3. ASSUME NEW m \in Nat, m \in T PROVE m + 1 \in T
    <3> SUFFICES ASSUME m + 1 <= n PROVE PutsUpTo(h, x[m + 1], b * (m + 1))
      OBVIOUS
    <3>1. m + 1 \in 1..n /\ (m + 1) - 1 = m /\ m <= n
      BY <1>1
    <3> DEFINE f == fields[m + 1]
    <3>2. x[m + 1] = PutField(x[m], f)
      BY <2>1, <3>1
    <3>3. f \in Fields /\ f.kind # "trailing" /\ Length(f) <= b
      BY <3>1
    <3> HIDE DEF f
    <3>4. PutsUpTo(h, x[m], b * m)
      BY <2>3, <3>1
    <3>5. x[m] \in Handlers
      BY <3>4, PutsUpToHandler
    <3>6. Puts(x[m], PutField(x[m], f), Length(f)) /\ Length(f) \in 1..32
      BY <3>3, <3>5, FieldPuts
    <3>7. PutsUpTo(x[m], x[m + 1], b)
      <4>1. Length(f) \in 0..b
        <5> DEFINE l == Length(f)
        <5>1. l \in 1..32 /\ l <= b
          BY <3>3, <3>6
        <5> HIDE DEF l
        <5>2. l \in 0..b
          BY <5>1
        <5> QED BY <5>2 DEF l
      <4> QED BY <3>2, <3>6, <4>1 DEF PutsUpTo
    <3> DEFINE c == b * m
    <3>8. c \in Nat /\ c + b = b * (m + 1)
      OBVIOUS
    <3> HIDE DEF c
    <3>9. PutsUpTo(h, x[m + 1], c + b)
      BY <3>4, <3>7, <3>8, PutsUpToBoth DEF c
    <3> QED BY <3>8, <3>9
  <2> HIDE DEF T
  <2>4. Nat \subseteq T
    BY <2>2, <2>3, NaturalsOf
  <2> QED BY <1>1, <2>1, <2>4 DEF T
<1> QED BY <1>2 DEF CostsUpTo

(* What trailing bits end is stopped. *)
LEMMA TrailingLast ==
  ASSUME NEW h \in Handlers, NEW a, NEW n \in Nat, CostsUpTo(a, n)
  PROVE  Stopped(PutFields(h, a \o <<Trailing>>))
<1> DEFINE g == PutFields(h, a)
           t == <<Trailing>>
<1>1. PutsUpTo(h, g, n) /\ a \in Seq(Fields)
  BY DEF CostsUpTo
<1>2. g \in Handlers
  BY <1>1, PutsUpToHandler
<1>3. t \in Seq(Fields)
  BY DEF Fields
<1>4. PutFields(h, a \o t) = PutFields(g, t)
  <2> HIDE DEF t
  <2> QED BY <1>1, <1>3, PutBoth
<1>5. PutFields(g, t) = PutField(g, Trailing)
  BY PutOne
<1>6. PutField(g, Trailing) = WriteRBSPTrailingBits(g)
  BY DEF PutField, Trailing
<1> QED BY <1>2, <1>4, <1>5, <1>6, TrailingStops

(* A list of n fields. *)
FieldList(s, n) == s \in Seq(Fields) /\ Len(s) = n

(* Fixed-length fields are fields. *)
LEMMA UIn == ASSUME NEW v, v \in Nat, NEW n, n \in 1..32 PROVE U(v, n) \in Fields
BY DEF U, Fields, UFields

(* Unsigned Exp-Golomb fields are fields. *)
LEMMA UEIn == ASSUME NEW v, v \in UEValues PROVE UE(v) \in Fields
<1> DEFINE f == UE(v)
<1>1. f = [kind |-> "ue", val |-> v, len |-> 0]
  BY DEF UE
<1>2. [kind |-> "ue", val |-> v, len |-> 0] \in UEFields
  BY DEF UEFields
<1> QED BY <1>1, <1>2 DEF Fields

(* Signed Exp-Golomb fields are fields. *)
LEMMA SEIn == ASSUME NEW v, v \in SEValues PROVE SE(v) \in Fields
<1> DEFINE f == SE(v)
<1>1. f = [kind |-> "se", val |-> v, len |-> 0]
  BY DEF SE
<1>2. [kind |-> "se", val |-> v, len |-> 0] \in SEFields
  BY DEF SEFields
<1> QED BY <1>1, <1>2 DEF Fields

(* The trailing bits are a field. *)
LEMMA TrailingIn == Trailing \in Fields
BY DEF Fields

(* The values that the headers code are small enough. *)
LEMMA SmallValues ==
  /\ \A v \in 0..1000 : v \in UEValues
  /\ \A v \in -100..100 : v \in SEValues
<1>1. ASSUME NEW v, v \in 0..1000 PROVE v \in UEValues
  BY <1>1 DEF UEValues
<1>2. ASSUME NEW v, v \in -100..100 PROVE v \in SEValues
  BY <1>2 DEF SEValues
<1> QED BY <1>1, <1>2

(* Flags are a list of fields. *)
LEMMA FlagsList ==
  ASSUME NEW bits, bits \in Seq(Nat) PROVE FieldList(Flags(bits), Len(bits))
<1> DEFINE s == [i \in 1..Len(bits) |-> U(bits[i], 1)]
           n == Len(bits)
<1>1. \A i \in 1..n : U(bits[i], 1) \in Fields
  <2> TAKE i \in 1..n
  <2> DEFINE one == 1
             v == bits[i]
  <2>1. v \in Nat /\ one \in 1..32
    OBVIOUS
  <2> HIDE DEF one, v
  <2>2. U(v, one) \in Fields
    BY <2>1, UIn
  <2> QED BY <2>2 DEF one, v
<1>2. s \in [1..n -> Fields]
  BY <1>1
<1>3. n \in Nat
  OBVIOUS
<1>4. Flags(bits) = s
  BY DEF Flags
<1> HIDE DEF s, n
<1>5. s \in Seq(Fields) /\ Len(s) = n
  BY <1>2, <1>3
<1> QED BY <1>4, <1>5 DEF FieldList, n

(* Codes are a list of fields. *)
LEMMA CodesList ==
  ASSUME NEW vals, vals \in Seq(UEValues) PROVE FieldList(Codes(vals), Len(vals))
<1> DEFINE s == [i \in 1..Len(vals) |-> UE(vals[i])]
           n == Len(vals)
<1>1. \A i \in 1..n : UE(vals[i]) \in Fields
  <2> TAKE i \in 1..n
  <2>1. vals[i] \in UEValues
    OBVIOUS
  <2> QED BY <2>1, UEIn
<1>2. s \in [1..n -> Fields]
  BY <1>1
<1>3. n \in Nat
  OBVIOUS
<1>4. Codes(vals) = s
  BY DEF Codes
<1> HIDE DEF s, n
<1>5. s \in Seq(Fields) /\ Len(s) = n
  BY <1>2, <1>3
<1> QED BY <1>4, <1>5 DEF FieldList, n

(* Lists of fields joined. *)
LEMMA ListBoth ==
  ASSUME NEW a, NEW b, NEW n, n \in Nat, NEW m, m \in Nat, FieldList(a, n), FieldList(b, m)
  PROVE  FieldList(a \o b, n + m)
<1>1. a \in Seq(Fields) /\ b \in Seq(Fields) /\ Len(a) = n /\ Len(b) = m
  BY DEF FieldList
<1>2. a \o b \in Seq(Fields) /\ Len(a \o b) = n + m
  BY <1>1
<1> QED BY <1>2 DEF FieldList

(* The last of a list put together. *)
LEMMA LastOf ==
  ASSUME NEW a, NEW n, n \in Nat, FieldList(a, n), NEW f \in Fields
  PROVE  LET s == a \o <<f>> IN s # <<>> /\ s[Len(s)] = f
<1> DEFINE t == <<f>>
           s == a \o t
<1>1. t \in Seq(Fields) /\ Len(t) = 1 /\ t[1] = f
  OBVIOUS
<1>2. a \in Seq(Fields) /\ Len(a) = n
  BY DEF FieldList
<1> HIDE DEF t
<1>3. s \in Seq(Fields) /\ JoinOf(s, a, t)
  BY <1>1, <1>2, Joined
<1> HIDE DEF s
<1>4. Len(s) = n + 1 /\ s[n + 1] = f
  BY <1>1, <1>2, <1>3 DEF JoinOf
<1>5. s # <<>> /\ s[Len(s)] = f
  BY <1>3, <1>4
<1> QED BY <1>5, Zenon DEF s, t

--------------------------------------------------------------------------------
(* LOG2 of the arguments that the SPS takes it of. *)
LEMMA Logarithms ==
  LOG2(31) = 5 /\ LOG2(3) = 2 /\ LOG2(2) = 2 /\ LOG2(7) = 3
<1>1. Two(1) = 2 /\ Two(2) = 4 /\ Two(3) = 8 /\ Two(4) = 16 /\ Two(5) = 32
  BY Powers
<1>2. ASSUME NEW k \in 0..30, NEW q \in Nat, NEW m, Two(k) <= q, q < Two(m), m = k + 1 PROVE LOG2(q) = m
  BY <1>2, LogarithmIs
<1>3. LOG2(31) = 5
  <2> DEFINE k == 4
             q == 31
             m == 5
  <2>1. k \in 0..30 /\ q \in Nat /\ Two(k) <= q /\ q < Two(m) /\ m = k + 1
    BY <1>1
  <2> HIDE DEF k, q, m
  <2>2. LOG2(q) = m
    BY <2>1, <1>2
  <2> QED BY <2>2 DEF q, m
<1>4. LOG2(3) = 2
  <2> DEFINE k == 1
             q == 3
             m == 2
  <2>1. k \in 0..30 /\ q \in Nat /\ Two(k) <= q /\ q < Two(m) /\ m = k + 1
    BY <1>1
  <2> HIDE DEF k, q, m
  <2>2. LOG2(q) = m
    BY <2>1, <1>2
  <2> QED BY <2>2 DEF q, m
<1>5. LOG2(2) = 2
  <2> DEFINE k == 1
             q == 2
             m == 2
  <2>1. k \in 0..30 /\ q \in Nat /\ Two(k) <= q /\ q < Two(m) /\ m = k + 1
    BY <1>1
  <2> HIDE DEF k, q, m
  <2>2. LOG2(q) = m
    BY <2>1, <1>2
  <2> QED BY <2>2 DEF q, m
<1>6. LOG2(7) = 3
  <2> DEFINE k == 2
             q == 7
             m == 3
  <2>1. k \in 0..30 /\ q \in Nat /\ Two(k) <= q /\ q < Two(m) /\ m = k + 1
    BY <1>1
  <2> HIDE DEF k, q, m
  <2>2. LOG2(q) = m
    BY <2>1, <1>2
  <2> QED BY <2>2 DEF q, m
<1> QED BY <1>3, <1>4, <1>5, <1>6

(* The lists of the parameter sets. *)
SetList(s, trails) ==
  /\ s \in Seq(Fields)
  /\ Len(s) \in 1..60
  /\ trails => s[Len(s)] = Trailing

(* The nine fields of the VPS. *)
LEMMA VPSList == SetList(VPSFields, FALSE) /\ Len(VPSFields) = 9
<1>1. U(12801, 16) \in Fields /\ U(0, 3) \in Fields /\ U(0, 5) \in Fields /\ U(0, 1) \in Fields
  BY DEF U, Fields, UFields
<1>2. UE(0) \in Fields /\ UE(1) \in Fields
  <2>1. 0 \in UEValues /\ 1 \in UEValues
    BY SmallValues
  <2> QED BY <2>1, UEIn
<1>3. VPSFields \in Seq(Fields) /\ Len(VPSFields) = 9
  BY <1>1, <1>2 DEF VPSFields
<1> QED BY <1>3 DEF SetList

(* The fields of the SPS, the last the trailing bits. *)
LEMMA SPSList == SetList(SPSFields(Width, Height), TRUE)
<1>1. maxCUDepth = 3 /\ CTU_WIDTH = 32 /\ log2MinTUSize = 2 /\ log2MaxTUSize = 5 /\ bitsForPOC = 8
  BY Logarithms DEF maxCUDepth, CTU_WIDTH, log2MinTUSize, log2MaxTUSize, bitsForPOC
<1>2. 2^3 = 8 /\ 2^2 = 4
  BY Powers DEF Two
<1> DEFINE splitCUSize == CTU_WIDTH \div 2^maxCUDepth
           minCUSize   == CTU_WIDTH \div 2^(maxCUDepth - 1)
           amvpNum     == maxCUDepth + IF splitCUSize > 2
                                       THEN LOG2(splitCUSize - 1) - LOG2(log2MinTUSize) ELSE 0
<1>3. splitCUSize = 4 /\ minCUSize = 8
  BY <1>1, <1>2
<1>4. amvpNum = 3
  <2>1. splitCUSize > 2 /\ splitCUSize - 1 = 3
    BY <1>3
  <2> HIDE DEF splitCUSize
  <2>2. LOG2(splitCUSize - 1) - LOG2(log2MinTUSize) = 0
    BY <1>1, <2>1, Logarithms
  <2> QED BY <1>1, <2>1, <2>2
<1>5. LOG2(minCUSize - 1) = 3
  <2>1. minCUSize - 1 = 7
    BY <1>3
  <2> HIDE DEF minCUSize
  <2> QED BY <2>1, Logarithms
<1> DEFINE s1 == <<U(13313, 16), U(0, 3), U(0, 5), U(0, 16), U(0, 8), U(0, 32)>>
           s2 == Codes(<<0, 0, 1>>)
           s3 == <<U(0, 3), UE(Width), UE(Height), U(0, 1)>>
           s4 == Codes(<<0, 0>>)
           s5 == <<U(0, 1)>>
           s6 == Codes(<<bitsForPOC - 4, 1, 0, 0>>)
           s7 == Flags(<<1, 0>>)
           s8 == Codes(<<LOG2(minCUSize - 1) - 3, maxCUDepth - 1,
                         log2MinTUSize - 2, log2MaxTUSize - 2, 0, 0>>)
           s9 == Flags(<<0, 1, 0, 0>>)
           s10 == <<UE(1), U(0, 1)>>
           s11 == Codes(<<1, 0, 0>>)
           s12 == Flags(<<1, 0, 0>>)
           s13 == Flags([i \in 1..amvpNum |-> 1])
           s14 == <<U(0, 1), Trailing>>
<1>6. SPSFields(Width, Height) =
        s1 \o s2 \o s3 \o s4 \o s5 \o s6 \o s7 \o s8 \o s9 \o s10 \o s11 \o s12 \o s13 \o s14
  BY SMT DEF SPSFields
<1>7. U(13313, 16) \in Fields /\ U(0, 3) \in Fields /\ U(0, 5) \in Fields /\ U(0, 16) \in Fields
      /\ U(0, 8) \in Fields /\ U(0, 32) \in Fields /\ U(0, 1) \in Fields
  BY DEF U, Fields, UFields
<1>8. UE(Width) \in Fields /\ UE(Height) \in Fields /\ UE(1) \in Fields
  <2>1. Width \in UEValues /\ Height \in UEValues /\ 1 \in UEValues
    BY SmallValues, SliceStreamAssumption DEF UEValues
  <2> QED BY <2>1, UEIn
<1>9. 0 \in UEValues /\ 1 \in UEValues /\ 2 \in UEValues /\ 3 \in UEValues /\ 4 \in UEValues
  BY SmallValues
<1>10. FieldList(s1, 6) /\ FieldList(s3, 4) /\ FieldList(s5, 1) /\ FieldList(s10, 2)
  BY <1>7, <1>8 DEF FieldList
<1>11. FieldList(s2, 3)
  <2> DEFINE v == <<0, 0, 1>>
  <2>1. v \in Seq(UEValues) /\ Len(v) = 3
    BY <1>9
  <2> HIDE DEF v
  <2> QED BY <2>1, CodesList DEF v
<1>12. FieldList(s4, 2)
  <2> DEFINE v == <<0, 0>>
  <2>1. v \in Seq(UEValues) /\ Len(v) = 2
    BY <1>9
  <2> HIDE DEF v
  <2> QED BY <2>1, CodesList DEF v
<1>13. FieldList(s6, 4)
  <2> DEFINE v == <<bitsForPOC - 4, 1, 0, 0>>
  <2>1. bitsForPOC - 4 = 4
    BY <1>1
  <2>2. v \in Seq(UEValues) /\ Len(v) = 4
    BY <1>9, <2>1
  <2> HIDE DEF v
  <2> QED BY <2>2, CodesList DEF v
<1>14. FieldList(s7, 2)
  <2> DEFINE v == <<1, 0>>
  <2>1. v \in Seq(Nat) /\ Len(v) = 2
    OBVIOUS
  <2> HIDE DEF v
  <2> QED BY <2>1, FlagsList DEF v
<1>15. FieldList(s8, 6)
  <2> DEFINE a == LOG2(minCUSize - 1) - 3
             b == maxCUDepth - 1
             c == log2MinTUSize - 2
             d == log2MaxTUSize - 2
             v == <<a, b, c, d, 0, 0>>
  <2>1. a = 0 /\ b = 2 /\ c = 0 /\ d = 3
    <3> HIDE DEF minCUSize
    <3> QED BY <1>1, <1>5
  <2> HIDE DEF a, b, c, d
  <2>2. v \in Seq(UEValues) /\ Len(v) = 6
    BY <1>9, <2>1
  <2> HIDE DEF v
  <2> QED BY <2>2, CodesList DEF v, a, b, c, d
<1>16. FieldList(s9, 4)
  <2> DEFINE v == <<0, 1, 0, 0>>
  <2>1. v \in Seq(Nat) /\ Len(v) = 4
    OBVIOUS
  <2> HIDE DEF v
  <2> QED BY <2>1, FlagsList DEF v
<1>17. FieldList(s11, 3)
  <2> DEFINE v == <<1, 0, 0>>
  <2>1. v \in Seq(UEValues) /\ Len(v) = 3
    BY <1>9
  <2> HIDE DEF v
  <2> QED BY <2>1, CodesList DEF v
<1>18. FieldList(s12, 3)
  <2> DEFINE v == <<1, 0, 0>>
  <2>1. v \in Seq(Nat) /\ Len(v) = 3
    OBVIOUS
  <2> HIDE DEF v
  <2> QED BY <2>1, FlagsList DEF v
<1>19. FieldList(s13, 3)
  <2> DEFINE v == [i \in 1..amvpNum |-> 1]
             n == amvpNum
  <2> HIDE DEF n
  <2>1. v = [i \in 1..n |-> 1] /\ n = 3
    BY <1>4 DEF n
  <2> HIDE DEF v
  <2>2. v \in Seq(Nat) /\ Len(v) = 3
    <3>1. v \in [1..n -> Nat] /\ n \in Nat
      BY <2>1
    <3> QED BY <2>1, <3>1
  <2> QED BY <2>2, FlagsList DEF v
<1>20. FieldList(s14, 2) /\ s14[2] = Trailing
  BY <1>7, TrailingIn DEF FieldList
<1> HIDE DEF s1, s2, s3, s4, s5, s6, s7, s8, s9, s10, s11, s12, s13, s14
<1> DEFINE t == s1 \o s2 \o s3 \o s4 \o s5 \o s6 \o s7 \o s8 \o s9 \o s10 \o s11 \o s12 \o s13
<1>21. FieldList(t, 43)
  <2>1. FieldList(s1 \o s2, 9)
    BY <1>10, <1>11, 6 \in Nat, 3 \in Nat, 6 + 3 = 9, ListBoth
  <2>2. FieldList(s1 \o s2 \o s3, 13)
    BY <1>10, <2>1, 9 \in Nat, 4 \in Nat, 9 + 4 = 13, ListBoth
  <2>3. FieldList(s1 \o s2 \o s3 \o s4, 15)
    BY <1>12, <2>2, 13 \in Nat, 2 \in Nat, 13 + 2 = 15, ListBoth
  <2>4. FieldList(s1 \o s2 \o s3 \o s4 \o s5, 16)
    BY <1>10, <2>3, 15 \in Nat, 1 \in Nat, 15 + 1 = 16, ListBoth
  <2>5. FieldList(s1 \o s2 \o s3 \o s4 \o s5 \o s6, 20)
    BY <1>13, <2>4, 16 \in Nat, 4 \in Nat, 16 + 4 = 20, ListBoth
  <2>6. FieldList(s1 \o s2 \o s3 \o s4 \o s5 \o s6 \o s7, 22)
    BY <1>14, <2>5, 20 \in Nat, 2 \in Nat, 20 + 2 = 22, ListBoth
  <2>7. FieldList(s1 \o s2 \o s3 \o s4 \o s5 \o s6 \o s7 \o s8, 28)
    BY <1>15, <2>6, 22 \in Nat, 6 \in Nat, 22 + 6 = 28, ListBoth
  <2>8. FieldList(s1 \o s2 \o s3 \o s4 \o s5 \o s6 \o s7 \o s8 \o s9, 32)
    BY <1>16, <2>7, 28 \in Nat, 4 \in Nat, 28 + 4 = 32, ListBoth
  <2>9. FieldList(s1 \o s2 \o s3 \o s4 \o s5 \o s6 \o s7 \o s8 \o s9 \o s10, 34)
    BY <1>10, <2>8, 32 \in Nat, 2 \in Nat, 32 + 2 = 34, ListBoth
  <2>10. FieldList(s1 \o s2 \o s3 \o s4 \o s5 \o s6 \o s7 \o s8 \o s9 \o s10 \o s11, 37)
    BY <1>17, <2>9, 34 \in Nat, 3 \in Nat, 34 + 3 = 37, ListBoth
  <2>11. FieldList(s1 \o s2 \o s3 \o s4 \o s5 \o s6 \o s7 \o s8 \o s9 \o s10 \o s11 \o s12, 40)
    BY <1>18, <2>10, 37 \in Nat, 3 \in Nat, 37 + 3 = 40, ListBoth
  <2> QED BY <1>19, <2>11, 40 \in Nat, 3 \in Nat, 40 + 3 = 43, ListBoth
<1> HIDE DEF t
<1> DEFINE s == t \o s14
<1>22. s \in Seq(Fields) /\ JoinOf(s, t, s14) /\ Len(t) = 43 /\ Len(s14) = 2
  BY <1>20, <1>21, Joined DEF FieldList
<1> HIDE DEF s
<1>23. Len(s) = 45 /\ s[45] = Trailing
  <2>1. 2 \in 1..Len(s14) /\ 43 + 2 = 45
    BY <1>22
  <2> QED BY <1>20, <1>22, <2>1 DEF JoinOf
<1>24. SetList(s, TRUE)
  BY <1>22, <1>23 DEF SetList
<1> QED BY <1>6, <1>24, Zenon DEF s, t

(* The fields of the PPS, the last the trailing bits. *)
LEMMA PPSList ==
  ASSUME NEW n, n \in 1..24 PROVE SetList(PPSFields(n, 1), TRUE)
<1> DEFINE tiles == n * 1 > 1
           s1 == <<U(13825, 16), UE(0), UE(0)>>
           s2 == Flags(<<0, 1>>)
           s3 == Codes(<<maxRefFrames - 1, 0>>)
           s4 == <<SE(0)>>
           s5 == Flags(<<0, 0, 0>>)
           s6 == <<SE(0), SE(0)>>
           s7 == Flags(<<0, 0, 0, 0, 0, 0>>)
           s8 == IF tiles THEN <<U(1, 2), UE(n - 1), UE(1 - 1), U(1, 1), U(0, 1)>>
                          ELSE <<U(0, 2)>>
           s9 == Flags(<<0, 1, 0, 0>>)
           s10 == <<UE(0)>>
           s11 == Flags(<<0, 0>>)
           s12 == <<Trailing>>
<1>1. PPSFields(n, 1) =
        s1 \o s2 \o s3 \o s4 \o s5 \o s6 \o s7 \o s8 \o s9 \o s10 \o s11 \o s12
  BY SMT DEF PPSFields
<1>2. U(13825, 16) \in Fields /\ U(1, 2) \in Fields /\ U(0, 2) \in Fields /\ U(1, 1) \in Fields
      /\ U(0, 1) \in Fields
  BY DEF U, Fields, UFields
<1>3. UE(0) \in Fields /\ UE(1 - 1) \in Fields /\ UE(n - 1) \in Fields
  <2> DEFINE z == 1 - 1
             m == n - 1
             o == 0
  <2>1. z = 0 /\ m \in Nat /\ m < 24 /\ o = 0
    OBVIOUS
  <2> HIDE DEF z, m, o
  <2>2. z \in UEValues /\ m \in UEValues /\ o \in UEValues
    BY <2>1 DEF UEValues
  <2>3. UE(z) \in Fields /\ UE(m) \in Fields /\ UE(o) \in Fields
    BY <2>2, UEIn
  <2> QED BY <2>3 DEF z, m, o
<1>4. SE(0) \in Fields
  <2> DEFINE o == 0
  <2>1. o \in -100..100
    OBVIOUS
  <2> HIDE DEF o
  <2>2. o \in SEValues
    BY <2>1, SmallValues
  <2> QED BY <2>2, SEIn DEF o
<1>5. 0 \in UEValues
  BY SmallValues
<1>6. FieldList(s1, 3) /\ FieldList(s4, 1) /\ FieldList(s6, 2) /\ FieldList(s10, 1)
  BY <1>2, <1>3, <1>4 DEF FieldList
<1>7. FieldList(s2, 2)
  <2> DEFINE v == <<0, 1>>
  <2>1. v \in Seq(Nat) /\ Len(v) = 2
    OBVIOUS
  <2> HIDE DEF v
  <2> QED BY <2>1, FlagsList DEF v
<1>8. FieldList(s3, 2)
  <2> DEFINE a == maxRefFrames - 1
             v == <<a, 0>>
  <2>1. a = 0
    BY DEF maxRefFrames
  <2> HIDE DEF a
  <2>2. v \in Seq(UEValues) /\ Len(v) = 2
    BY <1>5, <2>1
  <2> HIDE DEF v
  <2> QED BY <2>2, CodesList DEF v, a
<1>9. FieldList(s5, 3)
  <2> DEFINE v == <<0, 0, 0>>
  <2>1. v \in Seq(Nat) /\ Len(v) = 3
    OBVIOUS
  <2> HIDE DEF v
  <2> QED BY <2>1, FlagsList DEF v
<1>10. FieldList(s7, 6)
  <2> DEFINE v == <<0, 0, 0, 0, 0, 0>>
  <2>1. v \in Seq(Nat) /\ Len(v) = 6
    OBVIOUS
  <2> HIDE DEF v
  <2> QED BY <2>1, FlagsList DEF v
<1>11. \E k \in 1..5 : FieldList(s8, k)
  <2>1. CASE tiles
    <3> DEFINE t == <<U(1, 2), UE(n - 1), UE(1 - 1), U(1, 1), U(0, 1)>>
    <3>1. FieldList(t, 5)
      BY <1>2, <1>3 DEF FieldList
    <3>2. s8 = t
      BY <2>1
    <3> HIDE DEF t, s8
    <3> QED BY <3>1, <3>2
  <2>2. CASE ~ tiles
    <3> DEFINE t == <<U(0, 2)>>
    <3>1. FieldList(t, 1)
      BY <1>2 DEF FieldList
    <3>2. s8 = t
      BY <2>2
    <3> HIDE DEF t, s8
    <3> QED BY <3>1, <3>2
  <2> QED BY <2>1, <2>2
<1>12. FieldList(s9, 4)
  <2> DEFINE v == <<0, 1, 0, 0>>
  <2>1. v \in Seq(Nat) /\ Len(v) = 4
    OBVIOUS
  <2> HIDE DEF v
  <2> QED BY <2>1, FlagsList DEF v
<1>13. FieldList(s11, 2)
  <2> DEFINE v == <<0, 0>>
  <2>1. v \in Seq(Nat) /\ Len(v) = 2
    OBVIOUS
  <2> HIDE DEF v
  <2> QED BY <2>1, FlagsList DEF v
<1> HIDE DEF tiles, s1, s2, s3, s4, s5, s6, s7, s8, s9, s10, s11
<1>14. PICK k \in 1..5 : FieldList(s8, k)
  BY <1>11
<1> DEFINE t == s1 \o s2 \o s3 \o s4 \o s5 \o s6 \o s7 \o s8 \o s9 \o s10 \o s11
           m == 19 + k + 4 + 1 + 2
<1>15. FieldList(t, m)
  <2>1. FieldList(s1 \o s2, 5)
    BY <1>6, <1>7, 3 \in Nat, 2 \in Nat, 3 + 2 = 5, ListBoth
  <2>2. FieldList(s1 \o s2 \o s3, 7)
    BY <1>8, <2>1, 5 \in Nat, 2 \in Nat, 5 + 2 = 7, ListBoth
  <2>3. FieldList(s1 \o s2 \o s3 \o s4, 8)
    BY <1>6, <2>2, 7 \in Nat, 1 \in Nat, 7 + 1 = 8, ListBoth
  <2>4. FieldList(s1 \o s2 \o s3 \o s4 \o s5, 11)
    BY <1>9, <2>3, 8 \in Nat, 3 \in Nat, 8 + 3 = 11, ListBoth
  <2>5. FieldList(s1 \o s2 \o s3 \o s4 \o s5 \o s6, 13)
    BY <1>6, <2>4, 11 \in Nat, 2 \in Nat, 11 + 2 = 13, ListBoth
  <2>6. FieldList(s1 \o s2 \o s3 \o s4 \o s5 \o s6 \o s7, 19)
    BY <1>10, <2>5, 13 \in Nat, 6 \in Nat, 13 + 6 = 19, ListBoth
  <2>7. FieldList(s1 \o s2 \o s3 \o s4 \o s5 \o s6 \o s7 \o s8, 19 + k)
    BY <1>14, <2>6, 19 \in Nat, k \in Nat, ListBoth
  <2>8. FieldList(s1 \o s2 \o s3 \o s4 \o s5 \o s6 \o s7 \o s8 \o s9, 19 + k + 4)
    BY <1>12, <2>7, 19 + k \in Nat, 4 \in Nat, ListBoth
  <2>9. FieldList(s1 \o s2 \o s3 \o s4 \o s5 \o s6 \o s7 \o s8 \o s9 \o s10, 19 + k + 4 + 1)
    BY <1>6, <2>8, 19 + k + 4 \in Nat, 1 \in Nat, ListBoth
  <2> QED BY <1>13, <2>9, 19 + k + 4 + 1 \in Nat, 2 \in Nat, ListBoth
<1>16. m \in Nat /\ m \in 1..59
  OBVIOUS
<1> HIDE DEF t, m
<1> DEFINE s == t \o s12
<1>17. s12 \in Seq(Fields) /\ Len(s12) = 1 /\ s12[1] = Trailing
  BY TrailingIn
<1> HIDE DEF s12
<1>18. s \in Seq(Fields) /\ JoinOf(s, t, s12) /\ Len(t) = m
  BY <1>15, <1>17, Joined DEF FieldList
<1> HIDE DEF s
<1>19. Len(s) = m + 1 /\ s[m + 1] = Trailing
  <2>1. 1 \in 1..Len(s12)
    BY <1>17
  <2> QED BY <1>17, <1>18, <2>1 DEF JoinOf
<1>20. SetList(s, TRUE)
  BY <1>16, <1>18, <1>19 DEF SetList
<1> QED BY <1>1, <1>20 DEF s, t

(* The number of bits of a code for a number below 2^m - 1. *)
LEMMA UELengthBelow ==
  ASSUME NEW m, m \in 1..16, NEW v, v \in Nat, v + 1 < Two(m)
  PROVE  UELength(v) \in 1..(2 * m - 1)
<1> DEFINE q == v + 1
<1>1. m \in 1..31 /\ q \in Nat /\ q >= 1 /\ q < Two(m)
  OBVIOUS
<1> HIDE DEF q
<1>2. PICK k \in 0..(m - 1) : Two(k) <= q /\ q < Two(k + 1) /\ LOG2(q) = k + 1
  BY <1>1, LogarithmOf
<1>3. 2 * ((k + 1) - 1) + 1 \in 1..(2 * m - 1)
  <2>1. k \in 0..(m-1)
    OBVIOUS
  <2> QED BY <2>1
<1> QED BY <1>2, <1>3 DEF UELength, q

(* The cost of a fixed-length field. *)
LEMMA CostOfU ==
  ASSUME NEW v, v \in Nat, NEW n, n \in 1..32 PROVE CostsUpTo(<<U(v, n)>>, n)
<1> DEFINE f == U(v, n)
<1>1. f \in Fields /\ f.kind # "trailing" /\ Length(f) = n
  BY UIn DEF U, Length
<1> HIDE DEF f
<1>2. n \in Nat /\ Length(f) <= n
  BY <1>1
<1>3. CostsUpTo(<<f>>, n)
  BY <1>1, <1>2, CostOfField
<1> QED BY <1>3 DEF f

(* The cost of an unsigned number below 2^m - 1. *)
LEMMA CostOfUE ==
  ASSUME NEW m, m \in 1..16, NEW v, v \in Nat, v + 1 < Two(m), NEW n, n = 2 * m - 1
  PROVE  CostsUpTo(<<UE(v)>>, n)
<1> DEFINE f == UE(v)
<1>1. v \in UEValues
  <2>1. Two(m) <= Two(16)
    BY 16 \in 0..32, m \in 0..32, m <= 16, Growing
  <2>2. Two(16) = 65536 /\ Two(m) \in Nat
    BY Powers, Doubling, m \in 0..32
  <2> QED BY <2>1, <2>2 DEF UEValues
<1>2. f \in Fields /\ f.kind # "trailing" /\ Length(f) = UELength(v)
  BY <1>1, UEIn DEF UE, Length
<1> HIDE DEF f
<1>3. UELength(v) \in 1..n /\ n \in Nat
  BY UELengthBelow
<1>4. Length(f) <= n
  BY <1>2, <1>3
<1>5. CostsUpTo(<<f>>, n)
  BY <1>2, <1>3, <1>4, CostOfField
<1> QED BY <1>5 DEF f

(* The cost of the QP delta of a slice header. *)
LEMMA CostOfSE ==
  ASSUME NEW v, v \in -25..25 PROVE CostsUpTo(<<SE(v)>>, 11)
<1> DEFINE f == SE(v)
           c == SignedCode(v)
           m == 6
           n == 11
<1>1. c \in Nat /\ c + 1 < Two(m) /\ m \in 1..16 /\ n = 2 * m - 1
  BY Powers DEF SignedCode
<1>2. v \in SEValues
  BY SmallValues, v \in -100..100
<1>3. f \in Fields /\ f.kind # "trailing" /\ Length(f) = UELength(c)
  BY <1>2, SEIn DEF SE, Length
<1> HIDE DEF f, c, m, n
<1>4. UELength(c) \in 1..n /\ n \in Nat
  BY <1>1, UELengthBelow
<1>5. Length(f) <= n
  BY <1>3, <1>4
<1>6. CostsUpTo(<<f>>, n)
  BY <1>3, <1>4, <1>5, CostOfField
<1> QED BY <1>6 DEF f, n

(* The tail of two lists joined. *)
LEMMA TailJoin ==
  ASSUME NEW S, NEW a, a \in Seq(S), NEW b, b \in Seq(S), a # <<>>
  PROVE  Tail(a \o b) = Tail(a) \o b /\ Tail(a) \in Seq(S) /\ (a \o b)[1] = a[1] /\ a \o b # <<>>
<1> DEFINE c == a \o b
           d == Tail(a) \o b
           n == Len(a)
           m == Len(b)
<1>1. n \in Nat /\ m \in Nat /\ n >= 1
  OBVIOUS
<1>2. c \in Seq(S) /\ JoinOf(c, a, b)
  BY Joined
<1>3. Tail(a) \in Seq(S) /\ Len(Tail(a)) = n - 1 /\ \A i \in 1..(n - 1) : Tail(a)[i] = a[i + 1]
  OBVIOUS
<1>4. d \in Seq(S) /\ JoinOf(d, Tail(a), b)
  BY <1>3, Joined
<1> HIDE DEF c, d
<1>5. Len(c) = n + m /\ c[1] = a[1] /\ c # <<>>
  <2>1. Len(c) = n + m /\ 1 \in 1..Len(a)
    BY <1>1, <1>2 DEF JoinOf
  <2>2. c[1] = a[1]
    BY <1>2, <2>1 DEF JoinOf
  <2> QED BY <1>1, <2>1, <2>2
<1>6. Tail(c) \in Seq(S) /\ Len(Tail(c)) = n + m - 1 /\ \A i \in 1..(n + m - 1) : Tail(c)[i] = c[i + 1]
  BY <1>1, <1>2, <1>5
<1>7. Len(d) = n + m - 1
  BY <1>1, <1>3, <1>4 DEF JoinOf
<1>8. ASSUME NEW i \in 1..(n + m - 1) PROVE Tail(c)[i] = d[i]
  <2>1. Tail(c)[i] = c[i + 1]
    BY <1>6
  <2>2. CASE i <= n - 1
    <3>1. i \in 1..Len(Tail(a)) /\ i + 1 \in 1..Len(a) /\ i \in 1..(n - 1)
      BY <1>1, <1>3, <2>2
    <3>2. d[i] = Tail(a)[i] /\ c[i + 1] = a[i + 1]
      BY <1>2, <1>4, <3>1 DEF JoinOf
    <3> QED BY <1>3, <2>1, <3>1, <3>2
  <2>3. CASE i > n - 1
    <3> DEFINE j == i - (n - 1)
    <3>1. j \in 1..m /\ (n - 1) + j = i /\ n + j = i + 1
      BY <1>1, <2>3
    <3> HIDE DEF j
    <3>2. d[(n - 1) + j] = b[j] /\ c[n + j] = b[j]
      BY <1>2, <1>3, <1>4, <3>1 DEF JoinOf
    <3> QED BY <2>1, <3>1, <3>2
  <2>4. i <= n - 1 \/ i > n - 1
    <3> HIDE DEF n, m
    <3> QED BY <1>1
  <2> QED BY <2>2, <2>3, <2>4
<1>9. Tail(c) = d
  <2> DEFINE k == n + m - 1
             x == Tail(c)
  <2>1. x \in Seq(S) /\ d \in Seq(S) /\ Len(x) = k /\ Len(d) = k /\ k \in Nat /\ \A i \in 1..k : x[i] = d[i]
    BY <1>1, <1>4, <1>6, <1>7, <1>8
  <2> HIDE DEF k, x
  <2>2. x = d
    BY <2>1
  <2> QED BY <2>2 DEF x
<1> QED BY <1>3, <1>5, <1>9 DEF c, d

(* The fields of a slice header, behind the first: 46 bits at most.        *)
LEMMA SliceHeaderCost ==
  ASSUME NEW num, num \in Nat, NEW qp, qp \in 1..51, NEW tiles
  PROVE  LET s == SliceHdrFields(num, qp, tiles)
         IN  /\ s \in Seq(Fields) /\ s # <<>>
             /\ s[1].val \in {2, 16}
             /\ CostsUpTo(Tail(s), 46)
             /\ tiles = 1 => \A h \in Handlers : Stopped(PutFields(h, Tail(s)))
<1> DEFINE u1 == U(IF num = 0 THEN 16 ELSE 2, 8)
           a == <<u1, U(1, 8), U(1, 1)>>
           b == IF num = 0 THEN <<U(0, 1)>> ELSE <<>>
           c == <<UE(0), UE(2), U(0, 1)>>
           poc == num % 2^bitsForPOC
           d == IF num # 0 THEN <<U(poc, bitsForPOC), U(1, 1), UE(0)>> ELSE <<>>
           e == <<SE(qp - 26), U(1, 1), UE(0)>>
           f == IF tiles = 1 THEN <<Trailing>> ELSE <<>>
           s == a \o b \o c \o d \o e \o f
<1>1. SliceHdrFields(num, qp, tiles) = s
  BY SMT DEF SliceHdrFields
<1>2. CostsUpTo(<<U(0, 1)>>, 1) /\ CostsUpTo(<<U(1, 1)>>, 1) /\ CostsUpTo(<<U(1, 8)>>, 8)
  <2> DEFINE z == 0
             o == 1
             g == 8
  <2>1. z \in Nat /\ o \in Nat /\ o \in 1..32 /\ g \in 1..32
    OBVIOUS
  <2> HIDE DEF z, o, g
  <2>2. CostsUpTo(<<U(z, o)>>, o) /\ CostsUpTo(<<U(o, o)>>, o) /\ CostsUpTo(<<U(o, g)>>, g)
    BY <2>1, CostOfU
  <2> QED BY <2>2 DEF z, o, g
<1>3. CostsUpTo(<<UE(0)>>, 1) /\ CostsUpTo(<<UE(2)>>, 3)
  <2> DEFINE z == 0
             o == 1
             w == 2
             g == 3
  <2>1. z \in Nat /\ w \in Nat /\ o \in 1..16 /\ w \in 1..16 /\ z + 1 < Two(o) /\ w + 1 < Two(w)
        /\ o = 2 * o - 1 /\ g = 2 * w - 1
    BY Powers
  <2> HIDE DEF z, o, w, g
  <2>2. CostsUpTo(<<UE(z)>>, o) /\ CostsUpTo(<<UE(w)>>, g)
    BY <2>1, CostOfUE
  <2> QED BY <2>2 DEF z, o, w, g
<1>4. CostsUpTo(<<SE(qp - 26)>>, 11)
  <2> DEFINE v == qp - 26
  <2>1. v \in -25..25
    OBVIOUS
  <2> HIDE DEF v
  <2> QED BY <2>1, CostOfSE DEF v
<1>5. CostsUpTo(<<>>, 0) /\ CostsUpTo(<<Trailing>>, 8)
  BY CostOfNone, CostOfTrailing
<1>6. CostsUpTo(b, 1)
  <2>1. CASE num = 0
    BY <1>2, <2>1
  <2>2. CASE num # 0
    <3>1. b = <<>>
      BY <2>2
    <3>2. CostsUpTo(<<>>, 1)
      BY <1>5, 0 \in Nat, 1 \in Nat, 0 <= 1, CostAtMost
    <3> HIDE DEF b
    <3> QED BY <3>1, <3>2
  <2> QED BY <2>1, <2>2
<1>7. CostsUpTo(c, 5)
  <2> DEFINE x == <<UE(0)>>
             y == <<UE(2)>>
             z == <<U(0, 1)>>
  <2>1. c = x \o y \o z
    OBVIOUS
  <2>2. CostsUpTo(x, 1) /\ CostsUpTo(y, 3) /\ CostsUpTo(z, 1)
    BY <1>2, <1>3
  <2> HIDE DEF c, x, y, z
  <2>3. CostsUpTo(x \o y, 4)
    BY <2>2, 1 \in Nat, 3 \in Nat, 1 + 3 = 4, CostOfBoth
  <2>4. CostsUpTo(x \o y \o z, 5)
    BY <2>2, <2>3, 4 \in Nat, 1 \in Nat, 4 + 1 = 5, CostOfBoth
  <2> QED BY <2>1, <2>4
<1>8. CostsUpTo(<<U(poc, bitsForPOC)>>, 8)
  <2>1. bitsForPOC = 8 /\ 2^8 = 256
    BY Powers DEF Two, bitsForPOC
  <2>2. poc \in Nat
    <3>1. num % 256 \in Nat
      OBVIOUS
    <3> QED BY <2>1, <3>1
  <2> DEFINE g == bitsForPOC
  <2>3. g \in 1..32 /\ g = 8
    BY <2>1
  <2> HIDE DEF poc, g
  <2>4. CostsUpTo(<<U(poc, g)>>, g)
    BY <2>2, <2>3, CostOfU
  <2> QED BY <2>3, <2>4 DEF g
<1>9. CostsUpTo(d, 10)
  <2>1. CASE num = 0
    <3>1. d = <<>>
      BY <2>1
    <3>2. CostsUpTo(<<>>, 10)
      BY <1>5, 0 \in Nat, 10 \in Nat, 0 <= 10, CostAtMost
    <3> HIDE DEF d
    <3> QED BY <3>1, <3>2
  <2>2. CASE num # 0
    <3> DEFINE x == <<U(poc, bitsForPOC)>>
               y == <<U(1, 1)>>
               z == <<UE(0)>>
    <3>1. d = x \o y \o z
      BY <2>2
    <3>2. CostsUpTo(x, 8) /\ CostsUpTo(y, 1) /\ CostsUpTo(z, 1)
      BY <1>2, <1>3, <1>8
    <3> HIDE DEF d, x, y, z
    <3>3. CostsUpTo(x \o y, 9)
      BY <3>2, 8 \in Nat, 1 \in Nat, 8 + 1 = 9, CostOfBoth
    <3>4. CostsUpTo(x \o y \o z, 10)
      BY <3>2, <3>3, 9 \in Nat, 1 \in Nat, 9 + 1 = 10, CostOfBoth
    <3> QED BY <3>1, <3>4
  <2> QED BY <2>1, <2>2
<1>10. CostsUpTo(e, 13)
  <2> DEFINE x == <<SE(qp - 26)>>
             y == <<U(1, 1)>>
             z == <<UE(0)>>
  <2>1. e = x \o y \o z
    OBVIOUS
  <2>2. CostsUpTo(x, 11) /\ CostsUpTo(y, 1) /\ CostsUpTo(z, 1)
    BY <1>2, <1>3, <1>4
  <2> HIDE DEF e, x, y, z
  <2>3. CostsUpTo(x \o y, 12)
    BY <2>2, 11 \in Nat, 1 \in Nat, 11 + 1 = 12, CostOfBoth
  <2>4. CostsUpTo(x \o y \o z, 13)
    BY <2>2, <2>3, 12 \in Nat, 1 \in Nat, 12 + 1 = 13, CostOfBoth
  <2> QED BY <2>1, <2>4
<1>11. CostsUpTo(f, 8)
  <2>1. CASE tiles = 1
    <3>1. f = <<Trailing>>
      BY <2>1
    <3> HIDE DEF f
    <3> QED BY <1>5, <3>1
  <2>2. CASE tiles # 1
    <3>1. f = <<>>
      BY <2>2
    <3>2. CostsUpTo(<<>>, 8)
      BY <1>5, 0 \in Nat, 8 \in Nat, 0 <= 8, CostAtMost
    <3> HIDE DEF f
    <3> QED BY <3>1, <3>2
  <2> QED BY <2>1, <2>2
<1>12. a \in Seq(Fields) /\ a # <<>> /\ a[1] = u1 /\ Tail(a) = <<U(1, 8), U(1, 1)>>
  <2>1. u1 \in Fields
    BY DEF U, Fields, UFields
  <2>2. U(1, 8) \in Fields /\ U(1, 1) \in Fields
    BY DEF U, Fields, UFields
  <2> HIDE DEF u1
  <2> QED BY <2>1, <2>2
<1>13. u1.val \in {2, 16}
  BY DEF U
<1>14. CostsUpTo(Tail(a), 9)
  <2> DEFINE x == <<U(1, 8)>>
             y == <<U(1, 1)>>
  <2>1. Tail(a) = x \o y
    BY <1>12
  <2>2. CostsUpTo(x, 8) /\ CostsUpTo(y, 1)
    BY <1>2
  <2> HIDE DEF a, x, y
  <2>3. CostsUpTo(x \o y, 9)
    BY <2>2, 8 \in Nat, 1 \in Nat, 8 + 1 = 9, CostOfBoth
  <2> QED BY <2>1, <2>3
<1> HIDE DEF a, b, c, d, e, f, u1
<1>15. b \in Seq(Fields) /\ c \in Seq(Fields) /\ d \in Seq(Fields) /\ e \in Seq(Fields) /\ f \in Seq(Fields)
  BY <1>6, <1>7, <1>9, <1>10, <1>11 DEF CostsUpTo
<1> DEFINE Starts(x, n) == /\ x \in Seq(Fields) /\ x # <<>> /\ x[1] = u1
                           /\ CostsUpTo(Tail(x), n)
<1>16. ASSUME NEW x, NEW y, NEW n, n \in Nat, NEW m, m \in Nat, Starts(x, n), CostsUpTo(y, m)
       PROVE  Starts(x \o y, n + m)
  <2>1. y \in Seq(Fields)
    BY <1>16 DEF CostsUpTo
  <2>2. Tail(x \o y) = Tail(x) \o y /\ (x \o y)[1] = x[1] /\ x \o y # <<>>
    BY <1>16, <2>1, TailJoin
  <2>3. x \o y \in Seq(Fields)
    BY <1>16, <2>1
  <2>4. CostsUpTo(Tail(x) \o y, n + m)
    BY <1>16, CostOfBoth
  <2> QED BY <1>16, <2>2, <2>3, <2>4
<1>17. Starts(a, 9)
  BY <1>12, <1>14
<1> HIDE DEF Starts
<1>18. Starts(a \o b, 10)
  BY <1>6, <1>17, <1>16, 9 \in Nat, 1 \in Nat, 9 + 1 = 10
<1>19. Starts(a \o b \o c, 15)
  BY <1>7, <1>18, <1>16, 10 \in Nat, 5 \in Nat, 10 + 5 = 15
<1>20. Starts(a \o b \o c \o d, 25)
  BY <1>9, <1>19, <1>16, 15 \in Nat, 10 \in Nat, 15 + 10 = 25
<1>21. Starts(a \o b \o c \o d \o e, 38)
  BY <1>10, <1>20, <1>16, 25 \in Nat, 13 \in Nat, 25 + 13 = 38
<1>22. Starts(s, 46)
  BY <1>11, <1>21, <1>16, 38 \in Nat, 8 \in Nat, 38 + 8 = 46
<1>23. ASSUME tiles = 1, NEW h \in Handlers PROVE Stopped(PutFields(h, Tail(s)))
  <2> DEFINE x == a \o b \o c \o d \o e
             n == 38
  <2>1. x \in Seq(Fields) /\ x # <<>> /\ CostsUpTo(Tail(x), n) /\ n \in Nat
    BY <1>21 DEF Starts
  <2>2. s = x \o f /\ f = <<Trailing>>
    BY <1>23 DEF f
  <2> HIDE DEF x, n, s
  <2>3. Tail(s) = Tail(x) \o <<Trailing>>
    BY <1>15, <2>1, <2>2, TailJoin
  <2> QED BY <2>1, <2>3, TrailingLast
<1> HIDE DEF s
<1> QED BY <1>1, <1>13, <1>22, <1>23 DEF Starts

(* uiMaxOffsetLengthMinus1 finds a length, the least. *)
LEMMA OffsetLength ==
  ASSUME NEW offsets, offsets \in Seq(Nat), offsets # <<>>, NEW m, m \in 1..30,
         \A i \in 1..Len(offsets) : offsets[i] < Two(m)
  PROVE  MaxOffsetLengthMinus1(offsets) \in 0..(m - 1)
<1> DEFINE S == {offsets[i] : i \in DOMAIN offsets}
           K == {n \in 0..29 : Max(S) < 2^(n + 1)}
           t == Two(m)
<1>1. t \in Nat
  <2>1. m \in 0..32
    OBVIOUS
  <2> QED BY <2>1, Doubling DEF t
<1>2. S \subseteq Nat /\ S # {} /\ \A x \in S : x < t
  OBVIOUS
<1> HIDE DEF S, t
<1>3. \E x \in S : \A y \in S : x >= y
  <2>1. \A x \in S : x <= t
    BY <1>1, <1>2
  <2> QED BY <1>1, <1>2, <2>1, GreatestNatural
<1>4. Max(S) \in S
  BY <1>3 DEF Max
<1>5. Max(S) < t
  BY <1>2, <1>4
<1>6. m - 1 \in K
  <2>1. m - 1 \in 0..29 /\ (m - 1) + 1 = m
    OBVIOUS
  <2>2. 2^((m - 1) + 1) = t
    BY <2>1, Zenon DEF t, Two
  <2> QED BY <1>5, <2>1, <2>2
<1>7. K \subseteq Nat
  <2> SUFFICES ASSUME NEW x \in K PROVE x \in Nat
    OBVIOUS
  <2>1. x \in 0..29
    OBVIOUS
  <2> QED BY <2>1
<1>8. MaxOffsetLengthMinus1(offsets) = Min(K)
  BY Zenon DEF MaxOffsetLengthMinus1, S
<1> HIDE DEF K
<1>9. \E x \in K : \A y \in K : x <= y
  BY <1>6, <1>7, LeastNatural
<1>10. Min(K) \in K /\ \A y \in K : Min(K) <= y
  BY <1>9 DEF Min
<1> DEFINE n == Min(K)
<1>11. n \in Nat /\ n <= m - 1
  BY <1>6, <1>7, <1>10
<1> HIDE DEF n
<1>12. n \in 0..(m - 1)
  BY <1>11
<1> QED BY <1>8, <1>12 DEF n

(* The entry points: their number, their length, themselves and the        *)
(* trailing bits.                                                          *)
EntryBits(n, m) == 26 + m * n

(* The entry points end in the trailing bits, and cost so much. *)
LEMMA EntryPointsPut ==
  ASSUME NEW offsets, offsets \in Seq(Nat), offsets # <<>>, Len(offsets) <= 23,
         NEW m, m \in 1..30, \A i \in 1..Len(offsets) : offsets[i] < Two(m),
         NEW h \in Handlers
  PROVE  /\ Stopped(PutFields(h, EntryPointFields(offsets)))
         /\ PutsUpTo(h, PutFields(h, EntryPointFields(offsets)), EntryBits(Len(offsets), m))
<1> DEFINE n == MaxOffsetLengthMinus1(offsets)
           l == Len(offsets)
           a == <<UE(l)>>
           b == <<UE(n)>>
           c == [i \in DOMAIN offsets |-> U(offsets[i], n + 1)]
           t == <<Trailing>>
<1>1. EntryPointFields(offsets) = a \o b \o c \o t
  BY SMT DEF EntryPointFields
<1>2. n \in 0..(m - 1)
  BY OffsetLength
<1>3. l \in 1..23 /\ l \in Nat /\ DOMAIN offsets = 1..l
  <2>1. DOMAIN offsets = 1..l /\ l \in Nat /\ l <= 23
    OBVIOUS
  <2>2. l # 0
    OBVIOUS
  <2> HIDE DEF l
  <2> QED BY <2>1, <2>2
<1>4. \A i \in 1..l : offsets[i] \in Nat
  OBVIOUS
<1> HIDE DEF n, l
<1>5. CostsUpTo(a, 9) /\ CostsUpTo(b, 9)
  <2> DEFINE k == 5
             r == 9
  <2>1. k \in 1..16 /\ r = 2 * k - 1 /\ l + 1 < Two(k) /\ n + 1 < Two(k) /\ n \in Nat
    <3>1. Two(k) = 32
      BY Powers
    <3>2. l + 1 < 32
      BY <1>3
    <3>3. n \in Nat /\ n + 1 < 32
      <4>1. m \in Nat /\ m <= 30
        OBVIOUS
      <4> QED BY <1>2, <4>1
    <3>4. k \in 1..16 /\ r = 2 * k - 1
      OBVIOUS
    <3> QED BY <3>1, <3>2, <3>3, <3>4
  <2> HIDE DEF k, r
  <2>2. CostsUpTo(<<UE(l)>>, r) /\ CostsUpTo(<<UE(n)>>, r)
    BY <1>3, <2>1, CostOfUE
  <2> QED BY <2>2 DEF r
<1>6. CostsUpTo(c, m * l)
  <2> DEFINE k == n + 1
  <2>1. k \in 1..32 /\ k <= m /\ m \in Nat
    BY <1>2
  <2> HIDE DEF k
  <2>2. c = [i \in 1..l |-> U(offsets[i], k)]
    BY <1>3 DEF k
  <2> HIDE DEF c
  <2>3. \A i \in 1..l : U(offsets[i], k) \in Fields /\ U(offsets[i], k).kind # "trailing"
                        /\ Length(U(offsets[i], k)) = k
    <3> TAKE i \in 1..l
    <3> DEFINE v == offsets[i]
    <3>1. v \in Nat
      BY <1>4
    <3> HIDE DEF v
    <3>2. U(v, k) \in Fields /\ U(v, k).kind # "trailing" /\ Length(U(v, k)) = k
      BY <2>1, <3>1, UIn DEF U, Length
    <3> QED BY <3>2 DEF v
  <2>4. c \in Seq(Fields) /\ Len(c) = l /\ \A i \in 1..l : c[i] = U(offsets[i], k)
    <3>1. c \in [1..l -> Fields]
      BY <2>2, <2>3
    <3> QED BY <1>3, <2>2, <3>1
  <2>5. \A i \in 1..Len(c) : c[i].kind # "trailing" /\ Length(c[i]) <= m
    <3> TAKE i \in 1..Len(c)
    <3>1. i \in 1..l /\ c[i] = U(offsets[i], k)
      BY <2>4
    <3> QED BY <2>1, <2>3, <3>1
  <2>6. CostsUpTo(c, m * Len(c))
    BY <2>1, <2>4, <2>5, CostOfAll
  <2> QED BY <2>4, <2>6
<1>7. CostsUpTo(t, 8)
  BY CostOfTrailing
<1> HIDE DEF a, b, c
<1>8. CostsUpTo(a \o b, 18)
  BY <1>5, 9 \in Nat, 9 + 9 = 18, CostOfBoth
<1> DEFINE x == m * l
<1>9. x \in Nat
  BY <1>3
<1> HIDE DEF x
<1>10. CostsUpTo(a \o b \o c, 18 + x)
  BY <1>6, <1>8, <1>9, 18 \in Nat, CostOfBoth DEF x
<1>11. CostsUpTo(a \o b \o c \o t, 18 + x + 8)
  <2> HIDE DEF t
  <2> QED BY <1>7, <1>9, <1>10, 18 + x \in Nat, 8 \in Nat, CostOfBoth
<1>12. Stopped(PutFields(h, a \o b \o c \o t))
  BY <1>9, <1>10, 18 + x \in Nat, TrailingLast
<1>13. 18 + x + 8 = EntryBits(l, m)
  <2>1. EntryBits(l, m) = 26 + x
    BY DEF EntryBits, x
  <2> QED BY <1>9, <2>1
<1>14. PutsUpTo(h, PutFields(h, a \o b \o c \o t), EntryBits(l, m))
  BY <1>11, <1>13 DEF CostsUpTo
<1> QED BY <1>1, <1>12, <1>14 DEF l

(* What a put does to a handler, whatever the number of bits.              *)
LEMMA PutsUpToFacts ==
  ASSUME NEW h \in Handlers, NEW g, NEW n \in Nat, PutsUpTo(h, g, n)
  PROVE  /\ g \in Handlers /\ g.allocBytes = h.allocBytes /\ g.sure = h.sure
         /\ Weight(g) <= Weight(h) + 3 * n
         /\ h.room /\ Weight(h) + 3 * n < 16 * h.allocBytes => g.room
<1>1. PICK m \in 0..n : Puts(h, g, m)
  BY DEF PutsUpTo
<1>2. Weight(h) \in Nat /\ h.allocBytes \in Nat /\ g \in Handlers
  BY <1>1, HandlerFields DEF Puts
<1>3. Weight(g) \in Nat
  BY <1>2, HandlerFields
<1> DEFINE w == Weight(h)
           v == Weight(g)
           a == h.allocBytes
<1>4. /\ v <= w + 3 * m /\ g.allocBytes = h.allocBytes /\ g.sure = h.sure
      /\ h.room /\ w + 3 * m < 16 * a => g.room
  BY <1>1 DEF Puts
<1>5. w \in Nat /\ v \in Nat /\ a \in Nat
  BY <1>2, <1>3
<1> HIDE DEF w, v, a
<1>6. v <= w + 3 * n /\ (w + 3 * n < 16 * a => w + 3 * m < 16 * a)
  BY <1>4, <1>5
<1> QED BY <1>2, <1>4, <1>6 DEF w, v, a

(* An emptied handler. *)
LEMMA EmptyHandler ==
  ASSUME NEW h \in Handlers
  PROVE  LET g == InitBitStreamWordLevel(h)
         IN  /\ g \in Handlers /\ g.allocBytes = h.allocBytes
             /\ g.sure = h.sure /\ g.room = h.room
             /\ g.iBitLocPtr = 32 /\ Weight(g) = 0
<1> DEFINE n == h.allocBytes
           x == NewHandler(n)
           g == [x EXCEPT !.room = h.room, !.sure = h.sure]
<1>1. /\ x \in Handlers /\ x.iBitLocPtr = 32 /\ x.buffer = <<>> /\ x.allocBytes = n
      /\ x.room \in BOOLEAN /\ x.sure \in BOOLEAN
  <2> DEFINE z == Zeros(WORD)
             w == WORD
             yes == TRUE
             y == [uiCurrWord |-> z, iBitLocPtr |-> w, buffer |-> <<>>,
                   allocBytes |-> n, room |-> yes, sure |-> yes]
  <2>1. x = y
    BY DEF NewHandler
  <2>2. z \in Words /\ w \in 1..WORD /\ n \in Nat /\ w = 32 /\ yes \in BOOLEAN
    BY ZerosWord, HandlerFields DEF WORD
  <2> HIDE DEF x, z, w, n, yes
  <2>3. y \in Handlers /\ y.iBitLocPtr = w /\ y.buffer = <<>> /\ y.allocBytes = n
    BY <2>2 DEF Handlers
  <2>4. y.room = yes /\ y.sure = yes
    OBVIOUS
  <2> HIDE DEF y
  <2> QED BY <2>1, <2>2, <2>3, <2>4
<1>2. InitBitStreamWordLevel(h) = g
  BY DEF InitBitStreamWordLevel
<1>3. h.room \in BOOLEAN /\ h.sure \in BOOLEAN
  BY HandlerFields
<1> HIDE DEF x
<1>4. /\ g \in Handlers /\ g.iBitLocPtr = 32 /\ g.buffer = <<>> /\ g.allocBytes = n
      /\ g.room = h.room /\ g.sure = h.sure
  BY <1>1, <1>3 DEF Handlers
<1> HIDE DEF g
<1>5. Weight(g) = 0
  <2> DEFINE b == g.buffer
  <2>1. b = <<>> /\ g.iBitLocPtr = 32
    BY <1>4
  <2>2. Len(b) = 0 /\ ZerosBehind(b) = 0
    BY <2>1 DEF ZerosBehind, Before
  <2>3. BufferWeight(b) = 0
    BY <2>2 DEF BufferWeight
  <2> QED BY <2>1, <2>3 DEF Weight, WORD
<1> QED BY <1>2, <1>4, <1>5

(* InitBitStreamWordLevel and the start code in front of a parameter set.  *)
LEMMA StartCodePuts ==
  ASSUME NEW h \in Handlers
  PROVE  LET g == PutStartCodeWordLevel(InitBitStreamWordLevel(h))
         IN  /\ g \in Handlers /\ g.allocBytes = h.allocBytes /\ g.sure = h.sure
             /\ g.iBitLocPtr % 8 = 0
<1> DEFINE e == InitBitStreamWordLevel(h)
           one == 1
           no == FALSE
           code == BitsOf(one, WORD)
           d == [e EXCEPT !.sure = @ /\ e.iBitLocPtr = WORD]
           g == PutCodeInBitstream(d, code, no)
<1>1. e \in Handlers /\ e.allocBytes = h.allocBytes /\ e.sure = h.sure /\ e.iBitLocPtr = 32
  BY EmptyHandler
<1>2. PutStartCodeWordLevel(e) = g
  BY DEF PutStartCodeWordLevel
<1> HIDE DEF e
<1>3. d = e
  <2> DEFINE ok == e.sure /\ e.iBitLocPtr = WORD
  <2>1. ok = e.sure
    BY <1>1, HandlerFields DEF WORD
  <2>2. d = [e EXCEPT !.sure = ok]
    OBVIOUS
  <2> HIDE DEF ok, d
  <2>3. [e EXCEPT !.sure = e.sure] = e
    BY <1>1 DEF Handlers
  <2> QED BY <2>1, <2>2, <2>3
<1>4. code \in Seq(Bit) /\ Len(code) = 32
  <2>1. one \in Int /\ WORD \in Nat /\ WORD = 32
    BY DEF WORD
  <2> HIDE DEF one
  <2> QED BY <2>1, BitsOfIn
<1> HIDE DEF code
<1>5. no \in BOOLEAN /\ Len(code) <= 32
  <2>1. no \in BOOLEAN
    OBVIOUS
  <2> HIDE DEF no
  <2> QED BY <1>4, <2>1
<1> HIDE DEF one, no, d
<1>6. CodeIsPut(e, g, code)
  BY <1>1, <1>3, <1>4, <1>5, CodePut
<1> HIDE DEF g
<1>7. Puts(e, g, 32)
  BY <1>1, <1>4, <1>6, CodePuts
<1>8. g \in Handlers /\ g.iBitLocPtr \in 1..32 /\ g.allocBytes = h.allocBytes /\ g.sure = h.sure
  BY <1>1, <1>7, HandlerFields DEF Puts
<1>9. g.iBitLocPtr % 8 = 0
  <2> DEFINE q == g.iBitLocPtr
  <2>1. (q + 32 - 32) % 8 = 0
    BY <1>1, <1>7 DEF Puts, BYTE
  <2>2. q \in 1..32
    BY <1>8
  <2> HIDE DEF q
  <2>3. q % 8 = 0
    BY <2>1, <2>2
  <2> QED BY <2>3 DEF q
<1> QED BY <1>2, <1>8, <1>9 DEF e

(* The slice header, of 78 bits at most; for one tile it ends in whole     *)
(* bytes.                                                                  *)
LEMMA SliceHeaderPut ==
  ASSUME NEW h \in Handlers, NEW num, num \in Nat, NEW qp, qp \in 1..51, NEW tiles
  PROVE  LET g == WriteSliceHdrInBitstream(h, SliceHdrFields(num, qp, tiles))
         IN  PutsUpTo(h, g, 78) /\ (tiles = 1 => g.iBitLocPtr % 8 = 0)
<1> DEFINE s == SliceHdrFields(num, qp, tiles)
           v == s[1].val
           one == 1
           no == FALSE
           code == BitsOf(one, 24) \o BitsOf(v, 8)
           g == PutCodeInBitstream(h, code, no)
<1>1. /\ v \in {2, 16} /\ CostsUpTo(Tail(s), 46)
      /\ tiles = 1 => \A k \in Handlers : Stopped(PutFields(k, Tail(s)))
  BY SliceHeaderCost
<1>2. WriteSliceHdrInBitstream(h, s) = PutFields(g, Tail(s))
  BY DEF WriteSliceHdrInBitstream
<1> HIDE DEF s, v
<1>3. code \in Seq(Bit) /\ Len(code) = 32
  <2> DEFINE n == 24
             m == 8
             x == BitsOf(one, n)
             y == BitsOf(v, m)
  <2>1. one \in Int /\ v \in Int /\ n \in Nat /\ m \in Nat /\ n + m = 32
    BY <1>1
  <2> HIDE DEF one, n, m
  <2>2. x \in Seq(Bit) /\ y \in Seq(Bit) /\ Len(x) = n /\ Len(y) = m
    BY <2>1, BitsOfIn
  <2> HIDE DEF x, y
  <2>3. x \o y \in Seq(Bit) /\ Len(x \o y) = n + m
    BY <2>2
  <2> QED BY <2>1, <2>3 DEF x, y, n, m
<1> HIDE DEF code
<1>4. no \in BOOLEAN /\ Len(code) <= 32
  <2>1. no \in BOOLEAN
    OBVIOUS
  <2> HIDE DEF no
  <2> QED BY <1>3, <2>1
<1> HIDE DEF no
<1>5. CodeIsPut(h, g, code)
  BY <1>3, <1>4, CodePut
<1> HIDE DEF g
<1>6. Puts(h, g, 32)
  BY <1>3, <1>5, CodePuts
<1>7. g \in Handlers /\ PutsUpTo(h, g, 32)
  BY <1>6 DEF Puts, PutsUpTo
<1>8. PutsUpTo(g, PutFields(g, Tail(s)), 46)
  BY <1>1, <1>7 DEF CostsUpTo
<1> DEFINE a == 32
           b == 46
<1>9. a \in Nat /\ b \in Nat /\ a + b = 78
  OBVIOUS
<1>10. PutsUpTo(h, g, a) /\ PutsUpTo(g, PutFields(g, Tail(s)), b)
  BY <1>7, <1>8
<1> HIDE DEF a, b
<1>11. PutsUpTo(h, PutFields(g, Tail(s)), a + b)
  BY <1>7, <1>9, <1>10, PutsUpToBoth
<1>12. tiles = 1 => PutFields(g, Tail(s)).iBitLocPtr % 8 = 0
  BY <1>1, <1>7 DEF Stopped, BYTE
<1> QED BY <1>2, <1>9, <1>11, <1>12 DEF s

(* A byte of a tile. *)
LEMMA BytePuts ==
  ASSUME NEW h \in Handlers, NEW b, b \in Nat
  PROVE  Puts(h, PutField(h, U(b, BYTE)), 8)
<1> DEFINE n == 8
           f == U(b, n)
<1>1. n \in 1..32
  OBVIOUS
<1>2. BYTE = n
  BY DEF BYTE
<1> HIDE DEF n
<1>3. f \in Fields /\ f.kind # "trailing" /\ Length(f) = n
  BY <1>1, UIn DEF U, Length
<1>4. Puts(h, PutField(h, f), n)
  BY <1>3, FieldPuts
<1> QED BY <1>2, <1>4 DEF n

(* The end of a tile: the last code, the trailing bits, FlushRemBytes. *)
LastBits(h, code) == PutFields(h, <<U(code[2], code[1]), Trailing>>)

(* The end of a tile leaves whole bytes, at most 20 bits further. *)
LEMMA TileEnds ==
  ASSUME NEW h \in Handlers, NEW code, code[1] \in 5..12, code[2] \in Nat
  PROVE  Stopped(LastBits(h, code)) /\ PutsUpTo(h, LastBits(h, code), 20)
<1> DEFINE n == code[1]
           v == code[2]
           f == U(v, n)
           a == <<f>>
           t == <<Trailing>>
           m == 12
           e == 8
<1>1. n \in 1..32 /\ n <= m /\ m \in Nat /\ e \in Nat /\ m + e = 20 /\ v \in Nat /\ n \in Nat
  OBVIOUS
<1>2. <<f, Trailing>> = a \o t
  OBVIOUS
<1>3. CostsUpTo(t, e)
  BY CostOfTrailing
<1> HIDE DEF m, e, n, v
<1>4. CostsUpTo(a, n)
  BY <1>1, CostOfU
<1> HIDE DEF a, f, t
<1>5. CostsUpTo(a, m)
  BY <1>1, <1>4, CostAtMost
<1>6. CostsUpTo(a \o t, m + e)
  BY <1>1, <1>3, <1>5, CostOfBoth
<1>7. LastBits(h, code) = PutFields(h, a \o t)
  BY <1>2 DEF LastBits, f, n, v
<1>8. Stopped(PutFields(h, a \o t))
  BY <1>1, <1>5, TrailingLast DEF t
<1>9. PutsUpTo(h, PutFields(h, a \o t), m + e)
  BY <1>6 DEF CostsUpTo
<1> QED BY <1>1, <1>7, <1>8, <1>9

Parameters == {"VPS", "SPS", "PPS"}

ScalarsOK ==
  /\ m_uiTotalTiles \in 1..MaxTiles /\ m_uiQP \in QPs
  /\ step \in Parameters \cup {"slice", "tile", "entry", "write"}
  /\ tile \in Tiles
  /\ uiCurrSliceNum \in Nat
  /\ todo \in Seq(Fields)
  /\ todo # <<>> => step \in Parameters

(* The handlers of the tiles and of the header, with their buffers. *)
HandlerTable(hs) ==
  /\ DOMAIN hs = Tiles \cup {SliceHeader}
  /\ \A i \in DOMAIN hs :
       /\ hs[i] \in Handlers
       /\ hs[i].allocBytes = IF i \in Tiles THEN TotalBytesPerTile ELSE HeaderBytes

HandlersOK == HandlerTable(handlers)

(* The codes of the tiles. *)
CodesOK == DOMAIN tileFields = Tiles /\ \A i \in Tiles : tileFields[i] \in Seq(Fields)

(* The weight that the codes of a tile account for: a byte is eight bits,  *)
(* the two codes that end a tile are sixteen at most, and the 78 bits of a *)
(* slice header are less than ten bytes.                                   *)
TileWeight(i) == 24 * (Len(tileFields[i]) + HeaderShare)

(* A tile that is coded, and one that is not. *)
Ended(i) ==
  /\ Terminated(handlers[i].buffer)
  /\ 16 * Len(handlers[i].buffer) <= TileWeight(i)

Open(i) ==
  /\ Weight(handlers[i]) <= TileWeight(i)
  /\ handlers[i].iBitLocPtr % 8 = 0

TilesOK ==
  /\ step = "tile" => \A i \in Tiles : IF i < tile THEN Ended(i) ELSE Open(i)
  /\ step \in {"entry", "write"} => \A i \in Tiles : Ended(i)

(* A tile whose codes account for less than its buffer met no overflow. *)
HasRoom(i) == TileWeight(i) < 16 * handlers[i].allocBytes => handlers[i].room

RoomOK == step \in {"tile", "entry", "write"} => \A i \in Tiles : HasRoom(i)

StreamInv == ScalarsOK /\ HandlersOK /\ CodesOK /\ TilesOK /\ RoomOK

(* The bits, modulo 8, of the fields of the VPS that are still to be put.  *)
VPSRest == <<0, 1, 2, 3, 6, 7, 8, 13, 16, 32>>

ParameterOK ==
  (step \in Parameters /\ headerFields # <<>>) =>
    LET n == Len(headerFields)
        k == Len(todo)
    IN  /\ headerFields = ParameterSet[step]
        /\ k <= n
        /\ \A i \in 1..k : todo[i] = headerFields[n - k + i]
        /\ k = 0 => handlers[0].iBitLocPtr % 8 = 0
        /\ step = "VPS" => (handlers[0].iBitLocPtr - VPSRest[k + 1]) % 8 = 0

TodoOK == todo # <<>> => headerFields # <<>>

SureInv == AssertionsHold /\ ParameterOK /\ TodoOK

(* The tiles and the header have handlers of their own, or share the only  *)
(* one.                                                                    *)
LEMMA Shape ==
  ASSUME ScalarsOK
  PROVE  /\ m_uiTotalTiles \in 1..24 /\ m_uiQP \in 1..51
         /\ 0 \in Tiles /\ LastTile \in Tiles /\ Tiles \subseteq Nat
         /\ m_uiTotalTiles > 1 => SliceHeader \notin Tiles
         /\ ~(m_uiTotalTiles > 1) => SliceHeader = 0 /\ m_uiTotalTiles = 1
<1>1. m_uiTotalTiles \in 1..24
  <2>1. MaxTiles \in 1..24 /\ m_uiTotalTiles \in 1..MaxTiles
    BY SliceStreamAssumption DEF ScalarsOK
  <2> QED BY <2>1
<1>2. m_uiQP \in 1..51
  BY SliceStreamAssumption DEF ScalarsOK
<1> QED BY <1>1, <1>2 DEF Tiles, LastTile, SliceHeader

(* A part of a line is no longer than the line. *)
LEMMA PartOfLine ==
  ASSUME NEW w \in 1..256, NEW t \in 1..24 PROVE (w + (t - 1)) \div t \in 0..256
<1> DEFINE x == w + (t - 1)
           q == x \div t
<1>1. q \in Int /\ t * q <= x
  BY SMTT(30)
<1>2. 0 <= q
  BY SMTT(30)
<1>3. q <= 256
  <2> SUFFICES ASSUME q >= 257 PROVE FALSE
    BY <1>1
  <2>1. x <= w * t
    <3>1. CASE t = 1
      BY <3>1
    <3>2. CASE t > 1
      <4>1. (w - 1) * (t - 1) >= 0
        BY SMTT(30)
      <4> QED BY <4>1, SMTT(30)
    <3> QED BY <3>1, <3>2
  <2>2. w * t <= 256 * t
    BY SMTT(30)
  <2>3. t * q >= 257 * t
    <3> HIDE DEF q
    <3> QED BY <1>1, SMTT(30)
  <2> QED BY <1>1, <2>1, <2>2, <2>3
<1> QED BY <1>1, <1>2, <1>3

(* The buffer of a tile is below 2^26 bytes. *)
LEMMA TileBytes ==
  ASSUME ScalarsOK PROVE TotalBytesPerTile \in Nat /\ TotalBytesPerTile < 67108864
<1> DEFINE w == Width \div CTU_WIDTH
           h == Height \div CTU_WIDTH
           t == m_uiTotalTiles
           q == (w + (t - 1)) \div t
<1>1. w \in 1..256 /\ h \in 0..256
  <2> DEFINE a == Width
             b == Height
  <2>1. a \in 64..8192 /\ b \in 64..8192 /\ w = a \div 32 /\ h = b \div 32
    BY SliceStreamAssumption DEF CTU_WIDTH
  <2> HIDE DEF a, b, w, h
  <2>2. a \div 32 \in 1..256 /\ b \div 32 \in 1..256
    <3> DEFINE k == a \div 32
               r == b \div 32
    <3>1. a \in Int /\ a >= 64 /\ a <= 8192 /\ b \in Int /\ b >= 64 /\ b <= 8192
      BY <2>1
    <3>2. /\ k \in Int /\ 32 * k <= a /\ a < 32 * k + 32
          /\ r \in Int /\ 32 * r <= b /\ b < 32 * r + 32
      BY <3>1
    <3> HIDE DEF k, r
    <3>3. k \in 1..256 /\ r \in 1..256
      BY <3>1, <3>2
    <3> QED BY <3>3 DEF k, r
  <2> QED BY <2>1, <2>2
<1>2. t \in 1..24
  BY Shape
<1>3. CTUsOfLargestTile = q * h
  BY DEF CTUsOfLargestTile, LastTile
<1> HIDE DEF w, h, t
<1>4. q \in 0..256
  BY <1>1, <1>2, PartOfLine
<1> HIDE DEF q
<1> DEFINE p == q * h
<1>5. p \in Int /\ p >= 0 /\ p <= 256 * h
  BY <1>1, <1>4, SMTT(30)
<1> HIDE DEF p
<1>6. p \in Nat /\ 800 * p < 67108864
  BY <1>1, <1>5
<1>7. TotalBytesPerTile = 800 * p
  BY <1>3 DEF TotalBytesPerTile, BYTES_PER_CTU, p
<1> QED BY <1>6, <1>7

(* What the number of tiles determines stays as it is. *)
LEMMA SameShape ==
  ASSUME m_uiTotalTiles' = m_uiTotalTiles
  PROVE  /\ Tiles' = Tiles /\ LastTile' = LastTile /\ SliceHeader' = SliceHeader
         /\ TotalBytesPerTile' = TotalBytesPerTile /\ HeaderShare' = HeaderShare
BY DEF Tiles, LastTile, SliceHeader, TotalBytesPerTile, CTUsOfLargestTile, HeaderShare

(* A table stays one. *)
LEMMA SameTable ==
  ASSUME m_uiTotalTiles' = m_uiTotalTiles, HandlerTable(handlers') PROVE HandlersOK'
BY SameShape DEF HandlersOK, HandlerTable

(* A table of handlers with one of them replaced. *)
LEMMA UpdateTable ==
  ASSUME NEW hs, HandlerTable(hs), NEW i, i \in DOMAIN hs, NEW g, g \in Handlers,
         g.allocBytes = hs[i].allocBytes
  PROVE  HandlerTable([hs EXCEPT ![i] = g])
<1> DEFINE t == [hs EXCEPT ![i] = g]
<1>1. DOMAIN t = DOMAIN hs
  OBVIOUS
<1>2. ASSUME NEW j \in DOMAIN hs PROVE t[j] \in Handlers /\ t[j].allocBytes = hs[j].allocBytes
  <2>1. hs[j] \in Handlers
    BY DEF HandlerTable
  <2> QED BY <2>1
<1> HIDE DEF t
<1>3. HandlerTable(t)
  BY <1>1, <1>2 DEF HandlerTable
<1> QED BY <1>3 DEF t

(* A field of any kind. *)
LEMMA AnyFieldPuts ==
  ASSUME NEW h \in Handlers, NEW f \in Fields
  PROVE  PutsUpTo(h, PutField(h, f), 32)
<1>1. CASE f.kind # "trailing"
  <2>1. Puts(h, PutField(h, f), Length(f)) /\ Length(f) \in 1..32
    BY <1>1, FieldPuts
  <2> DEFINE n == Length(f)
  <2>2. n \in 1..32
    BY <2>1
  <2> HIDE DEF n
  <2>3. n \in 0..32
    BY <2>2
  <2> QED BY <2>1, <2>3 DEF PutsUpTo, n
<1>2. CASE f.kind = "trailing"
  <2>1. PutField(h, f) = WriteRBSPTrailingBits(h)
    BY <1>2 DEF PutField
  <2>2. PICK m \in 0..8 : Puts(h, WriteRBSPTrailingBits(h), m)
    BY TrailingStops DEF PutsUpTo
  <2>3. m \in 0..32
    OBVIOUS
  <2> QED BY <2>1, <2>2, <2>3 DEF PutsUpTo
<1> QED BY <1>1, <1>2

--------------------------------------------------------------------------------
(* The handlers that the constructor makes. *)
LEMMA InvAtInit == Init => StreamInv
<1> SUFFICES ASSUME Init PROVE StreamInv
  OBVIOUS
<1>1. ScalarsOK
  <2>1. m_uiTotalTiles \in 1..MaxTiles /\ MaxTiles \in 1..24
    BY SliceStreamAssumption DEF Init
  <2>2. tile \in Tiles
    BY <2>1 DEF Init, Tiles
  <2>3. todo \in Seq(Fields)
    BY DEF Init
  <2> QED BY <2>2, <2>3 DEF Init, ScalarsOK, Parameters
<1>2. HandlersOK
  <2>1. DOMAIN handlers = Tiles \cup {SliceHeader}
    BY DEF Init
  <2>2. ASSUME NEW i \in DOMAIN handlers
        PROVE  /\ handlers[i] \in Handlers
               /\ handlers[i].allocBytes = IF i \in Tiles THEN TotalBytesPerTile ELSE HeaderBytes
    <3> DEFINE n == IF i \in Tiles THEN TotalBytesPerTile ELSE HeaderBytes
               z == Zeros(WORD)
               w == WORD
               yes == TRUE
               g == [uiCurrWord |-> z, iBitLocPtr |-> w, buffer |-> <<>>,
                     allocBytes |-> n, room |-> yes, sure |-> yes]
    <3>1. handlers[i] = NewHandler(n)
      BY <2>1 DEF Init
    <3>2. NewHandler(n) = g
      BY DEF NewHandler
    <3>3. n \in Nat /\ z \in Words /\ w \in 1..WORD /\ yes \in BOOLEAN
      BY <1>1, ZerosWord, TileBytes DEF HeaderBytes, WORD
    <3> HIDE DEF n, z, w, yes
    <3>4. g \in Handlers
      BY <3>3 DEF Handlers
    <3>5. g.allocBytes = n
      OBVIOUS
    <3> HIDE DEF g
    <3> QED BY <3>1, <3>2, <3>4, <3>5 DEF n
  <2> QED BY <2>1, <2>2 DEF HandlersOK, HandlerTable
<1>3. CodesOK
  <2>1. DOMAIN tileFields = Tiles /\ \A i \in Tiles : tileFields[i] = <<>>
    BY DEF Init
  <2>2. << >> \in Seq(Fields)
    OBVIOUS
  <2> QED BY <2>1, <2>2 DEF CodesOK
<1> QED BY <1>1, <1>2, <1>3 DEF StreamInv, TilesOK, RoomOK, Init

(* A start code is put in the first handler. *)
LEMMA InvAtStartParameterSet == StreamInv /\ StartParameterSet => StreamInv'
<1> SUFFICES ASSUME StreamInv, StartParameterSet PROVE StreamInv'
  OBVIOUS
<1> USE DEF StreamInv
<1> DEFINE h == handlers[0]
           g == PutStartCodeWordLevel(InitBitStreamWordLevel(h))
<1>1. 0 \in Tiles /\ m_uiTotalTiles \in 1..24
  BY Shape
<1>2. 0 \in DOMAIN handlers /\ h \in Handlers
  BY <1>1 DEF HandlersOK, HandlerTable
<1>3. g \in Handlers /\ g.allocBytes = h.allocBytes
  BY <1>2, StartCodePuts
<1>4. handlers' = [handlers EXCEPT ![0] = g]
  BY DEF StartParameterSet
<1>5. m_uiTotalTiles' = m_uiTotalTiles /\ step' = step /\ step \in Parameters
  BY DEF StartParameterSet, ParameterSet, Parameters
<1>6. HandlersOK'
  <2> HIDE DEF g
  <2>1. HandlerTable(handlers')
    BY <1>2, <1>3, <1>4, UpdateTable DEF HandlersOK
  <2> QED BY <1>5, <2>1, SameTable
<1>7. ParameterSet[step] \in Seq(Fields)
  <2>1. VPSFields \in Seq(Fields) /\ SPSFields(Width, Height) \in Seq(Fields)
    BY VPSList, SPSList DEF SetList
  <2>2. PPSFields(m_uiTotalTiles, 1) \in Seq(Fields)
    BY <1>1, PPSList DEF SetList
  <2> QED BY <1>5, <2>1, <2>2 DEF ParameterSet, Parameters
<1>8. ScalarsOK'
  BY <1>5, <1>7 DEF ScalarsOK, StartParameterSet, Tiles
<1>9. step' \notin {"tile", "entry", "write"}
  BY <1>5 DEF Parameters
<1>10. CodesOK'
  BY DEF CodesOK, Tiles, ghosts, StartParameterSet
<1> QED BY <1>6, <1>8, <1>9, <1>10 DEF TilesOK, RoomOK

(* A field of a parameter set is put in the first handler. *)
LEMMA InvAtPutParameter == StreamInv /\ PutParameter => StreamInv'
<1> SUFFICES ASSUME StreamInv, PutParameter PROVE StreamInv'
  OBVIOUS
<1> USE DEF StreamInv
<1> DEFINE h == handlers[0]
           f == Head(todo)
           g == PutField(h, f)
<1>1. 0 \in Tiles
  BY Shape
<1>2. 0 \in DOMAIN handlers /\ h \in Handlers
  BY <1>1 DEF HandlersOK, HandlerTable
<1>3. f \in Fields /\ Tail(todo) \in Seq(Fields) /\ step \in Parameters
  BY DEF ScalarsOK, PutParameter
<1>4. g \in Handlers /\ g.allocBytes = h.allocBytes
  <2> HIDE DEF h, f
  <2> DEFINE n == 32
  <2>1. PutsUpTo(h, g, n) /\ n \in Nat
    BY <1>2, <1>3, AnyFieldPuts
  <2> HIDE DEF n, g
  <2> QED BY <1>2, <2>1, PutsUpToFacts
<1>5. handlers' = [handlers EXCEPT ![0] = g]
  BY DEF PutParameter
<1>6. m_uiTotalTiles' = m_uiTotalTiles /\ step' = step
  BY DEF PutParameter
<1>7. HandlersOK'
  <2> HIDE DEF g
  <2>1. HandlerTable(handlers')
    BY <1>2, <1>4, <1>5, UpdateTable DEF HandlersOK
  <2> QED BY <1>6, <2>1, SameTable
<1>8. ScalarsOK'
  BY <1>3, <1>6 DEF ScalarsOK, PutParameter, Tiles
<1>9. step' \notin {"tile", "entry", "write"}
  BY <1>3, <1>6 DEF Parameters
<1>10. CodesOK'
  BY DEF CodesOK, Tiles, ghosts, PutParameter
<1> QED BY <1>7, <1>8, <1>9, <1>10 DEF TilesOK, RoomOK

(* The rest of a parameter set leaves the first handler. *)
LEMMA InvAtFinishParameterSet == StreamInv /\ FinishParameterSet => StreamInv'
<1> SUFFICES ASSUME StreamInv, FinishParameterSet PROVE StreamInv'
  OBVIOUS
<1> USE DEF StreamInv
<1> DEFINE h == handlers[0]
           g == FlushRemBytes(h)
<1>1. 0 \in Tiles
  BY Shape
<1>2. 0 \in DOMAIN handlers /\ h \in Handlers
  BY <1>1 DEF HandlersOK, HandlerTable
<1>3. g \in Handlers /\ g.allocBytes = h.allocBytes
  BY <1>2, RemFlushed DEF Flushed
<1>4. handlers' = [handlers EXCEPT ![0] = g]
  BY DEF FinishParameterSet
<1>5. /\ m_uiTotalTiles' = m_uiTotalTiles
      /\ step' \in {"SPS", "PPS", "slice"}
  BY DEF FinishParameterSet, AfterParameterSet, ParameterSet
<1>6. HandlersOK'
  <2> HIDE DEF g
  <2>1. HandlerTable(handlers')
    BY <1>2, <1>3, <1>4, UpdateTable DEF HandlersOK
  <2> QED BY <1>5, <2>1, SameTable
<1>7. ScalarsOK'
  BY <1>5 DEF ScalarsOK, FinishParameterSet, Tiles, Parameters
<1>8. step' \notin {"tile", "entry", "write"}
  BY <1>5
<1>10. CodesOK'
  BY DEF CodesOK, Tiles, ghosts, FinishParameterSet
<1> QED BY <1>6, <1>7, <1>8, <1>10 DEF TilesOK, RoomOK
(* What StartSlice does to every handler. *)
LEMMA EmptyTable ==
  ASSUME NEW hs, HandlerTable(hs), NEW t, t = [i \in DOMAIN hs |-> InitBitStreamWordLevel(hs[i])]
  PROVE  /\ HandlerTable(t)
         /\ \A i \in DOMAIN t : /\ Weight(t[i]) = 0 /\ t[i].iBitLocPtr = 32
                                /\ t[i].sure = hs[i].sure /\ t[i].room = hs[i].room
<1>1. DOMAIN t = DOMAIN hs
  OBVIOUS
<1>2. ASSUME NEW i \in DOMAIN hs
      PROVE  /\ t[i] \in Handlers /\ t[i].allocBytes = hs[i].allocBytes
             /\ Weight(t[i]) = 0 /\ t[i].iBitLocPtr = 32
             /\ t[i].sure = hs[i].sure /\ t[i].room = hs[i].room
  <2>1. hs[i] \in Handlers
    BY DEF HandlerTable
  <2> QED BY <2>1, EmptyHandler
<1> QED BY <1>1, <1>2 DEF HandlerTable

(* The slice header: all tiles are empty but the one that the header is    *)
(* in, when it is the only one.                                            *)
LEMMA InvAtStartSlice ==
  ASSUME StreamInv, AllSure, StartSlice PROVE StreamInv'
<1> USE DEF StreamInv
<1> DEFINE e == EmptyHandlers
           h == e[SliceHeader]
           g == WriteSliceHdrInBitstream(h, SliceHdrFields(uiCurrSliceNum, m_uiQP, m_uiTotalTiles))
<1>1. 0 \in Tiles /\ m_uiTotalTiles \in 1..24 /\ m_uiQP \in 1..51 /\ Tiles \subseteq Nat
  BY Shape
<1>2. /\ HandlerTable(e) /\ DOMAIN e = DOMAIN handlers
      /\ \A i \in DOMAIN e : Weight(e[i]) = 0 /\ e[i].iBitLocPtr = 32 /\ e[i].room
  <2>1. \A i \in DOMAIN handlers : handlers[i].room
    BY DEF AllSure
  <2> QED BY <2>1, EmptyTable DEF EmptyHandlers, HandlersOK
<1>3. handlers' = [e EXCEPT ![SliceHeader] = g]
  BY DEF StartSlice
<1>4. /\ m_uiTotalTiles' = m_uiTotalTiles /\ step' = "tile" /\ tile' = 0
      /\ todo' = todo /\ uiCurrSliceNum' = uiCurrSliceNum /\ m_uiQP' = m_uiQP
      /\ DOMAIN tileFields' = Tiles /\ \A i \in Tiles : tileFields'[i] = <<>>
  BY DEF StartSlice
<1> HIDE DEF e
<1>5. DOMAIN e = Tiles \cup {SliceHeader} /\ h \in Handlers /\ Weight(h) = 0 /\ h.room
  BY <1>2 DEF HandlerTable
<1> DEFINE n == 78
<1>6. /\ PutsUpTo(h, g, n) /\ n \in Nat
      /\ m_uiTotalTiles = 1 => g.iBitLocPtr % 8 = 0
  <2>1. uiCurrSliceNum \in Nat
    BY DEF ScalarsOK
  <2> QED BY <1>1, <1>5, <2>1, SliceHeaderPut
<1> HIDE DEF n, g, h
<1>7. /\ g \in Handlers /\ g.allocBytes = h.allocBytes /\ Weight(g) <= 234
      /\ 234 < 16 * h.allocBytes => g.room
  <2>1. /\ g \in Handlers /\ g.allocBytes = h.allocBytes /\ Weight(g) <= Weight(h) + 3 * n
        /\ h.room /\ Weight(h) + 3 * n < 16 * h.allocBytes => g.room
    BY <1>5, <1>6, PutsUpToFacts
  <2>2. Weight(h) + 3 * n = 234
    BY <1>5 DEF n
  <2> QED BY <1>5, <2>1, <2>2
<1>8. HandlersOK'
  <2>1. HandlerTable(handlers')
    BY <1>2, <1>3, <1>5, <1>7, UpdateTable DEF h
  <2> QED BY <1>4, <2>1, SameTable
<1>9. ScalarsOK'
  <2>1. todo = <<>>
    BY DEF ScalarsOK, StartSlice, Parameters
  <2> QED BY <1>1, <1>4, <2>1 DEF ScalarsOK, Tiles
<1>10. CodesOK'
  <2>1. << >> \in Seq(Fields)
    OBVIOUS
  <2>2. Tiles' = Tiles
    BY <1>4, SameShape
  <2> QED BY <1>4, <2>1, <2>2 DEF CodesOK
<1>11. \A i \in Tiles : TileWeight(i)' = IF m_uiTotalTiles = 1 THEN 240 ELSE 0
  <2> TAKE i \in Tiles
  <2>1. Len(tileFields'[i]) = 0 /\ HeaderShare' = IF m_uiTotalTiles = 1 THEN 10 ELSE 0
    BY <1>4 DEF HeaderShare
  <2> QED BY <2>1 DEF TileWeight
<1>12. ASSUME NEW i \in Tiles PROVE ~(i < 0) /\ Open(i)' /\ HasRoom(i)'
  <2>1. ~(i < 0)
    BY <1>1
  <2>2. CASE i = SliceHeader
    <3>1. m_uiTotalTiles = 1 /\ TileWeight(i)' = 240
      BY <1>11, <2>2, Shape
    <3>2. handlers'[i] = g
      BY <1>3, <1>5, <2>2
    <3>3. Weight(g) \in Nat /\ h.allocBytes \in Nat
      BY <1>5, <1>7, HandlerFields
    <3>4. Open(i)'
      <4>1. Weight(g) <= 240 /\ g.iBitLocPtr % 8 = 0
        BY <1>6, <1>7, <3>1, <3>3
      <4> QED BY <3>1, <3>2, <4>1 DEF Open
    <3>5. 240 < 16 * g.allocBytes => g.room
      BY <1>7, <3>3
    <3> QED BY <2>1, <3>1, <3>2, <3>4, <3>5 DEF HasRoom
  <2>3. CASE i # SliceHeader
    <3>1. handlers'[i] = e[i]
      BY <1>3, <1>5, <2>3
    <3>2. Weight(e[i]) = 0 /\ e[i].iBitLocPtr = 32 /\ e[i].room
      BY <1>2, <1>5
    <3>3. 0 <= TileWeight(i)'
      BY <1>11
    <3>4. Open(i)'
      <4>1. e[i].iBitLocPtr % 8 = 0
        BY <3>2
      <4> QED BY <3>1, <3>2, <3>3, <4>1 DEF Open
    <3> QED BY <2>1, <3>1, <3>2, <3>4 DEF HasRoom
  <2> QED BY <2>2, <2>3
<1>13. TilesOK' /\ RoomOK'
  <2>1. Tiles' = Tiles
    BY <1>4, SameShape
  <2> QED BY <1>4, <1>12, <2>1 DEF TilesOK, RoomOK
<1> QED BY <1>8, <1>9, <1>10, <1>13

(* The weight of a tile grows with the codes put in it. *)
LEMMA WeightAtStep ==
  ASSUME StreamInv, m_uiTotalTiles' = m_uiTotalTiles, NEW k \in Nat,
         \A i \in Tiles : /\ Len(tileFields[i]) \in Nat
                          /\ Len(tileFields'[i]) = IF i = tile THEN Len(tileFields[i]) + k
                                                   ELSE Len(tileFields[i])
  PROVE  \A i \in Tiles : /\ TileWeight(i) \in Nat
                          /\ TileWeight(i)' = IF i = tile THEN TileWeight(i) + 24 * k
                                              ELSE TileWeight(i)
<1> TAKE i \in Tiles
<1> DEFINE c == Len(tileFields[i])
           d == Len(tileFields'[i])
           s == HeaderShare
<1>1. c \in Nat /\ d = IF i = tile THEN c + k ELSE c
  OBVIOUS
<1>2. s \in Nat /\ HeaderShare' = s
  BY SameShape DEF HeaderShare
<1>3. TileWeight(i) = 24 * (c + s) /\ TileWeight(i)' = 24 * (d + s)
  BY <1>2 DEF TileWeight
<1> HIDE DEF c, d, s
<1> QED BY <1>1, <1>2, <1>3

(* The tiles that a step on one tile leaves alone. *)
LEMMA OtherTiles ==
  ASSUME StreamInv, step = "tile", NEW g, handlers' = [handlers EXCEPT ![tile] = g],
         NEW i \in Tiles, i # tile, TileWeight(i)' = TileWeight(i)
  PROVE  (IF i < tile THEN Ended(i)' ELSE Open(i)') /\ HasRoom(i)'
<1>1. handlers'[i] = handlers[i]
  BY DEF StreamInv, HandlersOK, HandlerTable
<1>2. (IF i < tile THEN Ended(i) ELSE Open(i)) /\ HasRoom(i)
  BY DEF StreamInv, TilesOK, RoomOK
<1> QED BY <1>1, <1>2 DEF Ended, Open, HasRoom

(* The codes of the tiles when one more byte is put. *)
LEMMA CodesAtByte ==
  ASSUME StreamInv, NEW b \in ByteValues, PutByte(b)
  PROVE  /\ \A i \in Tiles : /\ Len(tileFields[i]) \in Nat
                             /\ Len(tileFields'[i]) = IF i = tile THEN Len(tileFields[i]) + 1
                                                      ELSE Len(tileFields[i])
         /\ \A i \in Tiles : tileFields'[i] \in Seq(Fields)
         /\ DOMAIN tileFields' = Tiles
<1>1. tileFields' = [tileFields EXCEPT ![tile] = Append(@, U(b, BYTE))]
  BY DEF PutByte
<1>2. DOMAIN tileFields = Tiles /\ \A i \in Tiles : tileFields[i] \in Seq(Fields)
  BY DEF StreamInv, CodesOK
<1>3. U(b, BYTE) \in Fields
  <2>1. b \in 0..255
    BY SliceStreamAssumption
  <2>2. b \in Nat /\ BYTE \in 1..32
    BY <2>1 DEF BYTE
  <2> QED BY <2>2, UIn
<1> DEFINE f == U(b, BYTE)
<1> HIDE DEF f
<1>4. \A i \in Tiles : tileFields'[i] = IF i = tile THEN Append(tileFields[i], f) ELSE tileFields[i]
  BY <1>1, <1>2 DEF f
<1>5. DOMAIN tileFields' = Tiles
  BY <1>1, <1>2
<1> QED BY <1>2, <1>3, <1>4, <1>5 DEF f

(* A byte of a tile is eight bits more in its handler. *)
LEMMA InvAtPutByte ==
  ASSUME StreamInv, NEW b \in ByteValues, PutByte(b) PROVE StreamInv'
<1> USE DEF StreamInv
<1> DEFINE h == handlers[tile]
           g == PutField(h, U(b, BYTE))
<1>1. tile \in Tiles /\ Tiles \subseteq Nat
  BY Shape DEF ScalarsOK
<1>2. tile \in DOMAIN handlers /\ h \in Handlers
  BY <1>1 DEF HandlersOK, HandlerTable
<1>3. Puts(h, g, 8)
  <2>1. b \in Nat
    <3>1. b \in 0..255
      BY SliceStreamAssumption
    <3> QED BY <3>1
  <2> QED BY <1>2, <2>1, BytePuts
<1>4. handlers' = [handlers EXCEPT ![tile] = g]
  BY DEF PutByte
<1>5. /\ m_uiTotalTiles' = m_uiTotalTiles /\ step = "tile" /\ step' = "tile" /\ tile' = tile
      /\ todo' = todo /\ uiCurrSliceNum' = uiCurrSliceNum /\ m_uiQP' = m_uiQP
  BY DEF PutByte
<1>6. Open(tile) /\ HasRoom(tile)
  BY <1>1, <1>5 DEF TilesOK, RoomOK
<1> HIDE DEF h, g
<1>7. g \in Handlers /\ g.allocBytes = h.allocBytes
  BY <1>3 DEF Puts
<1>8. Tiles' = Tiles
  BY <1>5, SameShape
<1>9. /\ \A i \in Tiles : /\ TileWeight(i) \in Nat
                          /\ TileWeight(i)' = IF i = tile THEN TileWeight(i) + 24
                                              ELSE TileWeight(i)
      /\ CodesOK'
  <2> DEFINE k == 1
  <2>1. /\ \A i \in Tiles : /\ Len(tileFields[i]) \in Nat
                            /\ Len(tileFields'[i]) = IF i = tile THEN Len(tileFields[i]) + k
                                                     ELSE Len(tileFields[i])
        /\ \A i \in Tiles : tileFields'[i] \in Seq(Fields)
        /\ DOMAIN tileFields' = Tiles
    BY CodesAtByte, Zenon
  <2>2. k \in Nat /\ 24 * k = 24
    OBVIOUS
  <2> HIDE DEF k
  <2>3. \A i \in Tiles : /\ TileWeight(i) \in Nat
                         /\ TileWeight(i)' = IF i = tile THEN TileWeight(i) + 24 * k
                                             ELSE TileWeight(i)
    BY <1>5, <2>1, <2>2, WeightAtStep
  <2> QED BY <1>8, <2>1, <2>2, <2>3 DEF CodesOK
<1>10. HandlersOK'
  <2>1. HandlerTable(handlers')
    BY <1>2, <1>4, <1>7, UpdateTable DEF HandlersOK, h
  <2> QED BY <1>5, <2>1, SameTable
<1>11. ScalarsOK'
  BY <1>5, <1>8 DEF ScalarsOK
<1>12. ASSUME NEW i \in Tiles, i = tile PROVE Open(i)' /\ HasRoom(i)'
  <2> DEFINE w == Weight(h)
             v == Weight(g)
             p == h.iBitLocPtr
             q == g.iBitLocPtr
             a == TileWeight(i)
             l == h.allocBytes
  <2>1. /\ w \in Nat /\ v \in Nat /\ p \in 1..32 /\ q \in 1..32 /\ l \in Nat
        /\ a \in Nat /\ TileWeight(i)' = a + 24
    BY <1>2, <1>7, <1>9, <1>12, HandlerFields
  <2>2. /\ v <= w + 24 /\ (q + 8 - p) % 8 = 0
        /\ h.room /\ w + 24 < 16 * l => g.room
    BY <1>3 DEF Puts, BYTE
  <2>3. /\ w <= a /\ p % 8 = 0
        /\ a < 16 * l => h.room
    BY <1>6, <1>12 DEF Open, HasRoom, h
  <2>4. handlers'[i] = g
    BY <1>2, <1>4, <1>12
  <2> HIDE DEF w, v, p, q, a, l
  <2>5. v <= a + 24
    BY <2>1, <2>2, <2>3
  <2>6. q % 8 = 0
    BY <2>1, <2>2, <2>3
  <2>7. a + 24 < 16 * l => g.room
    BY <2>1, <2>2, <2>3
  <2> QED BY <1>7, <2>1, <2>4, <2>5, <2>6, <2>7 DEF Open, HasRoom, v, q, l
<1>13. ASSUME NEW i \in Tiles PROVE (IF i < tile THEN Ended(i)' ELSE Open(i)') /\ HasRoom(i)'
  <2>1. CASE i = tile
    <3>1. ~(i < tile)
      BY <1>1, <2>1
    <3> QED BY <1>5, <1>12, <2>1, <3>1
  <2>2. CASE i # tile
    BY <1>4, <1>5, <1>9, <2>2, OtherTiles
  <2> QED BY <2>1, <2>2
<1>14. TilesOK' /\ RoomOK'
  BY <1>5, <1>8, <1>13 DEF TilesOK, RoomOK
<1> QED BY <1>9, <1>10, <1>11, <1>14

(* The code that ends a tile. *)
LEMMA LastCodeIn ==
  ASSUME NEW code, code \in LastCodes PROVE code[1] \in 5..12 /\ code[2] \in Nat
<1>1. code[1] \in 5..12 /\ code[2] \in 0..(2^code[1] - 1)
  BY SliceStreamAssumption
<1> DEFINE v == code[2]
           m == 2^code[1] - 1
<1>2. v \in 0..m
  BY <1>1
<1> HIDE DEF v, m
<1>3. v \in Nat
  BY <1>2
<1> QED BY <1>1, <1>3 DEF v

(* A tile that is ended: terminated, and of the bits put at most, which    *)
(* are two bytes since it was whole bytes before.                          *)
LEMMA TileFlushed ==
  ASSUME NEW h \in Handlers, h.iBitLocPtr % 8 = 0, NEW code, code \in LastCodes
  PROVE  LET g == FlushRemBytes(LastBits(h, code))
         IN  /\ g \in Handlers /\ g.allocBytes = h.allocBytes /\ g.sure = h.sure
             /\ Terminated(g.buffer)
             /\ 16 * Len(g.buffer) <= Weight(h) + 48
             /\ h.room /\ Weight(h) + 48 < 16 * h.allocBytes => g.room
<1> DEFINE k == LastBits(h, code)
           g == FlushRemBytes(k)
           p == h.iBitLocPtr
           q == k.iBitLocPtr
           w == Weight(h)
           v == Weight(k)
           l == h.allocBytes
           n == Len(g.buffer)
<1>1. Stopped(k) /\ PutsUpTo(h, k, 20)
  BY LastCodeIn, TileEnds
<1> HIDE DEF k
<1>2. PICK m \in 0..20 : Puts(h, k, m)
  BY <1>1 DEF PutsUpTo
<1>3. k \in Handlers /\ k.allocBytes = l /\ k.sure = h.sure
  BY <1>2 DEF Puts
<1>4. Flushed(k, g)
  BY <1>3, RemFlushed
<1> HIDE DEF g
<1>5. /\ g \in Handlers /\ g.allocBytes = l /\ Terminated(g.buffer) /\ 16 * n <= v
      /\ g.room = k.room /\ g.sure = (k.sure /\ q % BYTE = 0)
  BY <1>1, <1>3, <1>4 DEF Flushed
<1>6. /\ p \in 1..32 /\ q \in 1..32 /\ w \in Nat /\ v \in Nat /\ l \in Nat /\ n \in Nat
      /\ h.sure \in BOOLEAN
  BY <1>3, <1>5, HandlerFields
<1>7. /\ q % 8 = 0 /\ p % 8 = 0 /\ (q + m - p) % 8 = 0 /\ v <= w + 3 * m
      /\ h.room /\ w + 3 * m < 16 * l => k.room
  BY <1>1, <1>2 DEF Stopped, Puts, BYTE
<1>8. g.sure = h.sure
  BY <1>3, <1>5, <1>6, <1>7 DEF BYTE
<1>9. h.room /\ w + 3 * m < 16 * l => g.room
  BY <1>5, <1>7
<1>10. 16 * n <= v
  BY <1>5
<1> HIDE DEF p, q, w, v, l, n
<1>11. 3 * m <= 48
  <2>1. m % 8 = 0
    BY <1>6, <1>7
  <2> QED BY <2>1
<1>12. 16 * n <= w + 48
  BY <1>6, <1>7, <1>10, <1>11
<1>13. w + 48 < 16 * l => w + 3 * m < 16 * l
  BY <1>6, <1>11
<1> QED BY <1>5, <1>8, <1>9, <1>12, <1>13 DEF g, k, w, l, n

(* The codes of the tiles when one is ended. *)
LEMMA CodesAtEnd ==
  ASSUME StreamInv, NEW code, code \in LastCodes, FinishTile(code)
  PROVE  /\ \A i \in Tiles : /\ Len(tileFields[i]) \in Nat
                             /\ Len(tileFields'[i]) = IF i = tile THEN Len(tileFields[i]) + 2
                                                      ELSE Len(tileFields[i])
         /\ \A i \in Tiles : tileFields'[i] \in Seq(Fields)
         /\ DOMAIN tileFields' = Tiles
<1>0. tileFields' = [tileFields EXCEPT ![tile] = @ \o <<U(code[2], code[1]), Trailing>>]
  BY DEF FinishTile
<1> DEFINE l == <<U(code[2], code[1]), Trailing>>
<1>1. DOMAIN tileFields = Tiles /\ \A i \in Tiles : tileFields[i] \in Seq(Fields)
  BY DEF StreamInv, CodesOK
<1>2. l \in Seq(Fields) /\ Len(l) = 2
  <2>1. code[1] \in 1..32 /\ code[2] \in Nat
    BY LastCodeIn
  <2>2. U(code[2], code[1]) \in Fields /\ Trailing \in Fields
    BY <2>1, UIn, TrailingIn
  <2> QED BY <2>2
<1> HIDE DEF l
<1>3. \A i \in Tiles : tileFields'[i] = IF i = tile THEN tileFields[i] \o l ELSE tileFields[i]
  BY <1>0, <1>1 DEF l
<1>4. DOMAIN tileFields' = Tiles
  BY <1>0, <1>1
<1>5. ASSUME NEW i \in Tiles
      PROVE  /\ Len(tileFields[i]) \in Nat
             /\ Len(tileFields'[i]) = IF i = tile THEN Len(tileFields[i]) + 2
                                      ELSE Len(tileFields[i])
             /\ tileFields'[i] \in Seq(Fields)
  <2> DEFINE s == tileFields[i]
             t == tileFields'[i]
  <2>1. s \in Seq(Fields) /\ t = IF i = tile THEN s \o l ELSE s
    BY <1>1, <1>3
  <2> HIDE DEF s, t
  <2>2. CASE i = tile
    <3>1. t = s \o l
      BY <2>1, <2>2
    <3>2. t \in Seq(Fields) /\ Len(s) \in Nat /\ Len(t) = Len(s) + Len(l)
      <4>1. s \in Seq(Fields) /\ l \in Seq(Fields)
        BY <1>2, <2>1
      <4>2. s \o l \in Seq(Fields) /\ JoinOf(s \o l, s, l)
        BY <4>1, Joined
      <4>3. Len(s \o l) = Len(s) + Len(l)
        BY <4>2 DEF JoinOf
      <4>4. Len(s) \in Nat
        BY <4>1
      <4> QED BY <3>1, <4>2, <4>3, <4>4
    <3> QED BY <1>2, <2>2, <3>2 DEF s, t
  <2>3. CASE i # tile
    <3>1. t = s
      BY <2>1, <2>3
    <3>2. Len(s) \in Nat
      BY <2>1
    <3> QED BY <2>1, <2>3, <3>1, <3>2 DEF s, t
  <2> QED BY <2>2, <2>3
<1> QED BY <1>4, <1>5

(* The tile is terminated, and the next one is coded. *)
LEMMA InvAtFinishTile ==
  ASSUME StreamInv, NEW code, code \in LastCodes, FinishTile(code) PROVE StreamInv'
<1> USE DEF StreamInv
<1> DEFINE h == handlers[tile]
           g == FlushRemBytes(LastBits(h, code))
<1>1. tile \in Tiles /\ Tiles \subseteq Nat /\ m_uiTotalTiles \in 1..24
  BY Shape DEF ScalarsOK
<1>2. tile \in DOMAIN handlers /\ h \in Handlers
  BY <1>1 DEF HandlersOK, HandlerTable
<1>3. handlers' = [handlers EXCEPT ![tile] = g]
  BY DEF FinishTile, LastBits
<1>4. /\ m_uiTotalTiles' = m_uiTotalTiles /\ step = "tile"
      /\ todo' = todo /\ uiCurrSliceNum' = uiCurrSliceNum /\ m_uiQP' = m_uiQP
      /\ IF tile = LastTile THEN step' = "entry" /\ tile' = tile
                            ELSE step' = "tile" /\ tile' = tile + 1
  BY DEF FinishTile
<1>5. tile' \in Tiles
  <2>1. CASE tile = LastTile
    BY <1>1, <1>4, <2>1
  <2>2. CASE tile # LastTile
    <3>1. tile \in 0..(m_uiTotalTiles - 1) /\ tile # m_uiTotalTiles - 1
      BY <1>1, <2>2 DEF Tiles, LastTile
    <3> QED BY <1>1, <1>4, <2>2, <3>1 DEF Tiles
  <2> QED BY <2>1, <2>2
<1>6. Open(tile) /\ HasRoom(tile)
  <2>1. ~(tile < tile)
    BY <1>1
  <2> QED BY <1>1, <1>4, <2>1 DEF TilesOK, RoomOK
<1>7. h.iBitLocPtr % 8 = 0 /\ Weight(h) <= TileWeight(tile)
  BY <1>6 DEF Open
<1>8. TileWeight(tile) < 16 * h.allocBytes => h.room
  BY <1>6 DEF HasRoom
<1> HIDE DEF h, g
<1>9. /\ g \in Handlers /\ g.allocBytes = h.allocBytes
      /\ Terminated(g.buffer) /\ 16 * Len(g.buffer) <= Weight(h) + 48
      /\ h.room /\ Weight(h) + 48 < 16 * h.allocBytes => g.room
  BY <1>2, <1>7, TileFlushed DEF g
<1>10. Tiles' = Tiles
  BY <1>4, SameShape
<1>11. /\ \A i \in Tiles : /\ TileWeight(i) \in Nat
                           /\ TileWeight(i)' = IF i = tile THEN TileWeight(i) + 48
                                               ELSE TileWeight(i)
       /\ CodesOK'
  <2> DEFINE k == 2
  <2>1. /\ \A i \in Tiles : /\ Len(tileFields[i]) \in Nat
                            /\ Len(tileFields'[i]) = IF i = tile THEN Len(tileFields[i]) + k
                                                     ELSE Len(tileFields[i])
        /\ \A i \in Tiles : tileFields'[i] \in Seq(Fields)
        /\ DOMAIN tileFields' = Tiles
    BY CodesAtEnd, Zenon
  <2>2. k \in Nat /\ 24 * k = 48
    OBVIOUS
  <2> HIDE DEF k
  <2>3. \A i \in Tiles : /\ TileWeight(i) \in Nat
                         /\ TileWeight(i)' = IF i = tile THEN TileWeight(i) + 24 * k
                                             ELSE TileWeight(i)
    BY <1>4, <2>1, <2>2, WeightAtStep
  <2> QED BY <1>10, <2>1, <2>2, <2>3 DEF CodesOK
<1>12. HandlersOK'
  <2>1. HandlerTable(handlers')
    BY <1>2, <1>3, <1>9, UpdateTable DEF HandlersOK, h
  <2> QED BY <1>4, <2>1, SameTable
<1>13. ScalarsOK'
  <2>1. step' \in {"tile", "entry"} /\ todo' = <<>>
    BY <1>4 DEF ScalarsOK, Parameters
  <2>2. step' \in Parameters \cup {"slice", "tile", "entry", "write"}
    BY <2>1
  <2> QED BY <1>4, <1>5, <1>10, <2>1, <2>2 DEF ScalarsOK
<1>14. ASSUME NEW i \in Tiles, i = tile PROVE Ended(i)' /\ HasRoom(i)'
  <2> DEFINE w == Weight(h)
             n == Len(g.buffer)
             a == TileWeight(i)
             l == h.allocBytes
  <2>1. /\ w \in Nat /\ n \in Nat /\ l \in Nat /\ a \in Nat /\ TileWeight(i)' = a + 48
    BY <1>2, <1>9, <1>11, <1>14, HandlerFields
  <2>2. /\ w <= a /\ 16 * n <= w + 48 /\ (a < 16 * l => h.room)
        /\ h.room /\ w + 48 < 16 * l => g.room
    BY <1>7, <1>8, <1>9, <1>14
  <2>3. handlers'[i] = g
    BY <1>2, <1>3, <1>14
  <2> HIDE DEF w, n, a, l
  <2>4. 16 * n <= a + 48
    BY <2>1, <2>2
  <2>5. a + 48 < 16 * l => g.room
    BY <2>1, <2>2
  <2> QED BY <1>9, <2>1, <2>3, <2>4, <2>5 DEF Ended, HasRoom, n, l
<1>15. ASSUME NEW i \in Tiles
       PROVE  /\ i <= tile => Ended(i)'
              /\ tile < i => Open(i)'
              /\ HasRoom(i)'
  <2>1. CASE i = tile
    <3>1. ~(tile < i)
      BY <1>1, <2>1
    <3> QED BY <1>14, <2>1, <3>1
  <2>2. CASE i # tile
    <3>1. (IF i < tile THEN Ended(i)' ELSE Open(i)') /\ HasRoom(i)'
      BY <1>3, <1>4, <1>11, <2>2, OtherTiles
    <3>2. (i <= tile => i < tile) /\ (tile < i => ~(i < tile))
      BY <1>1, <2>2
    <3> QED BY <3>1, <3>2
  <2> QED BY <2>1, <2>2
<1>16. TilesOK'
  <2>1. CASE tile = LastTile
    <3>1. \A i \in Tiles : i <= tile
      BY <1>1, <2>1 DEF Tiles, LastTile
    <3> QED BY <1>4, <1>10, <1>15, <2>1, <3>1 DEF TilesOK
  <2>2. CASE tile # LastTile
    <3>1. step' = "tile" /\ tile' = tile + 1
      BY <1>4, <2>2
    <3>2. \A i \in Tiles : (i < tile + 1 => i <= tile) /\ (~(i < tile + 1) => tile < i)
      BY <1>1
    <3>3. \A i \in Tiles : IF i < tile' THEN Ended(i)' ELSE Open(i)'
      BY <1>15, <3>1, <3>2
    <3> QED BY <1>10, <3>1, <3>3 DEF TilesOK
  <2> QED BY <2>1, <2>2
<1>17. RoomOK'
  BY <1>10, <1>15 DEF RoomOK
<1> QED BY <1>11, <1>12, <1>13, <1>16, <1>17

(* The entry points of the tiles, when a length is below Two(m). *)
TilesBelow(m) == \A i \in Tiles : Len(handlers[i].buffer) < Two(m)

(* The offsets are numbers that fit. *)
LEMMA OffsetsIn ==
  ASSUME StreamInv, m_uiTotalTiles > 1, NEW m, m \in 1..30, TilesBelow(m)
  PROVE  /\ EntryPointOffsets \in Seq(Nat) /\ EntryPointOffsets # <<>>
         /\ Len(EntryPointOffsets) = LastTile /\ LastTile \in 1..23
         /\ \A i \in 1..Len(EntryPointOffsets) : EntryPointOffsets[i] < Two(m)
<1> DEFINE l == LastTile
           s == [i \in 1..l |-> Len(handlers[i - 1].buffer)]
<1>1. m_uiTotalTiles \in 1..24
  BY Shape DEF StreamInv
<1>2. l \in 1..23
  BY <1>1 DEF LastTile
<1>3. EntryPointOffsets = s
  BY DEF EntryPointOffsets, GetTotalBytesWritten
<1>4. \A i \in 1..l : i - 1 \in Tiles
  BY <1>1 DEF LastTile, Tiles
<1>5. \A i \in 1..l : Len(handlers[i - 1].buffer) \in Nat /\ Len(handlers[i - 1].buffer) < Two(m)
  <2> TAKE i \in 1..l
  <2>1. i - 1 \in Tiles
    BY <1>4
  <2>2. handlers[i - 1] \in Handlers
    BY <2>1 DEF StreamInv, HandlersOK, HandlerTable
  <2> QED BY <2>1, <2>2, HandlerFields DEF TilesBelow
<1> HIDE DEF l
<1>6. s \in [1..l -> Nat] /\ \A i \in 1..l : s[i] < Two(m)
  BY <1>5
<1> HIDE DEF s
<1>7. s \in Seq(Nat) /\ Len(s) = l /\ s # <<>>
  BY <1>2, <1>6
<1> QED BY <1>2, <1>3, <1>6, <1>7 DEF l

(* WriteTilesEntryPointsInSliceHeader. *)
LEMMA EntryPointsFlushed ==
  ASSUME NEW offsets, offsets \in Seq(Nat), offsets # <<>>, Len(offsets) <= 23,
         NEW m, m \in 1..30, \A i \in 1..Len(offsets) : offsets[i] < Two(m),
         NEW h \in Handlers
  PROVE  LET g == WriteTilesEntryPointsInSliceHeader(h, offsets)
         IN  g \in Handlers /\ g.allocBytes = h.allocBytes /\ g.sure = h.sure
<1> DEFINE k == PutFields(h, EntryPointFields(offsets))
           g == FlushRemBytes(k)
           n == EntryBits(Len(offsets), m)
<1>1. Stopped(k) /\ PutsUpTo(h, k, n)
  BY EntryPointsPut
<1>2. n \in Nat
  <2> DEFINE l == Len(offsets)
  <2>1. l \in Nat /\ m \in Nat
    OBVIOUS
  <2> HIDE DEF l
  <2>2. m * l \in Nat
    BY <2>1
  <2>3. 26 + m * l \in Nat
    BY <2>2
  <2>4. EntryBits(l, m) \in Nat
    BY <2>3 DEF EntryBits
  <2> QED BY <2>4 DEF l
<1> HIDE DEF k, n
<1>3. k \in Handlers /\ k.allocBytes = h.allocBytes /\ k.sure = h.sure
  BY <1>1, <1>2, PutsUpToFacts
<1>4. Flushed(k, g)
  BY <1>3, RemFlushed
<1>5. g \in Handlers /\ g.allocBytes = k.allocBytes
  BY <1>4 DEF Flushed
<1>6. g.sure = k.sure
  <2>1. k.iBitLocPtr % BYTE = 0 /\ k.sure \in BOOLEAN
    BY <1>1, <1>3, HandlerFields DEF Stopped
  <2> QED BY <1>4, <2>1 DEF Flushed
<1>7. WriteTilesEntryPointsInSliceHeader(h, offsets) = g
  BY DEF WriteTilesEntryPointsInSliceHeader, k
<1> HIDE DEF g
<1> QED BY <1>3, <1>5, <1>6, <1>7

(* What CompressSlice asserts of the tiles keeps the offsets below 2^26,   *)
(* within the 30 bits that the search for their length tries.              *)
LEMMA TilesFitOffsets ==
  ASSUME StreamInv, FinishSlice PROVE TilesBelow(26)
<1> SUFFICES ASSUME NEW i \in Tiles PROVE Len(handlers[i].buffer) < Two(26)
  BY DEF TilesBelow
<1>1. Len(handlers[i].buffer) < handlers[i].allocBytes
  BY DEF FinishSlice, GetTotalBytesWritten
<1>2. handlers[i] \in Handlers /\ handlers[i].allocBytes = TotalBytesPerTile
  BY DEF StreamInv, HandlersOK, HandlerTable
<1> DEFINE l == Len(handlers[i].buffer)
           a == TotalBytesPerTile
<1>3. l \in Nat /\ a \in Nat /\ a < 67108864 /\ l < a
  BY <1>1, <1>2, HandlerFields, TileBytes DEF StreamInv
<1> HIDE DEF l, a
<1>4. l < 67108864
  BY <1>3
<1>5. Two(26) = 67108864
  BY Powers
<1> QED BY <1>4, <1>5 DEF l

(* The last tile is terminated already: FixZeroTermination does nothing.   *)
LEMMA NothingFixed ==
  ASSUME StreamInv, step = "entry", NEW hs, DOMAIN hs = DOMAIN handlers,
         hs[LastTile] = handlers[LastTile]
  PROVE  LET u == [hs EXCEPT ![LastTile] = FixZeroTermination(@)]
         IN  DOMAIN u = DOMAIN hs /\ \A i \in DOMAIN hs : u[i] = hs[i]
<1>1. LastTile \in Tiles
  BY Shape DEF StreamInv
<1>2. Before(hs[LastTile].buffer, 1) # 0
  BY <1>1 DEF StreamInv, TilesOK, Ended, Terminated
<1>3. FixZeroTermination(hs[LastTile]) = hs[LastTile]
  BY <1>2 DEF FixZeroTermination
<1> QED BY <1>3

(* What FinishSlice leaves: the tiles as they were, and with several tiles *)
(* a header that is a handler, with its assertions as they were.           *)
LEMMA AfterFinishSlice ==
  ASSUME StreamInv, FinishSlice
  PROVE  /\ HandlerTable(handlers') /\ DOMAIN handlers' = DOMAIN handlers
         /\ \A i \in DOMAIN handlers : handlers'[i].sure = handlers[i].sure
         /\ \A i \in Tiles : handlers'[i] = handlers[i]
<1> USE DEF StreamInv
<1> DEFINE h == handlers[SliceHeader]
           g == WriteTilesEntryPointsInSliceHeader(h, EntryPointOffsets)
           t == IF m_uiTotalTiles > 1 THEN [handlers EXCEPT ![SliceHeader] = g] ELSE handlers
<1>1. step = "entry" /\ handlers' = [t EXCEPT ![LastTile] = FixZeroTermination(@)]
  BY DEF FinishSlice
<1>2. LastTile \in Tiles /\ (m_uiTotalTiles > 1 => SliceHeader \notin Tiles)
  BY Shape
<1>3. SliceHeader \in DOMAIN handlers /\ h \in Handlers
  BY DEF HandlersOK, HandlerTable
<1>4. m_uiTotalTiles > 1 =>
        g \in Handlers /\ g.allocBytes = h.allocBytes /\ g.sure = h.sure
  <2> SUFFICES ASSUME m_uiTotalTiles > 1
               PROVE  g \in Handlers /\ g.allocBytes = h.allocBytes /\ g.sure = h.sure
    OBVIOUS
  <2> DEFINE m == 26
  <2>1. m \in 1..30 /\ TilesBelow(m)
    BY TilesFitOffsets
  <2> HIDE DEF m, h
  <2>2. /\ EntryPointOffsets \in Seq(Nat) /\ EntryPointOffsets # <<>>
        /\ Len(EntryPointOffsets) \in 1..23
        /\ \A i \in 1..Len(EntryPointOffsets) : EntryPointOffsets[i] < Two(m)
    BY <2>1, OffsetsIn
  <2>3. Len(EntryPointOffsets) <= 23
    <3> DEFINE l == Len(EntryPointOffsets)
    <3>1. l \in 1..23
      BY <2>2
    <3> HIDE DEF l
    <3>2. l <= 23
      BY <3>1
    <3> QED BY <3>2 DEF l
  <2> QED BY <1>3, <2>1, <2>2, <2>3, EntryPointsFlushed
<1> HIDE DEF g, h
<1>5. HandlerTable(t)
  <2>1. CASE m_uiTotalTiles > 1
    BY <1>3, <1>4, <2>1, UpdateTable DEF HandlersOK, h
  <2>2. CASE ~(m_uiTotalTiles > 1)
    BY <2>2 DEF HandlersOK
  <2> QED BY <2>1, <2>2
<1>6. DOMAIN t = DOMAIN handlers /\ \A i \in Tiles : t[i] = handlers[i]
  BY <1>2
<1>7. \A i \in DOMAIN handlers : t[i].sure = handlers[i].sure
  BY <1>3, <1>4 DEF h
<1> HIDE DEF t
<1>8. DOMAIN handlers' = DOMAIN t /\ \A i \in DOMAIN t : handlers'[i] = t[i]
  BY <1>1, <1>2, <1>6, NothingFixed
<1>9. HandlerTable(handlers')
  BY <1>5, <1>8 DEF HandlerTable
<1>10. Tiles \subseteq DOMAIN handlers
  BY DEF HandlersOK, HandlerTable
<1> QED BY <1>6, <1>7, <1>8, <1>9, <1>10

(* The tiles are as they were. *)
LEMMA InvAtFinishSlice ==
  ASSUME StreamInv, FinishSlice PROVE StreamInv'
<1> USE DEF StreamInv
<1>1. /\ m_uiTotalTiles' = m_uiTotalTiles /\ step = "entry" /\ step' = "write"
      /\ tile' = tile /\ tileFields' = tileFields
      /\ todo' = todo /\ uiCurrSliceNum' = uiCurrSliceNum /\ m_uiQP' = m_uiQP
  BY DEF FinishSlice
<1>2. Tiles' = Tiles /\ HeaderShare' = HeaderShare
  BY <1>1, SameShape
<1>3. HandlersOK'
  BY <1>1, AfterFinishSlice, SameTable
<1>4. ScalarsOK'
  <2>1. todo = <<>>
    BY <1>1 DEF ScalarsOK, Parameters
  <2> QED BY <1>1, <1>2, <2>1 DEF ScalarsOK
<1>5. CodesOK'
  BY <1>1, <1>2 DEF CodesOK
<1>6. ASSUME NEW i \in Tiles PROVE Ended(i)' /\ HasRoom(i)'
  <2>1. Ended(i) /\ HasRoom(i)
    BY <1>1 DEF TilesOK, RoomOK
  <2>2. handlers'[i] = handlers[i]
    BY AfterFinishSlice
  <2> QED BY <1>1, <1>2, <2>1, <2>2 DEF Ended, HasRoom, TileWeight
<1>7. TilesOK' /\ RoomOK'
  BY <1>1, <1>2, <1>6 DEF TilesOK, RoomOK
<1> QED BY <1>3, <1>4, <1>5, <1>7

(* Writing the handlers changes none. *)
LEMMA InvAtWriteSlice == StreamInv /\ WriteSlice => StreamInv'
<1> SUFFICES ASSUME StreamInv, WriteSlice PROVE StreamInv'
  OBVIOUS
<1>1. /\ m_uiTotalTiles' = m_uiTotalTiles /\ step = "write" /\ step' = "slice"
      /\ tile' = tile /\ handlers' = handlers /\ tileFields' = tileFields
      /\ todo' = todo /\ uiCurrSliceNum' = uiCurrSliceNum + 1 /\ m_uiQP' = m_uiQP
  BY DEF WriteSlice
<1>2. Tiles' = Tiles
  BY <1>1, SameShape
<1>3. ScalarsOK'
  <2>1. todo = <<>>
    BY <1>1 DEF StreamInv, ScalarsOK, Parameters
  <2> QED BY <1>1, <1>2, <2>1 DEF StreamInv, ScalarsOK
<1>4. HandlersOK'
  BY <1>1, SameTable DEF StreamInv, HandlersOK
<1>5. CodesOK'
  BY <1>1, <1>2 DEF StreamInv, CodesOK
<1> QED BY <1>1, <1>3, <1>4, <1>5 DEF StreamInv, TilesOK, RoomOK

(* A step that changes nothing. *)
LEMMA InvAtStutter == StreamInv /\ UNCHANGED vars => StreamInv'
<1> SUFFICES ASSUME StreamInv, UNCHANGED vars PROVE StreamInv'
  OBVIOUS
<1>1. /\ m_uiTotalTiles' = m_uiTotalTiles /\ step' = step
      /\ tile' = tile /\ handlers' = handlers /\ tileFields' = tileFields
      /\ todo' = todo /\ uiCurrSliceNum' = uiCurrSliceNum /\ m_uiQP' = m_uiQP
  BY DEF vars, ghosts
<1>2. Tiles' = Tiles /\ HeaderShare' = HeaderShare
  BY <1>1, SameShape
<1>3. HandlersOK'
  BY <1>1, SameTable DEF StreamInv, HandlersOK
<1>4. ScalarsOK' /\ CodesOK'
  BY <1>1, <1>2 DEF StreamInv, ScalarsOK, CodesOK
<1>5. ASSUME NEW i PROVE Ended(i)' = Ended(i) /\ Open(i)' = Open(i) /\ HasRoom(i)' = HasRoom(i)
  BY <1>1, <1>2 DEF Ended, Open, HasRoom, TileWeight
<1>6. TilesOK' /\ RoomOK'
  BY <1>1, <1>2, <1>5 DEF StreamInv, TilesOK, RoomOK
<1> QED BY <1>3, <1>4, <1>6 DEF StreamInv

--------------------------------------------------------------------------------
(* The handlers are handlers of the right sizes, a tile is whole bytes     *)
(* while it is coded and ends in a byte that is not zero, what is in its   *)
(* handler is no more than what its codes account for, and it met no       *)
(* overflow if they account for less than the buffer (StreamInv is         *)
(* inductive).                                                             *)
THEOREM StreamInvariant == StreamSpec => []StreamInv
<1>1. StreamInv /\ [Next]_vars => StreamInv'
  BY InvAtStartParameterSet, InvAtPutParameter, InvAtFinishParameterSet, InvAtStartSlice,
     InvAtPutByte, InvAtFinishTile, InvAtFinishSlice, InvAtWriteSlice, InvAtStutter, Zenon
     DEF Next
<1> QED BY InvAtInit, <1>1, PTL DEF StreamSpec

(* Every step leaves handlers (StreamTypeOK): words, free bits 1 to 32,    *)
(* bytes.                                                                  *)
THEOREM StreamHandlersOK == StreamSpec => []StreamTypeOK
<1>1. StreamInv => StreamTypeOK
  <2> SUFFICES ASSUME StreamInv PROVE StreamTypeOK
    OBVIOUS
  <2>1. ASSUME NEW i \in DOMAIN handlers PROVE HandlerOK(handlers[i])
    <3> DEFINE h == handlers[i]
    <3>1. h \in Handlers
      BY DEF StreamInv, HandlersOK, HandlerTable
    <3> HIDE DEF h
    <3>2. HandlerOK(h)
      <4>1. /\ h.uiCurrWord \in Words /\ h.iBitLocPtr \in 1..WORD /\ h.allocBytes \in Nat
            /\ h.room \in BOOLEAN /\ h.sure \in BOOLEAN
        BY <3>1 DEF Handlers
      <4>2. \A j \in DOMAIN h.buffer : h.buffer[j] \in 0..255
        <5> DEFINE b == h.buffer
        <5>1. b \in Seq(Bytes)
          BY <3>1 DEF Handlers
        <5> HIDE DEF b
        <5>2. \A j \in DOMAIN b : b[j] \in Bytes
          BY <5>1
        <5> QED BY <5>2 DEF b, Bytes
      <4> QED BY <4>1, <4>2 DEF HandlerOK, Words
    <3> QED BY <3>2 DEF h
  <2> QED BY <2>1 DEF StreamInv, ScalarsOK, StreamTypeOK, Parameters
<1> QED BY StreamInvariant, <1>1, PTL

(* Before FixZeroTermination is called, no tile of any slice is empty or   *)
(* ends in a byte of zero (NoZeroTermination): it never appends anything.  *)
THEOREM NoZeroAtTheEnd == StreamSpec => []NoZeroTermination
<1>1. StreamInv => NoZeroTermination
  BY DEF StreamInv, TilesOK, Ended, NoZeroTermination, Terminated
<1> QED BY StreamInvariant, <1>1, PTL

(* What is in a tile's handler weighs no more than its codes account for,  *)
(* and the codes' number tells whether it met an overflow.                 *)
LEMMA TileIn ==
  ASSUME StreamInv, step \in {"tile", "entry", "write"}, NEW i \in Tiles
  PROVE  /\ handlers[i] \in Handlers
         /\ 16 * Len(handlers[i].buffer) <= TileWeight(i)
         /\ TileWeight(i) \in Nat
         /\ HasRoom(i)
<1>1. handlers[i] \in Handlers
  BY DEF StreamInv, HandlersOK, HandlerTable
<1>2. HasRoom(i) /\ (Ended(i) \/ Open(i))
  BY DEF StreamInv, TilesOK, RoomOK
<1>3. TileWeight(i) \in Nat
  <2>1. Len(tileFields[i]) \in Nat
    <3>1. tileFields[i] \in Seq(Fields)
      BY DEF StreamInv, CodesOK
    <3> QED BY <3>1
  <2> DEFINE c == Len(tileFields[i])
             s == HeaderShare
  <2>2. c \in Nat /\ s \in Nat /\ TileWeight(i) = 24 * (c + s)
    BY <2>1 DEF HeaderShare, TileWeight
  <2> HIDE DEF c, s
  <2> QED BY <2>2
<1>4. 16 * Len(handlers[i].buffer) <= TileWeight(i)
  <2>1. CASE Ended(i)
    BY <2>1 DEF Ended
  <2>2. CASE Open(i)
    <3> DEFINE n == Len(handlers[i].buffer)
               w == Weight(handlers[i])
               a == TileWeight(i)
    <3>1. n \in Nat /\ w \in Nat /\ a \in Nat /\ 16 * n <= w /\ w <= a
      BY <1>1, <1>3, <2>2, HandlerFields DEF Open
    <3> HIDE DEF n, w, a
    <3>2. 16 * n <= a
      BY <3>1
    <3> QED BY <3>2 DEF n, a
  <2> QED BY <1>2, <2>1, <2>2
<1> QED BY <1>1, <1>2, <1>3, <1>4

(* Emulation prevention adds at most one byte to every two, whatever the   *)
(* bytes are and however the cache and the flushes cut them                *)
(* (TileBytesBounded).                                                     *)
THEOREM TileBytesAreBounded == StreamSpec => []TileBytesBounded
<1>1. StreamInv => TileBytesBounded
  <2> SUFFICES ASSUME StreamInv, step \in {"tile", "entry", "write"}, NEW i \in Tiles
               PROVE  2 * Len(handlers[i].buffer) <= 3 * (Len(tileFields[i]) + HeaderShare)
    BY DEF TileBytesBounded
  <2> DEFINE n == Len(handlers[i].buffer)
             c == Len(tileFields[i]) + HeaderShare
  <2>1. n \in Nat /\ 16 * n <= 24 * c /\ c \in Int
    <3>1. tileFields[i] \in Seq(Fields)
      BY DEF StreamInv, CodesOK
    <3>2. Len(tileFields[i]) \in Nat /\ HeaderShare \in Nat
      BY <3>1 DEF HeaderShare
    <3> QED BY <3>2, TileIn, HandlerFields DEF TileWeight
  <2> HIDE DEF n, c
  <2>2. 2 * n <= 3 * c
    BY <2>1
  <2> QED BY <2>2 DEF n, c
<1> QED BY StreamInvariant, <1>1, PTL

(* A tile whose codes, with half as many again, are below what is          *)
(* allocated for it, guard bytes apart.                                    *)
FitsWithEscapes(i) ==
  3 * (Len(tileFields[i]) + HeaderShare) <= 2 * (handlers[i].allocBytes - GuardBytes)

(* No byte of a tile is written behind its buffer, and none of its         *)
(* overflow assertions fails, as long as what Cabac put in it is at most   *)
(* two thirds of what EncTop allocated: FlushRemBytes does not assert this *)
(* itself, and the assertion on the sizes in CompressSlice comes after the *)
(* bytes were written.                                                     *)
THEOREM TilesStayInBuffers ==
  StreamSpec => [](step \in {"tile", "entry", "write"} =>
                     \A i \in Tiles : FitsWithEscapes(i) => InBuffer(handlers[i])
                                                            /\ handlers[i].room)
<1> DEFINE Stays == step \in {"tile", "entry", "write"} =>
                      \A i \in Tiles : FitsWithEscapes(i) => InBuffer(handlers[i])
                                                             /\ handlers[i].room
<1>1. StreamInv => Stays
  <2> SUFFICES ASSUME StreamInv, step \in {"tile", "entry", "write"}, NEW i \in Tiles,
                      FitsWithEscapes(i)
               PROVE  InBuffer(handlers[i]) /\ handlers[i].room
    OBVIOUS
  <2> DEFINE n == Len(handlers[i].buffer)
             c == Len(tileFields[i]) + HeaderShare
             l == handlers[i].allocBytes
  <2>1. /\ n \in Nat /\ l \in Nat /\ c \in Int /\ 16 * n <= 24 * c /\ 3 * c <= 2 * (l - 2)
        /\ 24 * c < 16 * l => handlers[i].room
    <3>1. tileFields[i] \in Seq(Fields)
      BY DEF StreamInv, CodesOK
    <3>2. Len(tileFields[i]) \in Nat /\ HeaderShare \in Nat
      BY <3>1 DEF HeaderShare
    <3> QED BY <3>2, TileIn, HandlerFields
            DEF TileWeight, HasRoom, FitsWithEscapes, GuardBytes
  <2> HIDE DEF n, c, l
  <2>2. 2 + n <= l /\ 24 * c < 16 * l
    BY <2>1
  <2> QED BY <2>1, <2>2 DEF InBuffer, GuardBytes, n, l
<1> QED BY StreamInvariant, <1>1, PTL

--------------------------------------------------------------------------------
(* The list of fields that is put. *)
LEMMA SetOf ==
  ASSUME ScalarsOK, step \in Parameters
  PROVE  SetList(ParameterSet[step], step # "VPS")
<1>1. m_uiTotalTiles \in 1..24
  BY Shape
<1>2. CASE step = "VPS"
  <2>1. ParameterSet[step] = VPSFields
    BY <1>2 DEF ParameterSet
  <2> QED BY <1>2, <2>1, VPSList DEF SetList
<1>3. CASE step = "SPS"
  <2>1. ParameterSet[step] = SPSFields(Width, Height)
    BY <1>3 DEF ParameterSet
  <2> QED BY <1>3, <2>1, SPSList DEF SetList
<1>4. CASE step = "PPS"
  <2>1. ParameterSet[step] = PPSFields(m_uiTotalTiles, 1)
    BY <1>4 DEF ParameterSet
  <2> QED BY <1>1, <1>4, <2>1, PPSList DEF SetList
<1> QED BY <1>2, <1>3, <1>4 DEF Parameters

(* What is left of the VPS. *)
LEMMA RestOfVPS ==
  /\ Len(VPSFields) = 9
  /\ \A k \in 1..9 : /\ VPSFields[10 - k].kind # "trailing"
                     /\ VPSRest[k + 1] \in 0..32 /\ VPSRest[k] \in 0..32
                     /\ VPSRest[k + 1] = VPSRest[k] + Length(VPSFields[10 - k])
  /\ VPSRest[1] = 0 /\ VPSRest[10] = 32
<1>1. UELength(0) = 1 /\ UELength(1) = 3
  <2>1. Two(0) = 1 /\ Two(1) = 2 /\ Two(2) = 4
    BY Powers
  <2>2. UELength(0) = 1
    <3> DEFINE k == 0
               v == 0
    <3>1. k \in 0..15 /\ v \in Nat /\ Two(k) <= v + 1 /\ v + 1 < Two(k + 1) /\ 2 * k + 1 = 1
      BY <2>1
    <3> HIDE DEF k
    <3>2. UELength(v) = 2 * k + 1
      <4> HIDE DEF v
      <4> QED BY <3>1, UELengthIs
    <3> QED BY <3>1, <3>2
  <2>3. UELength(1) = 3
    <3> DEFINE k == 1
               v == 1
    <3>1. k \in 0..15 /\ v \in Nat /\ Two(k) <= v + 1 /\ v + 1 < Two(k + 1) /\ 2 * k + 1 = 3
      BY <2>1
    <3> HIDE DEF k
    <3>2. UELength(v) = 2 * k + 1
      <4> HIDE DEF v
      <4> QED BY <3>1, UELengthIs
    <3> QED BY <3>1, <3>2
  <2> QED BY <2>2, <2>3
<1> DEFINE F(f, n) == f.kind # "trailing" /\ Length(f) = n
<1>2. /\ F(U(12801, 16), 16) /\ F(U(0, 3), 3) /\ F(U(0, 5), 5) /\ F(U(0, 1), 1)
      /\ F(UE(0), 1) /\ F(UE(1), 3)
  BY <1>1 DEF U, UE, Length
<1>3. /\ VPSFields[1] = U(12801, 16) /\ VPSFields[2] = U(0, 3) /\ VPSFields[3] = U(0, 5)
      /\ VPSFields[4] = UE(0) /\ VPSFields[5] = U(0, 1) /\ VPSFields[6] = UE(1)
      /\ VPSFields[7] = UE(0) /\ VPSFields[8] = UE(0) /\ VPSFields[9] = U(0, 1)
  BY DEF VPSFields
<1>4. /\ F(VPSFields[1], 16) /\ F(VPSFields[2], 3) /\ F(VPSFields[3], 5)
      /\ F(VPSFields[4], 1) /\ F(VPSFields[5], 1) /\ F(VPSFields[6], 3)
      /\ F(VPSFields[7], 1) /\ F(VPSFields[8], 1) /\ F(VPSFields[9], 1)
  <2> HIDE DEF F
  <2> QED BY <1>2, <1>3
<1>5. /\ VPSRest[1] = 0 /\ VPSRest[2] = 1 /\ VPSRest[3] = 2 /\ VPSRest[4] = 3
      /\ VPSRest[5] = 6 /\ VPSRest[6] = 7 /\ VPSRest[7] = 8 /\ VPSRest[8] = 13
      /\ VPSRest[9] = 16 /\ VPSRest[10] = 32
  BY DEF VPSRest
<1>6. \A k \in 1..9 : /\ VPSFields[10 - k].kind # "trailing"
                      /\ VPSRest[k + 1] \in 0..32 /\ VPSRest[k] \in 0..32
                      /\ VPSRest[k + 1] = VPSRest[k] + Length(VPSFields[10 - k])
  <2> TAKE k \in 1..9
  <2> DEFINE a == VPSFields
             r == VPSRest
  <2>1. /\ F(a[1], 16) /\ F(a[2], 3) /\ F(a[3], 5) /\ F(a[4], 1) /\ F(a[5], 1) /\ F(a[6], 3)
        /\ F(a[7], 1) /\ F(a[8], 1) /\ F(a[9], 1)
    BY <1>4
  <2>2. /\ r[1] = 0 /\ r[2] = 1 /\ r[3] = 2 /\ r[4] = 3 /\ r[5] = 6 /\ r[6] = 7
        /\ r[7] = 8 /\ r[8] = 13 /\ r[9] = 16 /\ r[10] = 32
    BY <1>5
  <2> HIDE DEF a, r
  <2>3. F(a[10 - k], r[k + 1] - r[k]) /\ r[k + 1] \in 0..32 /\ r[k] \in 0..32
    <3> HIDE DEF F
    <3>1. CASE k = 1 BY <2>1, <2>2, <3>1
    <3>2. CASE k = 2 BY <2>1, <2>2, <3>2
    <3>3. CASE k = 3 BY <2>1, <2>2, <3>3
    <3>4. CASE k = 4 BY <2>1, <2>2, <3>4
    <3>5. CASE k = 5 BY <2>1, <2>2, <3>5
    <3>6. CASE k = 6 BY <2>1, <2>2, <3>6
    <3>7. CASE k = 7 BY <2>1, <2>2, <3>7
    <3>8. CASE k = 8 BY <2>1, <2>2, <3>8
    <3>9. CASE k = 9 BY <2>1, <2>2, <3>9
    <3> QED BY <3>1, <3>2, <3>3, <3>4, <3>5, <3>6, <3>7, <3>8, <3>9
  <2>4. a[10 - k].kind # "trailing" /\ r[k + 1] = r[k] + Length(a[10 - k])
    BY <2>3
  <2> QED BY <2>3, <2>4 DEF a, r
<1> QED BY <1>5, <1>6, VPSList

(* No assertion was met. *)
LEMMA SureAtInit == Init => SureInv
<1> SUFFICES ASSUME Init PROVE SureInv
  OBVIOUS
<1>1. AssertionsHold
  BY DEF AssertionsHold, Init, NewHandler
<1> QED BY <1>1 DEF Init, SureInv, ParameterOK, TodoOK

(* A handler is replaced by one whose assertions held. *)
LEMMA UpdateSure ==
  ASSUME NEW hs, \A i \in DOMAIN hs : hs[i].sure, NEW j, NEW g, g.sure,
         NEW t, t = [hs EXCEPT ![j] = g]
  PROVE  \A i \in DOMAIN t : t[i].sure
OBVIOUS

(* The start code is put on a word boundary. *)
LEMMA SureAtStartParameterSet == StreamInv /\ SureInv /\ StartParameterSet => SureInv'
<1> SUFFICES ASSUME StreamInv, SureInv, StartParameterSet PROVE SureInv'
  OBVIOUS
<1> DEFINE h == handlers[0]
           g == PutStartCodeWordLevel(InitBitStreamWordLevel(h))
           s == ParameterSet[step]
           n == Len(s)
<1>1. 0 \in Tiles
  BY Shape DEF StreamInv
<1>2. 0 \in DOMAIN handlers /\ h \in Handlers /\ h.sure
  BY <1>1 DEF StreamInv, HandlersOK, HandlerTable, SureInv, AssertionsHold
<1>3. handlers' = [handlers EXCEPT ![0] = g]
  BY DEF StartParameterSet
<1>4. /\ step' = step /\ step \in Parameters /\ headerFields' = s /\ todo' = s
  BY DEF StartParameterSet, ParameterSet, Parameters
<1>5. SetList(s, step # "VPS")
  BY <1>4, SetOf DEF StreamInv
<1>6. n \in 1..60 /\ n \in Nat /\ (step = "VPS" => n = 9)
  <2>1. n \in 1..60
    BY <1>5 DEF SetList
  <2>2. step = "VPS" => s = VPSFields
    BY DEF ParameterSet
  <2> HIDE DEF n
  <2>3. n \in Nat
    BY <2>1
  <2> QED BY <2>1, <2>2, <2>3, VPSList DEF n
<1> HIDE DEF h, s, n
<1>7. g \in Handlers /\ g.iBitLocPtr % 8 = 0 /\ g.sure
  BY <1>2, StartCodePuts
<1> HIDE DEF g
<1>8. AssertionsHold'
  BY <1>3, <1>7, UpdateSure DEF SureInv, AssertionsHold
<1>9. handlers'[0] = g
  BY <1>2, <1>3
<1>10. ParameterOK'
  <2>1. n <= n
    BY <1>6
  <2>2. \A i \in 1..n : s[i] = s[n - n + i]
    <3> TAKE i \in 1..n
    <3>1. n - n + i = i
      BY <1>6
    <3> QED BY <3>1
  <2>3. step = "VPS" => (g.iBitLocPtr - VPSRest[n + 1]) % 8 = 0
    <3> SUFFICES ASSUME step = "VPS" PROVE (g.iBitLocPtr - VPSRest[n + 1]) % 8 = 0
      OBVIOUS
    <3>1. VPSRest[n + 1] = 32
      BY <1>6, RestOfVPS
    <3>2. g.iBitLocPtr \in 1..32
      BY <1>7, HandlerFields
    <3> QED BY <1>7, <3>1, <3>2
  <2>5. headerFields' = (ParameterSet[step])' /\ m_uiTotalTiles' = m_uiTotalTiles
    BY <1>4 DEF StartParameterSet, ParameterSet, s
  <2>6. Len(todo') = n /\ Len(headerFields') = n
    BY <1>4 DEF n
  <2> QED BY <1>4, <1>7, <1>9, <2>1, <2>2, <2>3, <2>5, <2>6 DEF ParameterOK
<1>11. TodoOK'
  BY <1>4 DEF TodoOK
<1> QED BY <1>8, <1>10, <1>11 DEF SureInv

(* The last field comes out even. *)
LEMMA SureAtPutParameter == StreamInv /\ SureInv /\ PutParameter => SureInv'
<1> SUFFICES ASSUME StreamInv, SureInv, PutParameter PROVE SureInv'
  OBVIOUS
<1> DEFINE h == handlers[0]
           f == Head(todo)
           g == PutField(h, f)
           s == headerFields
           n == Len(s)
           k == Len(todo)
           p == h.iBitLocPtr
           q == g.iBitLocPtr
<1>1. 0 \in Tiles
  BY Shape DEF StreamInv
<1>2. 0 \in DOMAIN handlers /\ h \in Handlers /\ h.sure
  BY <1>1 DEF StreamInv, HandlersOK, HandlerTable, SureInv, AssertionsHold
<1>3. handlers' = [handlers EXCEPT ![0] = g]
  BY DEF PutParameter
<1>4. /\ todo # <<>> /\ todo \in Seq(Fields) /\ step \in Parameters /\ s # <<>>
      /\ todo' = Tail(todo) /\ headerFields' = s /\ step' = step
  BY DEF PutParameter, ghosts, StreamInv, ScalarsOK, SureInv, TodoOK
<1>5. /\ s = ParameterSet[step] /\ k <= n
      /\ \A i \in 1..k : todo[i] = s[n - k + i]
      /\ step = "VPS" => (p - VPSRest[k + 1]) % 8 = 0
  BY <1>4 DEF SureInv, ParameterOK
<1>6. SetList(s, step # "VPS")
  BY <1>4, <1>5, SetOf DEF StreamInv
<1>7. n \in 1..60 /\ k \in 1..n
  <2>1. n \in 1..60
    BY <1>6 DEF SetList
  <2>2. k \in Nat /\ k # 0
    BY <1>4
  <2> HIDE DEF n, k
  <2> QED BY <1>5, <2>1, <2>2
<1>8. f \in Fields /\ f = todo[1] /\ Len(Tail(todo)) = k - 1
      /\ \A i \in 1..(k - 1) : Tail(todo)[i] = todo[i + 1]
  BY <1>4
<1> HIDE DEF n, k, f, p, q
<1>9. f = s[n - k + 1]
  <2>1. 1 \in 1..k
    BY <1>7
  <2> QED BY <1>5, <1>8, <2>1
<1> HIDE DEF s, h
<1> DEFINE m == 32
<1>10. PutsUpTo(h, g, m) /\ m \in Nat
  BY <1>2, <1>8, AnyFieldPuts
<1> HIDE DEF m, g
<1>11. g \in Handlers /\ g.sure = h.sure
  BY <1>2, <1>10, PutsUpToFacts
<1>12. p \in 1..32 /\ q \in 1..32
  BY <1>2, <1>11, HandlerFields DEF p, q
<1>14. AssertionsHold'
  <2>1. g.sure
    BY <1>2, <1>11
  <2> QED BY <1>3, <2>1, UpdateSure DEF SureInv, AssertionsHold
<1>15. handlers'[0] = g
  BY <1>2, <1>3
<1>16. step = "VPS" => (q - VPSRest[(k - 1) + 1]) % 8 = 0
  <2> SUFFICES ASSUME step = "VPS" PROVE (q - VPSRest[(k - 1) + 1]) % 8 = 0
    OBVIOUS
  <2>1. s = VPSFields /\ n = 9
    BY <1>5, VPSList DEF ParameterSet, n, s
  <2>2. k \in 1..9 /\ n - k + 1 = 10 - k /\ (k - 1) + 1 = k
    BY <1>7, <2>1
  <2> DEFINE a == VPSRest[k + 1]
             b == VPSRest[k]
             l == Length(f)
  <2>3. f = VPSFields[10 - k]
    BY <1>9, <2>1, <2>2
  <2>4. f.kind # "trailing" /\ a \in 0..32 /\ b \in 0..32 /\ a = b + l
    BY <2>2, <2>3, RestOfVPS
  <2>5. Puts(h, PutField(h, f), l) /\ l \in 1..32
    BY <1>2, <1>8, <2>4, FieldPuts
  <2>6. (q + l - p) % 8 = 0
    BY <2>5 DEF Puts, BYTE, g, p, q
  <2>7. (p - a) % 8 = 0
    BY <1>5
  <2> HIDE DEF a, b, l
  <2>8. (q - b) % 8 = 0
    <3>0. a \in Int /\ b \in Int /\ l \in Int /\ p \in Int /\ q \in Int /\ a = b + l
      BY <1>12, <2>4, <2>5
    <3> DEFINE x == q + l - p
               y == p - a
    <3>1. x \in Int /\ y \in Int /\ x % 8 = 0 /\ y % 8 = 0
      BY <2>6, <2>7, <3>0
    <3> DEFINE u == x \div 8
               v == y \div 8
    <3> HIDE DEF x, y
    <3>2. x = 8 * u /\ y = 8 * v /\ u \in Int /\ v \in Int
      BY <3>1
    <3> HIDE DEF u, v
    <3>3. q - b = 8 * (u + v) /\ u + v \in Int
      <4>1. q - b = x + y
        BY <3>0 DEF x, y
      <4> QED BY <3>2, <4>1
    <3> DEFINE w == u + v
    <3> HIDE DEF w
    <3>4. (8 * w) % 8 = 0
      BY <3>3 DEF w
    <3> QED BY <3>3, <3>4 DEF w
  <2> QED BY <2>2, <2>8 DEF b
<1>17. k - 1 = 0 => q % 8 = 0
  <2> SUFFICES ASSUME k = 1 PROVE q % 8 = 0
    BY <1>7
  <2>1. CASE step = "VPS"
    <3>1. VPSRest[(k - 1) + 1] = 0
      BY RestOfVPS
    <3>2. (q - 0) % 8 = 0
      BY <1>16, <2>1, <3>1
    <3> QED BY <1>12, <3>2
  <2>2. CASE step # "VPS"
    <3>1. n - k + 1 = n
      BY <1>7
    <3>2. f = Trailing
      BY <1>6, <1>9, <2>2, <3>1 DEF SetList, n
    <3>3. g = WriteRBSPTrailingBits(h)
      BY <3>2 DEF g, PutField, Trailing
    <3>4. Stopped(g)
      BY <1>2, <3>3, TrailingStops
    <3> QED BY <3>4 DEF Stopped, BYTE, q
  <2> QED BY <2>1, <2>2
<1>18. \A i \in 1..(k - 1) : Tail(todo)[i] = s[n - (k - 1) + i]
  <2> TAKE i \in 1..(k - 1)
  <2>1. i + 1 \in 1..k /\ n - k + (i + 1) = n - (k - 1) + i
    BY <1>7
  <2> QED BY <1>5, <1>8, <2>1 DEF s
<1>19. ParameterOK'
  <2>1. Len(todo') = k - 1 /\ Len(headerFields') = n /\ k - 1 <= n
    BY <1>4, <1>7, <1>8 DEF n, s
  <2>2. headerFields' = (ParameterSet[step])'
    BY <1>4, <1>5 DEF PutParameter, ParameterSet, s
  <2> QED BY <1>4, <1>15, <1>16, <1>17, <1>18, <2>1, <2>2 DEF ParameterOK, q
<1>20. TodoOK'
  BY <1>4 DEF TodoOK
<1> QED BY <1>14, <1>19, <1>20 DEF SureInv

(* What FlushRemBytes finds is whole bytes. *)
LEMMA SureAtFinishParameterSet == StreamInv /\ SureInv /\ FinishParameterSet => SureInv'
<1> SUFFICES ASSUME StreamInv, SureInv, FinishParameterSet PROVE SureInv'
  OBVIOUS
<1> DEFINE h == handlers[0]
           g == FlushRemBytes(h)
<1>1. 0 \in Tiles
  BY Shape DEF StreamInv
<1>2. 0 \in DOMAIN handlers /\ h \in Handlers /\ h.sure
  BY <1>1 DEF StreamInv, HandlersOK, HandlerTable, SureInv, AssertionsHold
<1>3. handlers' = [handlers EXCEPT ![0] = g] /\ headerFields' = <<>> /\ todo' = <<>>
  BY DEF FinishParameterSet
<1>4. h.iBitLocPtr % 8 = 0
  <2>1. step \in Parameters /\ headerFields # <<>> /\ Len(todo) = 0
    BY DEF FinishParameterSet, ParameterSet, Parameters
  <2> QED BY <2>1 DEF SureInv, ParameterOK
<1> HIDE DEF h
<1>5. g.sure
  <2>1. Flushed(h, g)
    BY <1>2, RemFlushed
  <2> HIDE DEF g
  <2>2. h.iBitLocPtr % BYTE = 0
    BY <1>4 DEF BYTE
  <2> QED BY <1>2, <2>1, <2>2 DEF Flushed
<1> HIDE DEF g
<1>6. AssertionsHold'
  BY <1>3, <1>5, UpdateSure DEF SureInv, AssertionsHold
<1> QED BY <1>3, <1>6 DEF SureInv, ParameterOK, TodoOK

(* No code of the slice header is empty. *)
LEMMA SureAtStartSlice == StreamInv /\ SureInv /\ StartSlice => SureInv'
<1> SUFFICES ASSUME StreamInv, SureInv, StartSlice PROVE SureInv'
  OBVIOUS
<1> DEFINE e == EmptyHandlers
           h == e[SliceHeader]
           g == WriteSliceHdrInBitstream(h, SliceHdrFields(uiCurrSliceNum, m_uiQP, m_uiTotalTiles))
           n == 78
<1>1. m_uiQP \in 1..51 /\ uiCurrSliceNum \in Nat
  BY Shape DEF StreamInv, ScalarsOK
<1>2. HandlerTable(e) /\ \A i \in DOMAIN e : e[i].sure = handlers[i].sure
  BY EmptyTable DEF StreamInv, EmptyHandlers, HandlersOK
<1>3. DOMAIN e = DOMAIN handlers
  BY DEF EmptyHandlers
<1>4. handlers' = [e EXCEPT ![SliceHeader] = g] /\ step' = "tile" /\ todo' = todo
  BY DEF StartSlice
<1> HIDE DEF e
<1>5. \A i \in DOMAIN e : e[i].sure
  BY <1>2, <1>3 DEF SureInv, AssertionsHold
<1>6. h \in Handlers /\ h.sure
  <2>1. SliceHeader \in DOMAIN e
    BY <1>2 DEF HandlerTable
  <2> QED BY <1>2, <1>5, <2>1 DEF HandlerTable
<1>7. PutsUpTo(h, g, n) /\ n \in Nat
  BY <1>1, <1>6, SliceHeaderPut
<1> HIDE DEF n, g, h
<1>8. g.sure
  BY <1>6, <1>7, PutsUpToFacts
<1>9. AssertionsHold'
  BY <1>4, <1>5, <1>8, UpdateSure DEF AssertionsHold
<1>10. todo' = <<>>
  BY <1>4 DEF StreamInv, ScalarsOK, StartSlice, Parameters
<1> QED BY <1>4, <1>9, <1>10 DEF SureInv, ParameterOK, TodoOK, Parameters

(* The tile that is being coded. *)
LEMMA TileInHand ==
  ASSUME StreamInv, SureInv, step = "tile"
  PROVE  /\ handlers[tile] \in Handlers /\ handlers[tile].sure
         /\ handlers[tile].iBitLocPtr % 8 = 0
<1>1. tile \in Tiles /\ ~(tile < tile) /\ tile \in DOMAIN handlers
  BY Shape DEF StreamInv, ScalarsOK, HandlersOK, HandlerTable
<1> QED BY <1>1 DEF StreamInv, HandlersOK, HandlerTable, TilesOK, Open, SureInv, AssertionsHold

(* A byte is not an empty code. *)
LEMMA SureAtPutByte ==
  ASSUME StreamInv, SureInv, NEW b \in ByteValues, PutByte(b) PROVE SureInv'
<1> DEFINE h == handlers[tile]
           g == PutField(h, U(b, BYTE))
<1>1. /\ handlers' = [handlers EXCEPT ![tile] = g] /\ step = "tile" /\ step' = "tile"
      /\ todo' = todo
  BY DEF PutByte
<1>2. h \in Handlers /\ h.sure
  BY <1>1, TileInHand
<1>3. Puts(h, g, 8)
  <2>1. b \in Nat
    <3>1. b \in 0..255
      BY SliceStreamAssumption
    <3> QED BY <3>1
  <2> QED BY <1>2, <2>1, BytePuts
<1>4. g.sure
  BY <1>2, <1>3 DEF Puts
<1> HIDE DEF g, h
<1>5. AssertionsHold'
  BY <1>1, <1>4, UpdateSure DEF SureInv, AssertionsHold
<1>6. todo' = <<>>
  BY <1>1 DEF StreamInv, ScalarsOK, Parameters
<1> QED BY <1>1, <1>5, <1>6 DEF SureInv, ParameterOK, TodoOK, Parameters

(* The end of a tile is whole bytes. *)
LEMMA SureAtFinishTile ==
  ASSUME StreamInv, SureInv, NEW code \in LastCodes, FinishTile(code) PROVE SureInv'
<1> DEFINE h == handlers[tile]
           g == FlushRemBytes(LastBits(h, code))
<1>1. /\ handlers' = [handlers EXCEPT ![tile] = g] /\ step = "tile"
      /\ step' \in {"tile", "entry"} /\ todo' = todo
  BY DEF FinishTile, LastBits
<1>2. h \in Handlers /\ h.sure /\ h.iBitLocPtr % 8 = 0
  BY <1>1, TileInHand
<1>3. g.sure
  BY <1>2, TileFlushed
<1> HIDE DEF g, h
<1>4. AssertionsHold'
  BY <1>1, <1>3, UpdateSure DEF SureInv, AssertionsHold
<1>5. todo' = <<>>
  BY <1>1 DEF StreamInv, ScalarsOK, Parameters
<1> QED BY <1>1, <1>4, <1>5 DEF SureInv, ParameterOK, TodoOK, Parameters

(* The entry points are whole bytes. *)
LEMMA SureAtFinishSlice ==
  ASSUME StreamInv, SureInv, FinishSlice PROVE SureInv'
<1>1. step = "entry" /\ step' = "write" /\ todo' = todo
  BY DEF FinishSlice
<1>2. AssertionsHold'
  BY AfterFinishSlice DEF SureInv, AssertionsHold
<1>3. todo' = <<>>
  BY <1>1 DEF StreamInv, ScalarsOK, Parameters
<1> QED BY <1>1, <1>2, <1>3 DEF SureInv, ParameterOK, TodoOK, Parameters

(* Writing the handlers meets no assertion. *)
LEMMA SureAtWriteSlice == StreamInv /\ SureInv /\ WriteSlice => SureInv'
<1> SUFFICES ASSUME StreamInv, SureInv, WriteSlice PROVE SureInv'
  OBVIOUS
<1>1. step = "write" /\ step' = "slice" /\ handlers' = handlers /\ todo' = todo
  BY DEF WriteSlice
<1>2. todo' = <<>>
  BY <1>1 DEF StreamInv, ScalarsOK, Parameters
<1> QED BY <1>1, <1>2 DEF SureInv, AssertionsHold, ParameterOK, TodoOK, Parameters

(* A step that changes nothing. *)
LEMMA SureAtStutter == SureInv /\ UNCHANGED vars => SureInv'
BY DEF vars, ghosts, SureInv, AssertionsHold, ParameterOK, ParameterSet, TodoOK

(* Every assertion met so far held, and a parameter set under way has put  *)
(* the bits of its fields (SureInv is inductive together with StreamInv).  *)
LEMMA SureInvariant == StreamSpec => []SureInv
<1>1. StreamInv /\ SureInv /\ [Next]_vars => SureInv'
  BY SureAtStartParameterSet, SureAtPutParameter, SureAtFinishParameterSet, SureAtStartSlice,
     SureAtPutByte, SureAtFinishTile, SureAtFinishSlice, SureAtWriteSlice, SureAtStutter, Zenon
     DEF Next
<1>2. StreamSpec => []StreamInv
  BY StreamInvariant
<1> QED BY SureAtInit, <1>1, <1>2, PTL DEF StreamSpec

(* No MAKE_SURE on the use of the handlers fails (AssertionsHold), for     *)
(* slices of any size: start codes are on word boundaries, no code is      *)
(* empty, and every parameter set, tile and header comes out in whole      *)
(* bytes.                                                                  *)
THEOREM StreamAssertionsHold == StreamSpec => []AssertionsHold
<1>1. SureInv => AssertionsHold
  BY DEF SureInv
<1> QED BY SureInvariant, <1>1, PTL
================================================================================
