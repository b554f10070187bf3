-------------------------- MODULE CabacDecoderProofs ---------------------------
(***************************************************************************)
(* The decoder reads what the engine of Cabac.tla coded.  All that has     *)
(* been coded is one number: the codes written, the bytes held back and    *)
(* the register (Value), with as many bits as the decoder has read at that *)
(* point (ReadBits).  An operation narrows the interval [Value, Value +    *)
(* range) (Narrows), and a decoder whose stream lies in the narrower       *)
(* interval follows it (Follows).  Flush leaves a stream that lies in the  *)
(* last one.                                                               *)
(***************************************************************************)
EXTENDS CabacProofs

(* Two functions that begin alike and go on alike.                         *)
LEMMA Agreeing ==
  ASSUME NEW n \in Nat, NEW f, NEW g, f[0] = g[0],
         \A k \in 1..n : f[k-1] = g[k-1] => f[k] = g[k]
  PROVE  \A k \in 0..n : f[k] = g[k]
<1> DEFINE T == {k \in Nat : k <= n => f[k] = g[k]}
<1>1. 0 \in T
  OBVIOUS
<1>2. ASSUME NEW k \in Nat, k \in T PROVE k + 1 \in T
  <2>1. CASE k + 1 <= n
    <3>1. k + 1 \in 1..n /\ (k + 1) - 1 = k /\ f[k] = g[k]
      BY <1>2, <2>1
    <3> QED BY <3>1
  <2> QED BY <2>1
<1> HIDE DEF T
<1>3. Nat \subseteq T
  BY <1>1, <1>2, NaturalsOf
<1> QED BY <1>3 DEF T

--------------------------------------------------------------------------------
(* Fetch.                                                                  *)

Bits == Seq(Bit)

BitAt(bits, i) == IF i <= Len(bits) THEN bits[i] ELSE 0

IsFetch(f, bits, pos, n) ==
  f = [i \in 0..n |-> IF i = 0 THEN 0 ELSE 2 * f[i-1] + BitAt(bits, pos + i)]

(* The function in Fetch is defined for every number of bits. *)
LEMMA FetchExists ==
  ASSUME NEW bits, NEW pos, NEW n \in Nat
  PROVE  \E f : IsFetch(f, bits, pos, n)
<1> DEFINE T == {m \in Nat : \E f : IsFetch(f, bits, pos, m)}
<1>1. 0 \in T
  <2>1. IsFetch([i \in 0..0 |-> 0], bits, pos, 0)
    BY DEF IsFetch
  <2> QED BY <2>1
<1>2. ASSUME NEW m \in Nat, m \in T PROVE m + 1 \in T
  <2>1. PICK f : IsFetch(f, bits, pos, m)
    BY <1>2
  <2> DEFINE g == [i \in 0..(m + 1) |->
                     IF i = 0 THEN 0 ELSE 2 * f[i-1] + BitAt(bits, pos + i)]
  <2>2. \A i \in 0..m : g[i] = f[i]
    BY <2>1 DEF IsFetch
  <2>3. \A i \in 0..(m + 1) : g[i] = IF i = 0 THEN 0 ELSE 2 * f[i-1] + BitAt(bits, pos + i)
    OBVIOUS
  <2>5. g = [i \in 0..(m + 1) |-> g[i]]
    OBVIOUS
  <2> HIDE DEF g
  <2>6. \A i \in 0..(m + 1) : g[i] = IF i = 0 THEN 0 ELSE 2 * g[i-1] + BitAt(bits, pos + i)
    <3> TAKE i \in 0..(m + 1)
    <3>1. CASE i = 0
      BY <2>3, <3>1
    <3>2. CASE i # 0
      <4>1. i - 1 \in 0..m
        BY <3>2
      <4>2. g[i-1] = f[i-1]
        BY <2>2, <4>1
      <4> QED BY <2>3, <3>2, <4>2
    <3> QED BY <3>1, <3>2
  <2>4. g = [i \in 0..(m + 1) |-> IF i = 0 THEN 0 ELSE 2 * g[i-1] + BitAt(bits, pos + i)]
    BY <2>5, <2>6, Zenon
  <2> QED BY <2>4 DEF IsFetch
<1> HIDE DEF T
<1>3. Nat \subseteq T
  BY <1>1, <1>2, NaturalsOf
<1> QED BY <1>3 DEF T

(* Fetch takes the last value of a function that has its equation. *)
LEMMA FetchIs ==
  ASSUME NEW bits, NEW pos, NEW n \in Nat
  PROVE  \E f : IsFetch(f, bits, pos, n) /\ Fetch(bits, pos, n) = f[n]
<1> DEFINE f == CHOOSE ff : IsFetch(ff, bits, pos, n)
<1>1. IsFetch(f, bits, pos, n)
  BY FetchExists
<1>2. Fetch(bits, pos, n) = f[n]
  BY Zenon DEF Fetch, IsFetch, BitAt
<1> HIDE DEF f
<1> QED BY <1>1, <1>2

(* No bits are the number 0. *)
LEMMA FetchNone ==
  ASSUME NEW bits, NEW pos PROVE Fetch(bits, pos, 0) = 0
<1>1. PICK f : IsFetch(f, bits, pos, 0) /\ Fetch(bits, pos, 0) = f[0]
  BY FetchIs
<1> QED BY <1>1 DEF IsFetch

(* One bit more doubles the number and adds the bit. *)
LEMMA FetchNext ==
  ASSUME NEW bits, NEW pos, NEW n \in Nat
  PROVE  Fetch(bits, pos, n + 1) = 2 * Fetch(bits, pos, n) + BitAt(bits, pos + (n + 1))
<1>1. PICK f : IsFetch(f, bits, pos, n) /\ Fetch(bits, pos, n) = f[n]
  BY FetchIs
<1>2. PICK g : IsFetch(g, bits, pos, n + 1) /\ Fetch(bits, pos, n + 1) = g[n + 1]
  BY FetchIs
<1>3. \A k \in 0..n : f[k] = g[k]
  <2>1. f[0] = g[0]
    BY <1>1, <1>2 DEF IsFetch
  <2>2. ASSUME NEW k \in 1..n, f[k-1] = g[k-1] PROVE f[k] = g[k]
    BY <1>1, <1>2, <2>2 DEF IsFetch
  <2> QED BY <2>1, <2>2, Agreeing
<1>4. g[n + 1] = 2 * g[n] + BitAt(bits, pos + (n + 1))
  <2>1. n + 1 \in 0..(n + 1) /\ n + 1 # 0 /\ (n + 1) - 1 = n
    OBVIOUS
  <2> QED BY <1>2, <2>1 DEF IsFetch
<1> QED BY <1>1, <1>2, <1>3, <1>4

(* Behind the end of the stream there are zeros. *)
LEMMA BitIn ==
  ASSUME NEW bits \in Bits, NEW i \in Nat, i > 0 PROVE BitAt(bits, i) \in {0, 1}
BY DEF Bits, Bit, BitAt

(* The number of n bits, and that of n bits behind pos others.             *)
LEMMA FetchIn ==
  ASSUME NEW bits \in Bits, NEW pos \in Nat, NEW n \in Nat
  PROVE  Fetch(bits, pos, n) \in Nat
<1> DEFINE T == {m \in Nat : Fetch(bits, pos, m) \in Nat}
<1>1. 0 \in T
  BY FetchNone
<1>2. ASSUME NEW m \in Nat, m \in T PROVE m + 1 \in T
  <2>1. Fetch(bits, pos, m + 1) = 2 * Fetch(bits, pos, m) + BitAt(bits, pos + (m + 1))
    BY FetchNext
  <2>2. BitAt(bits, pos + (m + 1)) \in {0, 1}
    BY BitIn
  <2> QED BY <1>2, <2>1, <2>2
<1> HIDE DEF T
<1>3. Nat \subseteq T
  BY <1>1, <1>2, NaturalsOf
<1> QED BY <1>3 DEF T

(* n bits are a number below 2^n. *)
LEMMA FetchBelow ==
  ASSUME NEW bits \in Bits, NEW pos \in Nat, NEW n \in 0..20
  PROVE  Fetch(bits, pos, n) < Two(n)
<1> DEFINE T == {m \in Nat : m <= 20 => Fetch(bits, pos, m) < Two(m)}
<1>1. 0 \in T
  BY FetchNone, Powers
<1>2. ASSUME NEW m \in Nat, m \in T PROVE m + 1 \in T
  <2> SUFFICES ASSUME m + 1 <= 20 PROVE Fetch(bits, pos, m + 1) < Two(m + 1)
    OBVIOUS
  <2>1. Fetch(bits, pos, m + 1) = 2 * Fetch(bits, pos, m) + BitAt(bits, pos + (m + 1))
    BY FetchNext
  <2>2. BitAt(bits, pos + (m + 1)) \in {0, 1}
    BY BitIn
  <2>3. Two(m + 1) = 2 * Two(m) /\ Two(m) \in Nat
    BY Doubling
  <2>4. Fetch(bits, pos, m) < Two(m) /\ Fetch(bits, pos, m) \in Nat
    BY <1>2, FetchIn
  <2> QED BY <2>1, <2>2, <2>3, <2>4
<1> HIDE DEF T
<1>3. Nat \subseteq T
  BY <1>1, <1>2, NaturalsOf
<1> QED BY <1>3 DEF T

(* The number of p + n bits, from that of the first p. *)
LEMMA FetchMore ==
  ASSUME NEW bits \in Bits, NEW pos \in Nat, NEW p \in Nat, NEW n \in 0..20
  PROVE  Fetch(bits, pos, p + n) = Fetch(bits, pos, p) * Two(n) + Fetch(bits, pos + p, n)
<1> DEFINE T == {m \in Nat : m <= 20 => Fetch(bits, pos, p + m) = Fetch(bits, pos, p) * Two(m) + Fetch(bits, pos + p, m)}
<1>0. Fetch(bits, pos, p) \in Nat
  BY FetchIn
<1>1. 0 \in T
  <2>1. p + 0 = p /\ pos + p \in Nat
    OBVIOUS
  <2> QED BY <1>0, <2>1, FetchNone, Powers
<1>2. ASSUME NEW m \in Nat, m \in T PROVE m + 1 \in T
  <2> SUFFICES ASSUME m + 1 <= 20
               PROVE  Fetch(bits, pos, p + (m + 1)) =
                        Fetch(bits, pos, p) * Two(m + 1) + Fetch(bits, pos + p, m + 1)
    OBVIOUS
  <2> DEFINE bit == BitAt(bits, pos + (p + (m + 1)))
             x == Fetch(bits, pos, p)
             y == Fetch(bits, pos + p, m)
             z == Fetch(bits, pos, p + m)
             t == Two(m)
  <2>1. Fetch(bits, pos, p + (m + 1)) = 2 * z + bit
    <3>1. p + m \in Nat /\ (p + m) + 1 = p + (m + 1)
      OBVIOUS
    <3> QED BY <3>1, FetchNext
  <2>2. Fetch(bits, pos + p, m + 1) = 2 * y + bit
    <3>1. pos + p \in Nat /\ (pos + p) + (m + 1) = pos + (p + (m + 1))
      OBVIOUS
    <3> QED BY <3>1, FetchNext
  <2>3. bit \in {0, 1}
    BY BitIn
  <2>4. Two(m + 1) = 2 * t /\ t \in Nat
    BY Doubling
  <2>5. z = x * t + y
    BY <1>2
  <2>6. x \in Nat /\ y \in Nat /\ z \in Nat
    <3>1. pos + p \in Nat /\ p + m \in Nat
      OBVIOUS
    <3> QED BY <3>1, FetchIn
  <2> HIDE DEF bit, x, y, z, t
  <2>7. 2 * z + bit = x * (2 * t) + (2 * y + bit)
    <3>1. x * (2 * t) = 2 * (x * t) /\ x * t \in Nat
      BY <2>4, <2>6
    <3> QED BY <2>3, <2>5, <2>6, <3>1
  <2> QED BY <2>1, <2>2, <2>4, <2>7 DEF x
<1> HIDE DEF T
<1>3. Nat \subseteq T
  BY <1>1, <1>2, NaturalsOf
<1> QED BY <1>3 DEF T

(* Quotient and remainder are determined by the division. *)
LEMMA QuotientIs ==
  ASSUME NEW a \in Nat, NEW p \in Nat, p > 0, NEW k \in Int, NEW r \in Nat, r < p, a = k * p + r
  PROVE  a \div p = k /\ a % p = r
<1> DEFINE q == a \div p
           s == a % p
<1>1. q \in Nat /\ s \in 0 .. (p - 1) /\ a = q * p + s
  BY Division
<1> HIDE DEF q, s
<1>2. (q - k) * p = r - s
  <2>1. (q - k) * p = q * p - k * p
    BY <1>1
  <2> QED BY <1>1, <2>1
<1>3. q = k
  <2>1. q - k \in Int
    BY <1>1
  <2>2. CASE q - k >= 1
    <3>1. (q - k) * p >= p
      BY <2>1, <2>2
    <3> QED BY <1>1, <1>2, <3>1
  <2>3. CASE q - k <= -1
    <3>1. (q - k) * p <= -p
      BY <2>1, <2>3
    <3> QED BY <1>1, <1>2, <3>1
  <2> QED BY <1>1, <2>1, <2>2, <2>3
<1>4. s = r
  BY <1>1, <1>2, <1>3
<1> QED BY <1>3, <1>4 DEF q, s

(* Equal bits at two places are equal numbers. *)
LEMMA FetchSame ==
  ASSUME NEW a, NEW p \in Nat, NEW b, NEW q \in Nat, NEW n \in Nat,
         \A i \in 1..n : BitAt(a, p + i) = BitAt(b, q + i)
  PROVE  Fetch(a, p, n) = Fetch(b, q, n)
<1> DEFINE T == {m \in Nat : m <= n => Fetch(a, p, m) = Fetch(b, q, m)}
<1>1. 0 \in T
  BY FetchNone
<1>2. ASSUME NEW m \in Nat, m \in T PROVE m + 1 \in T
  <2> SUFFICES ASSUME m + 1 <= n PROVE Fetch(a, p, m + 1) = Fetch(b, q, m + 1)
    OBVIOUS
  <2>1. Fetch(a, p, m + 1) = 2 * Fetch(a, p, m) + BitAt(a, p + (m + 1))
    BY FetchNext
  <2>2. Fetch(b, q, m + 1) = 2 * Fetch(b, q, m) + BitAt(b, q + (m + 1))
    BY FetchNext
  <2>3. Fetch(a, p, m) = Fetch(b, q, m) /\ BitAt(a, p + (m + 1)) = BitAt(b, q + (m + 1))
    BY <1>2
  <2> QED BY <2>1, <2>2, <2>3
<1> HIDE DEF T
<1>3. Nat \subseteq T
  BY <1>1, <1>2, NaturalsOf
<1> QED BY <1>3 DEF T

(* The number of a stream. *)
Number(bits) == Fetch(bits, 0, Len(bits))

(* The number of a stream with a short one behind it. *)
LEMMA NumberOfBoth ==
  ASSUME NEW s \in Bits, NEW t \in Bits, Len(t) \in 0..20
  PROVE  /\ s \o t \in Bits /\ Len(s \o t) = Len(s) + Len(t)
         /\ Number(s \o t) = Number(s) * Two(Len(t)) + Number(t)
<1> DEFINE b == s \o t
           m == Len(s)
           n == Len(t)
<1>1. b \in Bits /\ Len(b) = m + n /\ m \in Nat /\ n \in 0..20
      /\ (\A i \in 1..m : b[i] = s[i]) /\ (\A i \in 1..n : b[m + i] = t[i])
  BY DEF Bits
<1> HIDE DEF b, m, n
<1>2. Fetch(b, 0, m) = Fetch(s, 0, m)
  <2>1. \A i \in 1..m : BitAt(b, 0 + i) = BitAt(s, 0 + i)
    BY <1>1 DEF BitAt, m
  <2>2. 0 \in Nat
    OBVIOUS
  <2> QED BY <1>1, <2>1, <2>2, FetchSame
<1>3. Fetch(b, m, n) = Fetch(t, 0, n)
  <2>1. \A i \in 1..n : BitAt(b, m + i) = BitAt(t, 0 + i)
    BY <1>1 DEF BitAt, n
  <2>2. 0 \in Nat /\ n \in Nat
    BY <1>1
  <2> QED BY <1>1, <2>1, <2>2, FetchSame
<1>4. Fetch(b, 0, m + n) = Fetch(b, 0, m) * Two(n) + Fetch(b, 0 + m, n)
  <2>1. 0 \in Nat
    OBVIOUS
  <2> QED BY <1>1, <2>1, FetchMore
<1>5. 0 + m = m
  BY <1>1
<1> QED BY <1>1, <1>2, <1>3, <1>4, <1>5 DEF Number, b, m, n

(* The number of a stream is natural. *)
LEMMA NumberIn == ASSUME NEW bits \in Bits PROVE Number(bits) \in Nat /\ Len(bits) \in Nat
<1>1. Len(bits) \in Nat
  BY DEF Bits
<1> QED BY <1>1, FetchIn DEF Number

(* The bits of a code (PutUNInBitstream) have its number. *)
LEMMA NumberOfCode ==
  ASSUME NEW v \in Nat, NEW n \in 0..20, v < Two(n)
  PROVE  BitsOf(v, n) \in Bits /\ Len(BitsOf(v, n)) = n /\ Number(BitsOf(v, n)) = v
<1> DEFINE b == BitsOf(v, n)
           Top(j) == v \div Two(n - j)
<1>1. \A i \in 1..n : b[i] = Top(i) % 2 /\ Top(i) \in Nat
  <2> TAKE i \in 1..n
  <2>1. ~ (n - i > 30) /\ n - i \in 0..32
    OBVIOUS
  <2>2. b[i] = Top(i) % 2
    BY <2>1 DEF BitsOf, Two
  <2>3. Two(n - i) \in Nat /\ Two(n - i) > 0
    BY <2>1, Doubling
  <2> QED BY <2>2, <2>3, Division
<1>2. b = [i \in 1..n |-> b[i]]
  BY DEF BitsOf
<1>3. b \in Bits /\ Len(b) = n
  <2>1. \A i \in 1..n : b[i] \in Bit
    <3> HIDE DEF b, Top
    <3> QED BY <1>1 DEF Bit
  <2> HIDE DEF b
  <2>2. b \in [1..n -> Bit] /\ n \in Nat
    BY <1>2, <2>1
  <2> QED BY <2>2 DEF Bits
<1> HIDE DEF b
<1> DEFINE T == {j \in Nat : j <= n => Fetch(b, 0, j) = Top(j)}
<1>4. 0 \in T
  <2>1. n - 0 = n /\ n \in 0..32
    OBVIOUS
  <2>2. Two(n) \in Nat /\ Two(n) > 0 /\ v = 0 * Two(n) + v
    BY <2>1, Doubling
  <2>3. v \div Two(n) = 0
    BY <2>2, QuotientIs
  <2> QED BY <2>1, <2>3, FetchNone
<1>5. ASSUME NEW j \in Nat, j \in T PROVE j + 1 \in T
  <2> SUFFICES ASSUME j + 1 <= n PROVE Fetch(b, 0, j + 1) = Top(j + 1)
    OBVIOUS
  <2> DEFINE p == Two(n - (j + 1))
  <2>1. n - j = (n - (j + 1)) + 1 /\ n - (j + 1) \in 0..31 /\ n - (j + 1) \in 0..32
    OBVIOUS
  <2>2. Two(n - j) = 2 * p /\ p \in Nat /\ p > 0
    BY <2>1, Doubling
  <2>3. Fetch(b, 0, j + 1) = 2 * Fetch(b, 0, j) + BitAt(b, 0 + (j + 1))
    BY FetchNext
  <2>4. Fetch(b, 0, j) = v \div (2 * p)
    BY <1>5, <2>2
  <2>5. BitAt(b, 0 + (j + 1)) = (v \div p) % 2
    <3>1. j + 1 \in 1..n /\ 0 + (j + 1) = j + 1
      OBVIOUS
    <3> QED BY <1>1, <1>3, <3>1 DEF BitAt
  <2> HIDE DEF p, Top
  <2> DEFINE q == v \div p
             r == v % p
             a == q \div 2
             e == q % 2
  <2>6. q \in Nat /\ r \in 0 .. (p - 1) /\ v = q * p + r
    BY <2>2, Division
  <2>7. a \in Nat /\ e \in {0, 1} /\ q = 2 * a + e
    <3> HIDE DEF q
    <3> QED BY <2>6
  <2> HIDE DEF q, r, a, e
  <2>8. v \div (2 * p) = a
    <3> DEFINE pp == 2 * p
               rr == e * p + r
    <3>1. pp \in Nat /\ pp > 0 /\ rr \in Nat /\ rr < pp
      BY <2>2, <2>6, <2>7
    <3>2. v = a * pp + rr
      <4>1. q * p = (2 * a) * p + e * p
        BY <2>2, <2>7
      <4>2. (2 * a) * p = a * (2 * p)
        BY <2>2, <2>7
      <4> QED BY <2>6, <2>7, <2>2, <4>1, <4>2
    <3> HIDE DEF pp, rr
    <3>3. v \div pp = a
      BY <2>7, <3>1, <3>2, QuotientIs
    <3> QED BY <3>3 DEF pp
  <2>9. Top(j + 1) = q
    BY DEF Top, q, p
  <2>10. (v \div p) % 2 = e
    BY DEF e, q
  <2> QED BY <2>3, <2>4, <2>5, <2>7, <2>8, <2>9, <2>10
<1> HIDE DEF T
<1>6. Nat \subseteq T
  BY <1>4, <1>5, NaturalsOf
<1>7. Fetch(b, 0, n) = Top(n)
  BY <1>6 DEF T
<1>8. Top(n) = v
  <2>1. Two(n - n) = 1
    <3>1. n - n = 0
      OBVIOUS
    <3> QED BY <3>1, Powers
  <2> QED BY <2>1
<1> HIDE DEF Top
<1> QED BY <1>3, <1>7, <1>8 DEF Number, b

(* The bits of a sequence of codes.                                        *)
ShortCodes == {v \in Nat \X (0..20) : v[1] <= Two(v[2]) - 1}

BitsOfCode(v) == BitsOf(v[1], v[2])

Stream(codes) == FlattenSeq([i \in DOMAIN codes |-> BitsOf(codes[i][1], codes[i][2])])

IsFlat(f, seqs, n) == f = [i \in 1..n |-> IF i = 1 THEN seqs[i] ELSE f[i-1] \o seqs[i]]

(* The function in FlattenSeq is defined. *)
LEMMA FlatExists ==
  ASSUME NEW seqs, NEW n \in Nat
  PROVE  \E f : IsFlat(f, seqs, n)
<1> DEFINE T == {m \in Nat : \E f : IsFlat(f, seqs, m)}
<1>1. 0 \in T
  <2>1. IsFlat([i \in 1..0 |-> 0], seqs, 0)
    BY DEF IsFlat
  <2> QED BY <2>1
<1>2. ASSUME NEW m \in Nat, m \in T PROVE m + 1 \in T
  <2>1. PICK f : IsFlat(f, seqs, m)
    BY <1>2
  <2> DEFINE g == [i \in 1..(m + 1) |-> IF i = 1 THEN seqs[i] ELSE f[i-1] \o seqs[i]]
  <2>2. \A i \in 1..m : g[i] = f[i]
    <3> TAKE i \in 1..m
    <3>1. f[i] = IF i = 1 THEN seqs[i] ELSE f[i-1] \o seqs[i]
      BY <2>1 DEF IsFlat
    <3>2. i \in 1..(m + 1)
      OBVIOUS
    <3>3. g[i] = IF i = 1 THEN seqs[i] ELSE f[i-1] \o seqs[i]
      BY <3>2, Zenon
    <3> QED BY <3>1, <3>3, Zenon
  <2>3. \A i \in 1..(m + 1) : g[i] = IF i = 1 THEN seqs[i] ELSE f[i-1] \o seqs[i]
    OBVIOUS
  <2>4. g = [i \in 1..(m + 1) |-> g[i]]
    OBVIOUS
  <2> HIDE DEF g
  <2>5. \A i \in 1..(m + 1) : g[i] = IF i = 1 THEN seqs[i] ELSE g[i-1] \o seqs[i]
    <3> TAKE i \in 1..(m + 1)
    <3>1. CASE i = 1
      BY <2>3, <3>1
    <3>2. CASE i # 1
      <4>1. i - 1 \in 1..m
        BY <3>2
      <4>2. g[i-1] = f[i-1]
        BY <2>2, <4>1
      <4> QED BY <2>3, <3>2, <4>2
    <3> QED BY <3>1, <3>2
  <2>6. IsFlat(g, seqs, m + 1)
    <3> DEFINE Item(i) == IF i = 1 THEN seqs[i] ELSE g[i-1] \o seqs[i]
    <3>1. \A i \in 1..(m + 1) : g[i] = Item(i)
      BY <2>5, Zenon
    <3>2. g = [i \in 1..(m + 1) |-> Item(i)]
      <4> HIDE DEF Item
      <4> QED BY <2>4, <3>1
    <3> QED BY <3>2 DEF IsFlat
  <2> QED BY <2>6
<1> HIDE DEF T
<1>3. Nat \subseteq T
  BY <1>1, <1>2, NaturalsOf
<1> QED BY <1>3 DEF T

(* FlattenSeq takes the last value of a function with its equation. *)
LEMMA FlatIs ==
  ASSUME NEW seqs, Len(seqs) \in Nat, Len(seqs) # 0
  PROVE  \E f : IsFlat(f, seqs, Len(seqs)) /\ FlattenSeq(seqs) = f[Len(seqs)]
<1> DEFINE f == CHOOSE ff : IsFlat(ff, seqs, Len(seqs))
<1>1. IsFlat(f, seqs, Len(seqs))
  BY FlatExists
<1>2. FlattenSeq(seqs) = f[Len(seqs)]
  BY Zenon DEF FlattenSeq, IsFlat
<1> HIDE DEF f
<1> QED BY <1>1, <1>2

(* One sequence more is appended. *)
LEMMA FlattenNext ==
  ASSUME NEW S, NEW s \in Seq(Seq(S)), NEW x \in Seq(S)
  PROVE  FlattenSeq(Append(s, x)) = FlattenSeq(s) \o x
<1> DEFINE t == Append(s, x)
           n == Len(s)
<1>1. /\ t \in Seq(Seq(S)) /\ Len(t) = n + 1 /\ n \in Nat /\ t[n + 1] = x
      /\ \A i \in 1..n : t[i] = s[i]
  OBVIOUS
<1> HIDE DEF t
<1>2. PICK g : IsFlat(g, t, n + 1) /\ FlattenSeq(t) = g[n + 1]
  <2>1. Len(t) \in Nat /\ Len(t) # 0
    BY <1>1
  <2> QED BY <1>1, <2>1, FlatIs
<1>3. CASE n = 0
  <2>1. FlattenSeq(t) = x
    <3>1. n + 1 = 1
      BY <1>3
    <3>2. 1 \in 1..1
      OBVIOUS
    <3> QED BY <1>1, <1>2, <3>1, <3>2 DEF IsFlat
  <2>2. s = <<>>
    BY <1>3
  <2>3. FlattenSeq(s) = <<>>
    <3>1. Len(s) = 0
      BY <1>3
    <3> QED BY <2>2, <3>1, Zenon DEF FlattenSeq
  <2> QED BY <2>1, <2>3 DEF t
<1>4. CASE n # 0
  <2>1. PICK f : IsFlat(f, s, n) /\ FlattenSeq(s) = f[n]
    BY <1>1, <1>4, FlatIs
  <2> DEFINE T == {k \in Nat : k \in 1..n => f[k] = g[k]}
  <2>2. 0 \in T
    OBVIOUS
  <2>3. ASSUME NEW k \in Nat, k \in T PROVE k + 1 \in T
    <3> SUFFICES ASSUME k + 1 \in 1..n PROVE f[k + 1] = g[k + 1]
      OBVIOUS
    <3>1. k + 1 \in 1..(n + 1) /\ (k + 1) - 1 = k /\ t[k + 1] = s[k + 1]
      BY <1>1
    <3>2. f[k + 1] = IF k + 1 = 1 THEN s[k + 1] ELSE f[k] \o s[k + 1]
      BY <2>1, <3>1 DEF IsFlat
    <3>3. g[k + 1] = IF k + 1 = 1 THEN t[k + 1] ELSE g[k] \o t[k + 1]
      BY <1>2, <3>1 DEF IsFlat
    <3>4. CASE k + 1 = 1
      BY <3>1, <3>2, <3>3, <3>4
    <3>5. CASE k + 1 # 1
      <4>1. k \in 1..n
        BY <1>1, <3>5
      <4>2. f[k] = g[k]
        BY <2>3, <4>1
      <4> QED BY <3>1, <3>2, <3>3, <3>5, <4>2
    <3> QED BY <3>4, <3>5
  <2> HIDE DEF T
  <2>4. Nat \subseteq T
    BY <2>2, <2>3, NaturalsOf
  <2>5. f[n] = g[n]
    <3>1. n \in 1..n
      BY <1>1, <1>4
    <3> QED BY <1>1, <2>4, <3>1 DEF T
  <2>6. g[n + 1] = g[n] \o x
    <3>1. n + 1 \in 1..(n + 1) /\ (n + 1) - 1 = n /\ n + 1 # 1
      BY <1>1, <1>4
    <3> QED BY <1>1, <1>2, <3>1 DEF IsFlat
  <2> QED BY <1>2, <2>1, <2>5, <2>6 DEF t
<1> QED BY <1>3, <1>4

(* Nothing flattened is nothing. *)
LEMMA FlattenNone == FlattenSeq(<<>>) = <<>>
<1>1. Len(<<>>) = 0
  OBVIOUS
<1> QED BY <1>1, Zenon DEF FlattenSeq

(* The bits of one code more follow the others. *)
LEMMA StreamNext ==
  ASSUME NEW codes \in Seq(ShortCodes), NEW x \in ShortCodes
  PROVE  Stream(Append(codes, x)) = Stream(codes) \o BitsOf(x[1], x[2])
<1> DEFINE parts(s) == [i \in DOMAIN s |-> BitsOf(s[i][1], s[i][2])]
           t == Append(codes, x)
           n == Len(codes)
<1>0. \A v \in ShortCodes : BitsOf(v[1], v[2]) \in Bits
  <2> TAKE v \in ShortCodes
  <2>1. v[1] \in Nat /\ v[2] \in 0..20 /\ v[1] <= Two(v[2]) - 1
    BY DEF ShortCodes
  <2>2. v[1] < Two(v[2])
    <3> DEFINE m == v[2]
               u == v[1]
    <3>1. m \in 0..32 /\ u \in Nat /\ u <= Two(m) - 1
      BY <2>1
    <3> HIDE DEF m, u
    <3>2. Two(m) \in Nat
      BY <3>1, Doubling
    <3>3. u < Two(m)
      BY <3>1, <3>2
    <3> QED BY <3>3 DEF m, u
  <2> QED BY <2>1, <2>2, NumberOfCode
<1>1. \A s \in Seq(ShortCodes) : parts(s) \in Seq(Bits) /\ Len(parts(s)) = Len(s)
  <2> TAKE s \in Seq(ShortCodes)
  <2>1. \A i \in 1..Len(s) : BitsOf(s[i][1], s[i][2]) \in Bits
    BY <1>0
  <2>2. DOMAIN s = 1..Len(s) /\ Len(s) \in Nat
    OBVIOUS
  <2>3. parts(s) \in [1..Len(s) -> Bits]
    BY <2>1, <2>2, Zenon
  <2> HIDE DEF parts
  <2> QED BY <2>2, <2>3
<1>2. t \in Seq(ShortCodes) /\ Len(t) = n + 1 /\ n \in Nat /\ t[n + 1] = x
      /\ DOMAIN t = 1..(n + 1) /\ DOMAIN codes = 1..n
      /\ \A i \in 1..n : t[i] = codes[i]
  OBVIOUS
<1>3. parts(t) = Append(parts(codes), BitsOf(x[1], x[2]))
  <2>1. parts(t) \in Seq(Bits) /\ Len(parts(t)) = n + 1
    BY <1>1, <1>2
  <2>2. parts(codes) \in Seq(Bits) /\ Len(parts(codes)) = n
    BY <1>1
  <2>3. \A i \in 1..n : parts(t)[i] = parts(codes)[i]
    <3> HIDE DEF t, n
    <3> QED BY <1>2
  <2>4. parts(t)[n + 1] = BitsOf(x[1], x[2])
    <3> HIDE DEF t, n
    <3> QED BY <1>2
  <2>5. BitsOf(x[1], x[2]) \in Bits
    BY <1>0
  <2> DEFINE p == parts(t)
             q == parts(codes)
             b == BitsOf(x[1], x[2])
  <2>6. p \in Seq(Bits) /\ Len(p) = n + 1 /\ q \in Seq(Bits) /\ Len(q) = n /\ b \in Bits
        /\ (\A i \in 1..n : p[i] = q[i]) /\ p[n + 1] = b /\ n \in Nat
    BY <1>2, <2>1, <2>2, <2>3, <2>4, <2>5
  <2> HIDE DEF p, q, b, n, parts
  <2>7. p = Append(q, b)
    BY <2>6
  <2> QED BY <2>7 DEF p, q, b
<1>4. BitsOf(x[1], x[2]) \in Seq(Bit) /\ parts(codes) \in Seq(Seq(Bit))
  BY <1>0, <1>1 DEF Bits
<1> HIDE DEF parts
<1>5. FlattenSeq(parts(t)) = FlattenSeq(parts(codes)) \o BitsOf(x[1], x[2])
  BY <1>3, <1>4, FlattenNext
<1> QED BY <1>5, Zenon DEF Stream, parts

(* No codes have no bits. *)
LEMMA StreamNone == Stream(<<>>) = <<>>
<1>1. [i \in DOMAIN <<>> |-> BitsOf(<<>>[i][1], <<>>[i][2])] = <<>>
  OBVIOUS
<1> QED BY <1>1, FlattenNone, Zenon DEF Stream

ByteCodes == (0..255) \X {BYTE}

Num(codes) == Number(Stream(codes))
Size(codes) == Len(Stream(codes))

(* Bytes are short codes. *)
LEMMA ByteCodesShort == ByteCodes \subseteq ShortCodes
<1> SUFFICES ASSUME NEW v \in ByteCodes PROVE v \in ShortCodes
  OBVIOUS
<1>1. v = <<v[1], BYTE>> /\ v[1] \in 0..255 /\ v[2] = 8
  BY DEF ByteCodes, BYTE
<1>2. v \in Nat \X (0..20)
  BY <1>1 DEF ByteCodes, BYTE
<1>3. v[1] <= Two(v[2]) - 1
  BY <1>1, Powers
<1> QED BY <1>2, <1>3 DEF ShortCodes

(* Codes make a stream of bits. *)
LEMMA StreamIn ==
  ASSUME NEW codes, codes \in Seq(ShortCodes)
  PROVE  Stream(codes) \in Bits
<1> DEFINE T == {n \in Nat : \A s \in Seq(ShortCodes) : Len(s) = n => Stream(s) \in Bits}
<1>1. 0 \in T
  <2> SUFFICES ASSUME NEW s \in Seq(ShortCodes), Len(s) = 0 PROVE Stream(s) \in Bits
    OBVIOUS
  <2>1. s = <<>>
    OBVIOUS
  <2>2. Stream(s) = <<>>
    BY <2>1, StreamNone, Zenon
  <2> QED BY <2>2 DEF Bits
<1>2. ASSUME NEW n \in Nat, n \in T PROVE n + 1 \in T
  <2> SUFFICES ASSUME NEW s \in Seq(ShortCodes), Len(s) = n + 1 PROVE Stream(s) \in Bits
    OBVIOUS
  <2> DEFINE t == SubSeq(s, 1, n)
             x == s[n + 1]
  <2>1. t \in Seq(ShortCodes) /\ x \in ShortCodes /\ Len(t) = n /\ s = Append(t, x)
    OBVIOUS
  <2> HIDE DEF t, x
  <2>2. Stream(s) = Stream(t) \o BitsOf(x[1], x[2])
    BY <2>1, StreamNext
  <2>3. Stream(t) \in Bits
    BY <1>2, <2>1
  <2>4. BitsOf(x[1], x[2]) \in Bits
    <3> DEFINE v == x[1]
               m == x[2]
    <3>1. v \in Nat /\ m \in 0..20 /\ v <= Two(m) - 1 /\ m \in 0..32
      BY <2>1 DEF ShortCodes
    <3> HIDE DEF v, m
    <3>2. Two(m) \in Nat
      BY <3>1, Doubling
    <3>3. v < Two(m)
      BY <3>1, <3>2
    <3>4. BitsOf(v, m) \in Bits
      BY <3>1, <3>3, NumberOfCode
    <3> QED BY <3>4 DEF v, m
  <2> QED BY <2>2, <2>3, <2>4 DEF Bits
<1> HIDE DEF T
<1>3. Nat \subseteq T
  BY <1>1, <1>2, NaturalsOf
<1>4. Len(codes) \in Nat
  OBVIOUS
<1> QED BY <1>3, <1>4 DEF T

(* One code more.                                                          *)
LEMMA StreamMore ==
  ASSUME NEW codes \in Seq(ShortCodes), NEW v \in Nat, NEW n \in 0..20, v < Two(n)
  PROVE  /\ Num(Append(codes, <<v, n>>)) = Num(codes) * Two(n) + v
         /\ Size(Append(codes, <<v, n>>)) = Size(codes) + n
         /\ Num(codes) \in Nat /\ Size(codes) \in Nat
<1> DEFINE x == <<v, n>>
           s == Stream(codes)
           t == BitsOf(v, n)
<1>1. x \in ShortCodes
  <2>1. n \in 0..32
    OBVIOUS
  <2>2. Two(n) \in Nat
    BY <2>1, Doubling
  <2>3. v <= Two(n) - 1
    BY <2>2
  <2>4. x \in Nat \X (0..20) /\ x[1] = v /\ x[2] = n
    OBVIOUS
  <2> HIDE DEF x
  <2> QED BY <2>3, <2>4, Zenon DEF ShortCodes
<1>2. Stream(Append(codes, x)) = s \o t
  <2>1. x[1] = v /\ x[2] = n
    OBVIOUS
  <2> HIDE DEF x
  <2> QED BY <1>1, <2>1, StreamNext
<1>3. s \in Bits
  BY StreamIn
<1>4. t \in Bits /\ Len(t) = n /\ Number(t) = v
  BY NumberOfCode
<1> HIDE DEF s, t, x
<1>5. Len(s \o t) = Len(s) + n /\ Number(s \o t) = Number(s) * Two(n) + v
  BY <1>3, <1>4, NumberOfBoth
<1> QED BY <1>2, <1>3, <1>5, NumberIn DEF Num, Size, s, x

ByteStreams == Seq(ByteCodes)

Extended(codes, b) == Append(codes, <<b, BYTE>>)

(* One byte more. *)
LEMMA ByteMore ==
  ASSUME NEW codes, codes \in ByteStreams, NEW b, b \in 0..255
  PROVE  /\ Extended(codes, b) \in ByteStreams
         /\ Num(Extended(codes, b)) = 256 * Num(codes) + b
         /\ Size(Extended(codes, b)) = Size(codes) + 8
         /\ Num(codes) \in Nat /\ Size(codes) \in Nat
<1>1. codes \in Seq(ShortCodes)
  BY ByteCodesShort DEF ByteStreams
<1>2. Two(8) = 256
  BY Powers
<1> DEFINE n == BYTE
<1>3. n = 8 /\ n \in 0..20
  BY DEF BYTE
<1>4. b \in Nat /\ b < 256
  OBVIOUS
<1>5. <<b, n>> \in ByteCodes
  BY DEF ByteCodes
<1> HIDE DEF n
<1>6. Two(n) = 256
  BY <1>2, <1>3
<1>7. b < Two(n)
  BY <1>4, <1>6
<1>8. /\ Num(Append(codes, <<b, n>>)) = Num(codes) * Two(n) + b
      /\ Size(Append(codes, <<b, n>>)) = Size(codes) + n
      /\ Num(codes) \in Nat /\ Size(codes) \in Nat
  BY <1>1, <1>3, <1>4, <1>7, StreamMore
<1>9. /\ Num(Append(codes, <<b, n>>)) = 256 * Num(codes) + b
      /\ Size(Append(codes, <<b, n>>)) = Size(codes) + 8
  BY <1>3, <1>6, <1>8
<1>10. Append(codes, <<b, n>>) \in ByteStreams
  BY <1>5 DEF ByteStreams
<1> QED BY <1>8, <1>9, <1>10 DEF n, Extended

(* The number and the size of nothing. *)
LEMMA NoBytes == Num(<<>>) = 0 /\ Size(<<>>) = 0
<1>1. Len(<<>>) = 0
  OBVIOUS
<1> QED BY <1>1, StreamNone, FetchNone DEF Num, Size, Number

(* A byte and others of one value behind it.                               *)
Run(codes, first, rest, k) == Extended(codes, first) \o [i \in 1..k |-> <<rest, BYTE>>]

(* No bytes behind the first. *)
LEMMA RunNone ==
  ASSUME NEW codes, codes \in ByteStreams, NEW first, first \in 0..255, NEW rest, NEW k, k \in Int, k <= 0
  PROVE  Run(codes, first, rest, k) = Extended(codes, first)
<1> DEFINE s == Extended(codes, first)
           t == [i \in 1..k |-> <<rest, BYTE>>]
<1>1. s \in ByteStreams
  BY ByteMore
<1>2. t = <<>>
  <2>1. 1..k = {}
    OBVIOUS
  <2> QED BY <2>1
<1> HIDE DEF s, t
<1>3. s \o t = s
  BY <1>1, <1>2 DEF ByteStreams
<1> QED BY <1>3 DEF Run, s, t

(* One byte more behind the first. *)
LEMMA RunNext ==
  ASSUME NEW codes, codes \in ByteStreams, NEW first, first \in 0..255, NEW rest, rest \in 0..255, NEW k, k \in Nat
  PROVE  /\ Run(codes, first, rest, k) \in ByteStreams
         /\ Run(codes, first, rest, k + 1) = Extended(Run(codes, first, rest, k), rest)
<1> DEFINE s == Extended(codes, first)
           x == <<rest, BYTE>>
           t == [i \in 1..k |-> x]
           u == [i \in 1..(k + 1) |-> x]
<1>1. s \in ByteStreams
  BY ByteMore
<1>2. x \in ByteCodes
  BY DEF ByteCodes
<1>3. t \in ByteStreams /\ u = Append(t, x)
  <2> HIDE DEF x
  <2> QED BY <1>2 DEF ByteStreams
<1>4. Run(codes, first, rest, k) = s \o t /\ Run(codes, first, rest, k + 1) = s \o u
  BY DEF Run
<1> HIDE DEF s, t, u, x
<1>5. s \o t \in ByteStreams /\ s \o u = Append(s \o t, x)
  BY <1>1, <1>2, <1>3 DEF ByteStreams
<1> QED BY <1>4, <1>5 DEF x, Extended

(* A carry turns the 0xff bytes behind a byte into zeros and adds one to it. *)
LEMMA Carrying ==
  ASSUME NEW codes \in ByteStreams, NEW b \in 0..254, NEW k \in Nat
  PROVE  /\ Num(Run(codes, b + 1, 0, k)) = Num(Run(codes, b, 255, k)) + 1
         /\ Size(Run(codes, b + 1, 0, k)) = Size(Run(codes, b, 255, k))
<1> DEFINE more == b + 1
           none == 0
           full == 255
           P(m) == Run(codes, more, none, m)
           Q(m) == Run(codes, b, full, m)
           T == {m \in Nat : Num(P(m)) = Num(Q(m)) + 1 /\ Size(P(m)) = Size(Q(m))}
<1>0. b \in 0..255 /\ more \in 0..255 /\ none \in 0..255 /\ full \in 0..255
  OBVIOUS
<1>9. more = b + 1 /\ none = 0 /\ full = 255
  OBVIOUS
<1> HIDE DEF more, none, full, T
<1>1. none \in T
  <2>0. none \in Int /\ none <= 0
    BY <1>9
  <2>1. P(none) = Extended(codes, more) /\ Q(none) = Extended(codes, b)
    BY <1>0, <2>0, RunNone
  <2> HIDE DEF P, Q
  <2>20. Num(Extended(codes, more)) = 256 * Num(codes) + more
         /\ Size(Extended(codes, more)) = Size(codes) + 8
    BY <1>0, ByteMore
  <2>2. Num(P(none)) = 256 * Num(codes) + more /\ Size(P(none)) = Size(codes) + 8
    BY <2>1, <2>20
  <2>30. Num(Extended(codes, b)) = 256 * Num(codes) + b
         /\ Size(Extended(codes, b)) = Size(codes) + 8
    BY <1>0, ByteMore
  <2>31. Num(codes) \in Nat
    BY <1>0, ByteMore
  <2>3. Num(Q(none)) = 256 * Num(codes) + b /\ Size(Q(none)) = Size(codes) + 8 /\ Num(codes) \in Nat
    BY <2>1, <2>30, <2>31
  <2>4. none \in Nat /\ Num(P(none)) = Num(Q(none)) + 1 /\ Size(P(none)) = Size(Q(none))
    BY <1>0, <1>9, <2>2, <2>3
  <2> QED BY <2>4 DEF T
<1>2. ASSUME NEW m \in Nat, m \in T PROVE m + 1 \in T
  <2>0. /\ Run(codes, more, none, m) \in ByteStreams
        /\ Run(codes, more, none, m + 1) = Extended(Run(codes, more, none, m), none)
    BY <1>0, RunNext
  <2>7. /\ Run(codes, b, full, m) \in ByteStreams
        /\ Run(codes, b, full, m + 1) = Extended(Run(codes, b, full, m), full)
    BY <1>0, RunNext
  <2>1. P(m) \in ByteStreams /\ P(m + 1) = Extended(P(m), none)
    BY <2>0
  <2>2. Q(m) \in ByteStreams /\ Q(m + 1) = Extended(Q(m), full)
    BY <2>7
  <2>5. Num(P(m)) = Num(Q(m)) + 1 /\ Size(P(m)) = Size(Q(m))
    BY <1>2 DEF T
  <2> HIDE DEF P, Q
  <2>30. Num(Extended(P(m), none)) = 256 * Num(P(m)) + none
         /\ Size(Extended(P(m), none)) = Size(P(m)) + 8
    BY <1>0, <2>1, ByteMore
  <2>3. Num(P(m + 1)) = 256 * Num(P(m)) + none /\ Size(P(m + 1)) = Size(P(m)) + 8
    BY <2>1, <2>30
  <2>40. Num(Extended(Q(m), full)) = 256 * Num(Q(m)) + full
         /\ Size(Extended(Q(m), full)) = Size(Q(m)) + 8
    BY <1>0, <2>2, ByteMore
  <2>41. Num(Q(m)) \in Nat
    BY <1>0, <2>2, ByteMore
  <2>4. Num(Q(m + 1)) = 256 * Num(Q(m)) + full /\ Size(Q(m + 1)) = Size(Q(m)) + 8 /\ Num(Q(m)) \in Nat
    BY <2>2, <2>40, <2>41
  <2>6. Num(P(m + 1)) = Num(Q(m + 1)) + 1 /\ Size(P(m + 1)) = Size(Q(m + 1))
    BY <1>0, <1>9, <2>3, <2>4, <2>5
  <2> QED BY <2>6 DEF T
<1>3. Nat \subseteq T
  BY <1>9, <1>1, <1>2, NaturalsOf
<1> QED BY <1>3 DEF T, more, none, full

(* What has left the register: the codes written, and the bytes held back. *)
HeldBack(codes, buffer, numByte) ==
  IF numByte = 0 THEN codes ELSE Run(codes, buffer, 255, numByte - 1)

(* A 0xff byte that leaves the register is held back with the others. *)
LEMMA HoldingMore ==
  ASSUME NEW codes, codes \in ByteStreams, NEW buffer, buffer \in 0..255, NEW numByte, numByte \in Nat,
         numByte = 0 => buffer = 255
  PROVE  /\ HeldBack(codes, buffer, numByte) \in ByteStreams
         /\ HeldBack(codes, buffer, numByte + 1) = Extended(HeldBack(codes, buffer, numByte), 255)
<1> DEFINE full == 255
           none == 0
<1>0. full \in 0..255 /\ none \in Int /\ none <= 0
  OBVIOUS
<1>1. HeldBack(codes, buffer, numByte + 1) = Run(codes, buffer, full, numByte)
  <2>1. numByte + 1 # 0 /\ (numByte + 1) - 1 = numByte
    OBVIOUS
  <2> QED BY <2>1 DEF HeldBack
<1> HIDE DEF full, none
<1>2. CASE numByte = none
  <2>1. HeldBack(codes, buffer, numByte) = codes /\ buffer = full
    BY <1>2 DEF HeldBack, none, full
  <2>2. Run(codes, buffer, full, none) = Extended(codes, buffer)
    BY <1>0, RunNone
  <2>3. HeldBack(codes, buffer, numByte) \in ByteStreams
    BY <2>1
  <2>4. HeldBack(codes, buffer, numByte + 1) = Extended(HeldBack(codes, buffer, numByte), full)
    BY <1>1, <1>2, <2>1, <2>2
  <2> QED BY <2>3, <2>4 DEF full
<1>3. CASE numByte # none
  <2> DEFINE k == numByte - 1
  <2>1. k \in Nat
    BY <1>3 DEF none
  <2>7. k + 1 = numByte
    OBVIOUS
  <2>2. HeldBack(codes, buffer, numByte) = Run(codes, buffer, full, k)
    BY <1>3 DEF HeldBack, none, full
  <2> HIDE DEF k
  <2>3. Run(codes, buffer, full, k) \in ByteStreams
    BY <1>0, <2>1, RunNext
  <2>4. Run(codes, buffer, full, k + 1) = Extended(Run(codes, buffer, full, k), full)
    BY <1>0, <2>1, RunNext
  <2>5. HeldBack(codes, buffer, numByte) \in ByteStreams
    BY <2>2, <2>3
  <2>6. HeldBack(codes, buffer, numByte + 1) = Extended(HeldBack(codes, buffer, numByte), full)
    BY <1>1, <2>7, <2>2, <2>4
  <2> QED BY <2>5, <2>6 DEF full
<1> QED BY <1>2, <1>3

(* What is written when a byte that is not 0xff follows. *)
Sent(codes, buffer, carry, numByte) ==
  IF numByte > 0 THEN Run(codes, buffer + carry, Outstanding(carry), numByte - 1) ELSE codes

(* What is written is the number of the bytes held back plus the carry. *)
LEMMA Sending ==
  ASSUME NEW codes, codes \in ByteStreams, NEW buffer, buffer \in 0..255, NEW numByte, numByte \in Nat,
         NEW carry, carry \in {0, 1}, carry = 1 => buffer # 255 /\ numByte > 0
  PROVE  /\ Sent(codes, buffer, carry, numByte) \in ByteStreams
         /\ Num(Sent(codes, buffer, carry, numByte)) = Num(HeldBack(codes, buffer, numByte)) + carry
         /\ Size(Sent(codes, buffer, carry, numByte)) = Size(HeldBack(codes, buffer, numByte))
<1> DEFINE full == 255
           none == 0
<1>0. full \in 0..255 /\ none \in 0..255
  OBVIOUS
<1> HIDE DEF full, none
<1>1. CASE numByte = 0
  <2>1. Sent(codes, buffer, carry, numByte) = codes /\ HeldBack(codes, buffer, numByte) = codes /\ carry = 0
    BY <1>1 DEF Sent, HeldBack
  <2>2. Num(codes) \in Nat
    BY <1>0, ByteMore
  <2> QED BY <2>1, <2>2
<1>2. CASE numByte > 0
  <2> DEFINE k == numByte - 1
  <2>1. k \in Nat
    BY <1>2
  <2>2. HeldBack(codes, buffer, numByte) = Run(codes, buffer, full, k)
    BY <1>2 DEF HeldBack, full
  <2>3. CASE carry = 0
    <3>1. buffer + carry = buffer /\ Outstanding(carry) = full
      BY <2>3 DEF Outstanding, full
    <3>2. Sent(codes, buffer, carry, numByte) = Run(codes, buffer, full, k)
      BY <1>2, <3>1 DEF Sent
    <3> HIDE DEF k
    <3> DEFINE s == Run(codes, buffer, full, k)
    <3>3. s \in ByteStreams
      BY <1>0, <2>1, RunNext
    <3> HIDE DEF s
    <3>4. Num(s) \in Nat
      BY <1>0, <3>3, ByteMore
    <3>5. Num(s) = Num(s) + carry
      BY <2>3, <3>4
    <3> QED BY <2>2, <3>2, <3>3, <3>5 DEF s
  <2>4. CASE carry = 1
    <3> DEFINE more == buffer + 1
    <3>0. more \in 0..255 /\ buffer \in 0..254
      BY <2>4
    <3>1. buffer + carry = more /\ Outstanding(carry) = none
      BY <2>4 DEF Outstanding, none
    <3>2. Sent(codes, buffer, carry, numByte) = Run(codes, more, none, k)
      BY <1>2, <3>1 DEF Sent
    <3>3. /\ Num(Run(codes, buffer + 1, 0, k)) = Num(Run(codes, buffer, 255, k)) + 1
          /\ Size(Run(codes, buffer + 1, 0, k)) = Size(Run(codes, buffer, 255, k))
      <4>1. buffer \in 0..254
        BY <3>0
      <4> HIDE DEF k, more
      <4>2. Num(Run(codes, buffer + 1, 0, k)) = Num(Run(codes, buffer, 255, k)) + 1
        BY <2>1, <4>1, Carrying
      <4>3. Size(Run(codes, buffer + 1, 0, k)) = Size(Run(codes, buffer, 255, k))
        BY <2>1, <4>1, Carrying
      <4> QED BY <4>2, <4>3
    <3>4. /\ Num(Run(codes, more, none, k)) = Num(Run(codes, buffer, full, k)) + carry
          /\ Size(Run(codes, more, none, k)) = Size(Run(codes, buffer, full, k))
      BY <2>4, <3>3 DEF full, none
    <3> HIDE DEF k, more
    <3>5. Run(codes, more, none, k) \in ByteStreams
      BY <1>0, <2>1, <3>0, RunNext
    <3> QED BY <2>2, <3>2, <3>4, <3>5
  <2> QED BY <2>3, <2>4
<1> QED BY <1>1, <1>2

(* The fields of the engine after a byte has left the register. *)
LEMMA Wrote ==
  ASSUME NEW c, Unwritten(c), c.bitsLeft < 12,
         NEW p, p = Two(24 - c.bitsLeft),
         NEW lead, lead = c.low \div p,
         NEW d, d = WriteOutputBitstream(c)
  PROVE  /\ d.low = c.low % p /\ d.bitsLeft = c.bitsLeft + 8 /\ d.range = c.range
         /\ lead = 255 => d.codes = c.codes /\ d.buffer = c.buffer /\ d.numByte = c.numByte + 1
         /\ lead # 255 => /\ d.codes = Sent(c.codes, c.buffer, lead \div 256, c.numByte)
                          /\ d.buffer = lead % 256 /\ d.numByte = 1
<1> DEFINE carry == lead \div 256
           low   == c.low % p
           rest  == [c EXCEPT !.bitsLeft = @ + 8, !.low = low]
           first == Put(rest, c.buffer + carry, BYTE)
           held  == PutBytes(first, Outstanding(carry), c.numByte - 1)
<1>1. c \in Engines /\ c.bitsLeft \in 4..11
  BY DEF Unwritten, Carries
<1>2. Masked(c.low, c.bitsLeft + 8) = low
  <2>1. 32 - (c.bitsLeft + 8) = 24 - c.bitsLeft
    BY <1>1
  <2> QED BY <2>1 DEF Masked, Two
<1>3. ~ (c.bitsLeft >= 12)
  BY <1>1
<1>4. c.low \div 2^(24 - c.bitsLeft) = lead
  BY DEF Two
<1> HIDE DEF low
<1>8. /\ c.low \in Nat /\ c.range \in Nat /\ c.bitsLeft \in Int /\ c.buffer \in 0..255
      /\ c.numByte \in Nat /\ c.codes \in Seq(Codes)
  BY <1>1, Fields
<1>10. rest = [low |-> low, range |-> c.range, bitsLeft |-> c.bitsLeft + 8, buffer |-> c.buffer,
               numByte |-> c.numByte, codes |-> c.codes]
  <2> DEFINE bl == c.bitsLeft + 8
  <2>1. rest = [c EXCEPT !.bitsLeft = bl, !.low = low]
    OBVIOUS
  <2>2. c \in Engines
    BY <1>1
  <2> HIDE DEF bl, rest
  <2>3. rest = [low |-> low, range |-> c.range, bitsLeft |-> bl, buffer |-> c.buffer,
                numByte |-> c.numByte, codes |-> c.codes]
    BY <2>1, <2>2 DEF Engines
  <2> QED BY <2>3 DEF bl
<1>5. /\ rest.low = low /\ rest.bitsLeft = c.bitsLeft + 8 /\ rest.range = c.range
      /\ rest.buffer = c.buffer /\ rest.numByte = c.numByte /\ rest.codes = c.codes
  BY <1>10
<1>6. CASE lead = 255
  <2>1. d = [rest EXCEPT !.numByte = @ + 1]
    BY <1>2, <1>3, <1>4, <1>6 DEF WriteOutputBitstream, IsOutstanding
  <2> HIDE DEF rest
  <2>2. /\ d.low = rest.low /\ d.bitsLeft = rest.bitsLeft /\ d.range = rest.range
        /\ d.codes = rest.codes /\ d.buffer = rest.buffer /\ d.numByte = rest.numByte + 1
    BY <1>5, <1>10, <2>1
  <2> QED BY <1>5, <1>10, <1>6, <2>2 DEF low
<1>7. CASE lead # 255
  <2> DEFINE old == IF c.numByte > 0 THEN held ELSE rest
  <2>1. d = [old EXCEPT !.numByte = 1, !.buffer = lead % 256]
    BY <1>2, <1>3, <1>4, <1>7, Zenon DEF WriteOutputBitstream, IsOutstanding
  <2>2. first = [rest EXCEPT !.codes = Append(@, <<c.buffer + carry, BYTE>>)]
    BY DEF Put
  <2>3. held = [first EXCEPT !.codes = @ \o [i \in 1..(c.numByte - 1) |-> <<Outstanding(carry), BYTE>>]]
    BY DEF PutBytes
  <2>4. held = [rest EXCEPT !.codes = Sent(c.codes, c.buffer, carry, c.numByte)] \/ ~ (c.numByte > 0)
    <3> SUFFICES ASSUME c.numByte > 0 PROVE held = [rest EXCEPT !.codes = Sent(c.codes, c.buffer, carry, c.numByte)]
      OBVIOUS
    <3> DEFINE s == Append(c.codes, <<c.buffer + carry, BYTE>>)
               t == [i \in 1..(c.numByte - 1) |-> <<Outstanding(carry), BYTE>>]
    <3>1. Sent(c.codes, c.buffer, carry, c.numByte) = s \o t
      BY DEF Sent, Run, Extended
    <3> HIDE DEF rest, held, first, carry
    <3>2. first = [rest EXCEPT !.codes = s]
      BY <1>5, <1>10, <2>2
    <3> HIDE DEF s
    <3>3. first.codes = s
      BY <1>5, <1>10, <3>2
    <3>4. held = [first EXCEPT !.codes = s \o t]
      BY <1>5, <1>10, <2>3, <3>2, <3>3
    <3> HIDE DEF t
    <3>5. held = [rest EXCEPT !.codes = s \o t]
      BY <1>5, <1>10, <3>2, <3>4
    <3> QED BY <3>1, <3>5
  <2> DEFINE sent == Sent(c.codes, c.buffer, carry, c.numByte)
  <2>5. old = [rest EXCEPT !.codes = sent]
    <3>1. CASE c.numByte > 0
      BY <2>4, <3>1
    <3>2. CASE ~ (c.numByte > 0)
      <4>1. sent = c.codes
        BY <3>2 DEF Sent
      <4>2. old = rest
        BY <3>2
      <4> HIDE DEF sent, old, rest
      <4> QED BY <1>5, <1>10, <4>1, <4>2
    <3> QED BY <3>1, <3>2
  <2> DEFINE byte == lead % 256
  <2>6. d = [[rest EXCEPT !.codes = sent] EXCEPT !.numByte = 1, !.buffer = byte]
    BY <2>1, <2>5
  <2> HIDE DEF rest, sent, old, byte
  <2>7. /\ d.low = rest.low /\ d.bitsLeft = rest.bitsLeft /\ d.range = rest.range
        /\ d.codes = sent /\ d.buffer = byte /\ d.numByte = 1
    BY <1>5, <1>10, <2>6
  <2> QED BY <1>5, <1>10, <1>7, <2>7 DEF low, sent, byte
<1> QED BY <1>6, <1>7

(* The number formed by all that has been coded, and how many bits it has: *)
(* the codes written, the bytes held back and the register.                *)
HeldCodes(c) == HeldBack(c.codes, c.buffer, c.numByte)
Value(c)     == Num(HeldCodes(c)) * Two(32 - c.bitsLeft) + c.low
ReadBits(c)  == Size(HeldCodes(c)) + (32 - c.bitsLeft)

(* The bytes that have left the register are bytes. *)
LEMMA HeldCodesIn ==
  ASSUME NEW c, c.codes \in ByteStreams, c.buffer \in 0..255, c.numByte \in Nat,
         c.numByte = 0 => c.buffer = 255
  PROVE  /\ HeldCodes(c) \in ByteStreams
         /\ Num(HeldCodes(c)) \in Nat /\ Size(HeldCodes(c)) \in Nat
<1> DEFINE codes  == c.codes
           buffer == c.buffer
           many   == c.numByte
           held   == HeldBack(codes, buffer, many)
           some   == 0
<1>1. codes \in ByteStreams /\ buffer \in 0..255 /\ many \in Nat /\ some \in 0..255
  OBVIOUS
<1>2. many = 0 => buffer = 255
  OBVIOUS
<1>3. HeldCodes(c) = held
  BY DEF HeldCodes
<1> HIDE DEF codes, buffer, many, some
<1>4. held \in ByteStreams
  BY <1>1, <1>2, HoldingMore
<1> HIDE DEF held
<1>5. Num(held) \in Nat
  BY <1>1, <1>4, ByteMore
<1>6. Size(held) \in Nat
  BY <1>1, <1>4, ByteMore
<1> QED BY <1>3, <1>4, <1>5, <1>6

(* WriteOutputBitstream changes neither the number nor its size. *)
LEMMA WritingKeeps ==
  ASSUME NEW c, Unwritten(c), c.codes \in ByteStreams,
         NEW d, d = WriteOutputBitstream(c)
  PROVE  /\ d.codes \in ByteStreams
         /\ Value(d) = Value(c)
         /\ ReadBits(d) = ReadBits(c)
<1>1. /\ c \in Engines /\ c.bitsLeft \in 4..23
      /\ c.numByte = 0 => c.buffer = 255
  BY DEF Unwritten, Carries
<1>2. /\ c.low \in Nat /\ c.buffer \in 0..255 /\ c.numByte \in Nat
  BY <1>1, Fields
<1>3. CASE c.bitsLeft >= 12
  <2>1. d = c
    <3>1. ~ (c.bitsLeft < 12)
      BY <1>1, <1>3
    <3> QED BY <1>3, <3>1 DEF WriteOutputBitstream
  <2> QED BY <2>1
<1>4. CASE c.bitsLeft < 12
  <2> DEFINE p    == Two(24 - c.bitsLeft)
             lead == c.low \div p
             low  == c.low % p
             held == HeldCodes(c)
  <2>1. /\ p \in Nat /\ lead \in Nat /\ low \in Nat
        /\ c.low = lead * p + low /\ lead < 256 * Room(c)
    <3>1. /\ p \in Nat /\ p >= 8192 /\ lead \in Nat
          /\ low \in 0 .. (p - 1)
          /\ c.low = lead * p + low
          /\ lead < 256 * Room(c)
      BY <1>4, LeadByte
    <3> HIDE DEF p, lead, low
    <3> QED BY <3>1
  <2>2. Two(32 - c.bitsLeft) = 256 * p
    <3>1. (24 - c.bitsLeft) + 8 = 32 - c.bitsLeft /\ 24 - c.bitsLeft \in 0..24 /\ 8 \in 0..8
      BY <1>1, <1>4
    <3>2. Two((24 - c.bitsLeft) + 8) = Two(24 - c.bitsLeft) * Two(8)
      BY <3>1, Adding
    <3>3. Two(8) = 256
      BY Powers
    <3> HIDE DEF lead, low
    <3> QED BY <2>1, <3>1, <3>2, <3>3
  <2>3. /\ d.low = low /\ d.bitsLeft = c.bitsLeft + 8 /\ d.range = c.range
        /\ lead = 255 => d.codes = c.codes /\ d.buffer = c.buffer /\ d.numByte = c.numByte + 1
        /\ lead # 255 => /\ d.codes = Sent(c.codes, c.buffer, lead \div 256, c.numByte)
                         /\ d.buffer = lead % 256 /\ d.numByte = 1
    BY <1>4, Wrote
  <2> HIDE DEF p, lead, low
  <2>4. held \in ByteStreams /\ Num(held) \in Nat /\ Size(held) \in Nat
    BY <1>1, <1>2, HeldCodesIn
  <2>5. /\ d.codes \in ByteStreams
        /\ Num(HeldCodes(d)) = 256 * Num(held) + lead
        /\ Size(HeldCodes(d)) = Size(held) + 8
    <3>1. CASE lead = 255
      <4> DEFINE full == 255
      <4>1. HeldCodes(d) = Extended(held, full)
        <5>1. HeldCodes(d) = HeldBack(c.codes, c.buffer, c.numByte + 1)
          BY <2>3, <3>1 DEF HeldCodes
        <5>2. HeldBack(c.codes, c.buffer, c.numByte + 1) = Extended(held, 255)
          <6> DEFINE codes  == c.codes
                     buffer == c.buffer
                     many   == c.numByte
          <6>1. codes \in ByteStreams /\ buffer \in 0..255 /\ many \in Nat
            BY <1>2
          <6>2. many = 0 => buffer = 255
            BY <1>1
          <6>3. held = HeldBack(codes, buffer, many)
            BY DEF HeldCodes
          <6> HIDE DEF codes, buffer, many, held
          <6>4. HeldBack(codes, buffer, many + 1) = Extended(HeldBack(codes, buffer, many), 255)
            BY <6>1, <6>2, HoldingMore
          <6> QED BY <6>3, <6>4 DEF codes, buffer, many
        <5> QED BY <5>1, <5>2
      <4>2. full \in 0..255
        OBVIOUS
      <4> HIDE DEF full, held
      <4>3. Num(Extended(held, full)) = 256 * Num(held) + full
        BY <2>4, <4>2, ByteMore
      <4>4. Size(Extended(held, full)) = Size(held) + 8
        BY <2>4, <4>2, ByteMore
      <4>5. lead = full
        BY <3>1 DEF full
      <4>6. d.codes \in ByteStreams
        BY <2>3, <3>1
      <4> QED BY <4>1, <4>3, <4>4, <4>5, <4>6
    <3>2. CASE lead # 255
      <4> DEFINE carry  == lead \div 256
                 byte   == lead % 256
                 codes  == c.codes
                 buffer == c.buffer
                 many   == c.numByte
                 sent   == Sent(codes, buffer, carry, many)
      <4>1. /\ carry \in {0, 1} /\ byte \in 0..255 /\ lead = 256 * carry + byte
            /\ carry = 1 => Room(c) = 2
        <5>1. Room(c) \in {1, 2}
          BY DEF Room
        <5> QED BY <2>1, <5>1
      <4>2. carry = 1 => buffer # 255 /\ many > 0
        <5>1. Room(c) = 2 => buffer # 255
          BY DEF Room
        <5>2. buffer # 255 => many > 0
          BY <1>1, <1>2
        <5> HIDE DEF carry, buffer, many
        <5> QED BY <4>1, <5>1, <5>2
      <4>3. codes \in ByteStreams /\ buffer \in 0..255 /\ many \in Nat
        BY <1>2
      <4>4. d.codes = sent /\ d.buffer = byte /\ d.numByte = 1
        BY <2>3, <3>2
      <4>5. held = HeldBack(codes, buffer, many)
        BY DEF HeldCodes
      <4> HIDE DEF carry, byte, codes, buffer, many, held
      <4>14. Sent(codes, buffer, carry, many) \in ByteStreams
        BY <4>1, <4>2, <4>3, Sending
      <4>6. sent \in ByteStreams
        BY <4>14
      <4> HIDE DEF sent
      <4>7. Num(sent) = Num(held) + carry
        BY <4>1, <4>2, <4>3, <4>5, Sending DEF sent
      <4>8. Size(sent) = Size(held)
        BY <4>1, <4>2, <4>3, <4>5, Sending DEF sent
      <4>9. HeldCodes(d) = Extended(sent, byte)
        <5> DEFINE none == 0
                   full == 255
        <5>1. HeldCodes(d) = Run(sent, byte, full, none)
          BY <4>4 DEF HeldCodes, HeldBack
        <5>2. none \in Int /\ none <= 0 /\ byte \in 0..255
          BY <4>1
        <5> HIDE DEF none, full
        <5>3. Run(sent, byte, full, none) = Extended(sent, byte)
          BY <4>6, <5>2, RunNone
        <5> QED BY <5>1, <5>3
      <4>10. byte \in 0..255
        BY <4>1
      <4>11. Num(Extended(sent, byte)) = 256 * Num(sent) + byte
        BY <4>6, <4>10, ByteMore
      <4>12. Size(Extended(sent, byte)) = Size(sent) + 8
        BY <4>6, <4>10, ByteMore
      <4>13. 256 * Num(sent) + byte = 256 * Num(held) + lead
        BY <2>4, <4>1, <4>7
      <4> QED BY <4>4, <4>6, <4>8, <4>9, <4>11, <4>12, <4>13
    <3> QED BY <3>1, <3>2
  <2>6. Value(d) = Value(c)
    <3>1. 32 - d.bitsLeft = 24 - c.bitsLeft
      BY <1>1, <2>3
    <3>2. Value(d) = Num(HeldCodes(d)) * p + low
      BY <2>3, <3>1 DEF Value, p
    <3>3. Value(c) = Num(held) * (256 * p) + (lead * p + low)
      BY <2>1, <2>2 DEF Value
    <3> DEFINE h == Num(held)
               l == lead
    <3>4. h \in Nat /\ p \in Nat /\ l \in Nat /\ low \in Nat
      BY <2>1, <2>4
    <3> HIDE DEF h, l
    <3>5. (256 * h + l) * p + low = h * (256 * p) + (l * p + low)
      BY <3>4
    <3> QED BY <2>5, <3>2, <3>3, <3>5 DEF h, l
  <2>7. ReadBits(d) = ReadBits(c)
    BY <1>1, <2>3, <2>4, <2>5 DEF ReadBits
  <2> QED BY <2>5, <2>6, <2>7
<1> QED BY <1>1, <1>3, <1>4

(* An operation moves the register up by n bits and changes it.            *)
Moves(c, n, low, range, d) ==
  /\ d.codes \in ByteStreams
  /\ d.range = range
  /\ Value(d) = (Value(c) - c.low) * Two(n) + low
  /\ ReadBits(d) = ReadBits(c) + n
  /\ Value(c) \in Nat /\ ReadBits(c) \in Nat /\ Value(c) - c.low \in Nat /\ c.low \in Nat

(* The number and its size after the register has moved. *)
LEMMA MovingValue ==
  ASSUME NEW c, Ready(c), c.codes \in ByteStreams,
         NEW n, n \in 0..8, NEW low, low \in Nat,
         NEW range, range \in 1..510, low + range <= (c.low + c.range) * Two(n),
         NEW e, e = [c EXCEPT !.low = low, !.range = range, !.bitsLeft = c.bitsLeft - n],
         NEW d, d = WriteOutputBitstream(e)
  PROVE  Moves(c, n, low, range, d)
<1>1. d = WriteOutputBitstream(e)
  OBVIOUS
<1>2. /\ Unwritten(e) /\ c.bitsLeft \in 12..23
      /\ e.low = low /\ e.range = range /\ e.bitsLeft = c.bitsLeft - n
      /\ e.buffer = c.buffer /\ e.numByte = c.numByte /\ e.codes = c.codes
  <2>1. MovedBy(c, n, low, range, e)
    BY MovingIn
  <2> QED BY <2>1 DEF MovedBy
<1>3. d.codes \in ByteStreams /\ Value(d) = Value(e) /\ ReadBits(d) = ReadBits(e)
  BY <1>1, <1>2, WritingKeeps
<1>4. d.range = range
  BY <1>1, <1>2, Writing
<1>5. HeldCodes(e) = HeldCodes(c)
  BY <1>2 DEF HeldCodes
<1>6. Two(32 - e.bitsLeft) = Two(32 - c.bitsLeft) * Two(n) /\ Two(32 - c.bitsLeft) \in Nat
  <2> DEFINE a == 32 - c.bitsLeft
  <2>1. 32 - e.bitsLeft = a + n /\ a \in 0..24 /\ a \in 0..32
    BY <1>2
  <2> HIDE DEF a
  <2>2. Two(a + n) = Two(a) * Two(n)
    BY <2>1, Adding
  <2>3. Two(a) \in Nat
    BY <2>1, Doubling
  <2> QED BY <2>1, <2>2, <2>3 DEF a
<1>7. c \in Engines /\ (c.numByte = 0 => c.buffer = 255)
  BY DEF Ready, Written, Carries
<1>8. c.low \in Nat /\ c.buffer \in 0..255 /\ c.numByte \in Nat
  BY <1>7, Fields
<1>9. Num(HeldCodes(c)) \in Nat /\ Size(HeldCodes(c)) \in Nat
  BY <1>7, <1>8, HeldCodesIn
<1> DEFINE h == Num(HeldCodes(c))
           x == Two(32 - c.bitsLeft)
           w == Two(n)
           l == c.low
<1>10. /\ h \in Nat /\ x \in Nat /\ w \in Nat /\ l \in Nat
       /\ Value(c) = h * x + l /\ Value(e) = h * (x * w) + low
  <2>1. w \in Nat
    <3>1. n \in 0..32
      OBVIOUS
    <3> QED BY <3>1, Doubling
  <2>2. Value(c) = h * x + l
    BY DEF Value
  <2>3. Value(e) = h * (x * w) + low
    BY <1>2, <1>5, <1>6 DEF Value
  <2> QED BY <1>6, <1>8, <1>9, <2>1, <2>2, <2>3
<1> HIDE DEF h, x, w, l
<1>11. h * x \in Nat /\ (h * x + l) - l = h * x /\ (h * x) * w = h * (x * w)
  BY <1>10
<1>12. Value(c) - l = h * x /\ Value(c) \in Nat
  BY <1>10, <1>11
<1>13. Value(d) = (Value(c) - l) * w + low
  BY <1>3, <1>10, <1>11, <1>12
<1>14. ReadBits(d) = ReadBits(c) + n /\ ReadBits(c) \in Nat
  BY <1>2, <1>3, <1>5, <1>9 DEF ReadBits
<1> QED BY <1>3, <1>4, <1>11, <1>12, <1>13, <1>14, <1>10 DEF l, w, Moves

(* Between two operations, with what is written so far in bytes. *)
Coding(c) == Ready(c) /\ c.codes \in ByteStreams

(* From c to d n bits were added, and the interval became [add, add + range) *)
(* of what it then was.                                                      *)
Narrows(c, d, add, range, n) ==
  /\ d.codes \in ByteStreams
  /\ d.range = range
  /\ Value(d) = Value(c) * Two(n) + add
  /\ ReadBits(d) = ReadBits(c) + n
  /\ Value(c) \in Nat /\ ReadBits(c) \in Nat

(* An operation that changes the register narrows the interval. *)
LEMMA MovingNarrows ==
  ASSUME NEW c, Coding(c), NEW n, n \in 0..8, NEW add, add \in Nat,
         NEW low, low = c.low * Two(n) + add,
         NEW range, range \in 1..510, low + range <= (c.low + c.range) * Two(n),
         NEW e, e = [c EXCEPT !.low = low, !.range = range, !.bitsLeft = c.bitsLeft - n],
         NEW d, d = WriteOutputBitstream(e)
  PROVE  Narrows(c, d, add, range, n)
<1>1. Ready(c) /\ c.codes \in ByteStreams
  BY DEF Coding
<1>2. c \in Engines
  BY <1>1 DEF Ready, Written, Carries
<1>3. c.low \in Nat
  BY <1>2, Fields
<1>4. Two(n) \in Nat
  <2>1. n \in 0..32
    OBVIOUS
  <2> QED BY <2>1, Doubling
<1> DEFINE w == Two(n)
           l == c.low
<1>5. low \in Nat
  BY <1>3, <1>4
<1>6. /\ d.codes \in ByteStreams
      /\ d.range = range
      /\ Value(d) = (Value(c) - c.low) * Two(n) + low
      /\ ReadBits(d) = ReadBits(c) + n
      /\ Value(c) \in Nat /\ ReadBits(c) \in Nat /\ Value(c) - c.low \in Nat /\ c.low \in Nat
  <2>1. Moves(c, n, low, range, d)
    BY <1>1, <1>5, MovingValue
  <2> QED BY <2>1 DEF Moves
<1>7. (Value(c) - l) * w + (l * w + add) = Value(c) * w + add
  <2> DEFINE v == Value(c)
  <2>1. v \in Nat /\ l \in Nat /\ w \in Nat
    BY <1>3, <1>4, <1>6
  <2> HIDE DEF v, l, w
  <2>2. (v - l) * w = v * w - l * w /\ v * w \in Nat /\ l * w \in Nat
    BY <2>1
  <2> QED BY <2>2 DEF v, l, w
<1> QED BY <1>6, <1>7 DEF Narrows

(* The end of EncodeBin and of EncodeTerminatingBit. *)
LEMMA ShiftingNarrows ==
  ASSUME NEW c, Coding(c), NEW n, n \in 0..8, NEW add, add \in Nat,
         NEW low, low = c.low + add,
         NEW range, range \in Nat, add + range <= c.range,
         range * Two(n) \in 1..510
  PROVE  Narrows(c, Shifted(c, low, range, n), add * Two(n), range * Two(n), n)
<1>1. Ready(c) /\ c \in Engines
  BY DEF Coding, Ready, Written, Carries
<1>2. c.low \in Nat /\ c.range \in Nat
  BY <1>1, Fields
<1>3. Two(n) \in Nat
  <2>1. n \in 0..32
    OBVIOUS
  <2> QED BY <2>1, Doubling
<1> DEFINE more == add * Two(n)
           to   == low * Two(n)
           r    == range * Two(n)
           e    == [c EXCEPT !.low = to, !.range = r, !.bitsLeft = c.bitsLeft - n]
           d    == WriteOutputBitstream(e)
<1>4. Shifted(c, low, range, n) = d
  BY DEF Shifted, Two
<1>5. more \in Nat /\ to = c.low * Two(n) + more /\ r \in 1..510
  <2> DEFINE w == Two(n)
             l == c.low
  <2>1. w \in Nat /\ l \in Nat
    BY <1>2, <1>3
  <2> HIDE DEF w, l
  <2>2. add * w \in Nat /\ (l + add) * w = l * w + add * w
    BY <2>1
  <2> QED BY <2>2 DEF w, l
<1>6. to + r <= (c.low + c.range) * Two(n)
  <2> DEFINE w == Two(n)
             l == c.low
             m == c.range
  <2>1. w \in Nat /\ l \in Nat /\ m \in Nat /\ add + range <= m
    BY <1>2, <1>3
  <2> HIDE DEF w, l, m
  <2>2. (add + range) * w <= m * w
    BY <2>1
  <2>3. (l + add) * w + range * w = l * w + (add + range) * w /\ (l + m) * w = l * w + m * w
    BY <2>1
  <2>4. l * w \in Nat /\ (add + range) * w \in Nat /\ m * w \in Nat
    BY <2>1
  <2>5. (l + add) * w + range * w <= (l + m) * w
    BY <2>2, <2>3, <2>4
  <2> QED BY <2>5 DEF w, l, m
<1>7. e = [c EXCEPT !.low = to, !.range = r, !.bitsLeft = c.bitsLeft - n] /\ d = WriteOutputBitstream(e)
  OBVIOUS
<1> HIDE DEF more, to, r, e, d
<1>8. Narrows(c, d, more, r, n)
  BY <1>5, <1>6, <1>7, MovingNarrows
<1> QED BY <1>4, <1>8 DEF more, r

(* A bin coded with a context. *)
LEMMA BinNarrows ==
  ASSUME NEW c, Coding(c), NEW row, row \in LPSRows, NEW lps, lps \in BOOLEAN,
         NEW uiLPS, uiLPS = LPSRange(row, c.range),
         NEW mps, mps = c.range - uiLPS
  PROVE  /\ lps => Narrows(c, EncodeBin(c, row, lps), mps * Two(RenormBits(uiLPS)),
                           uiLPS * Two(RenormBits(uiLPS)), RenormBits(uiLPS))
         /\ ~lps => Narrows(c, EncodeBin(c, row, lps), 0, mps * Two(MPSShift(mps)), MPSShift(mps))
<1>1. c \in Engines /\ c.range \in 256..510
  BY DEF Coding, Ready, Written, Carries
<1>2. c.low \in Nat
  BY <1>1, Fields
<1>3. uiLPS \in 6..240 /\ mps \in 128..504
  BY <1>1, LPSRanges
<1>4. CASE lps
  <2> DEFINE n   == RenormBits(uiLPS)
             low == c.low + mps
  <2>1. n \in 0..8 /\ uiLPS * Two(n) \in 256..510
    BY <1>3, Renormalised
  <2>2. EncodeBin(c, row, lps) = Shifted(c, low, uiLPS, n)
    BY <1>4 DEF EncodeBin
  <2>3. low = c.low + mps /\ mps \in Nat /\ uiLPS \in Nat /\ mps + uiLPS <= c.range
    BY <1>1, <1>3
  <2> HIDE DEF n, low
  <2>4. uiLPS * Two(n) \in 1..510
    BY <2>1
  <2>5. Narrows(c, Shifted(c, low, uiLPS, n), mps * Two(n), uiLPS * Two(n), n)
    BY <2>1, <2>3, <2>4, ShiftingNarrows
  <2> QED BY <1>4, <2>2, <2>5 DEF n
<1>5. CASE ~lps
  <2> DEFINE n    == MPSShift(mps)
             low  == c.low
             none == 0
  <2>1. n \in 0..8 /\ mps * Two(n) \in 256..510
    <3>1. mps \in 128..508
      BY <1>3
    <3> QED BY <3>1, MPSRenormalised
  <2>2. EncodeBin(c, row, lps) = Shifted(c, low, mps, n)
    BY <1>5 DEF EncodeBin
  <2>3. low = c.low + none /\ none \in Nat /\ mps \in Nat /\ none + mps <= c.range
    BY <1>1, <1>2, <1>3
  <2>6. Two(n) \in Nat
    <3>1. n \in 0..32
      BY <2>1
    <3> HIDE DEF n
    <3> QED BY <3>1, Doubling
  <2>7. none * Two(n) = 0
    BY <2>6
  <2> HIDE DEF n, low, none
  <2>4. mps * Two(n) \in 1..510
    BY <2>1
  <2>5. Narrows(c, Shifted(c, low, mps, n), none * Two(n), mps * Two(n), n)
    BY <2>1, <2>3, <2>4, ShiftingNarrows
  <2> QED BY <1>5, <2>2, <2>5, <2>7 DEF n
<1> QED BY <1>4, <1>5

(* The terminating bin. *)
LEMMA TerminatingNarrows ==
  ASSUME NEW c, Coding(c), NEW range, range = c.range - 2
  PROVE  /\ Narrows(c, EncodeTerminatingBit(c, 0), 0, range * Two(MPSShift(range)), MPSShift(range))
         /\ Narrows(c, EncodeTerminatingBit(c, 1), range * 128, 256, 7)
<1>1. c \in Engines /\ c.range \in 256..510
  BY DEF Coding, Ready, Written, Carries
<1>2. c.low \in Nat
  BY <1>1, Fields
<1>3. range \in 254..508
  BY <1>1
<1>4. Narrows(c, EncodeTerminatingBit(c, 0), 0, range * Two(MPSShift(range)), MPSShift(range))
  <2> DEFINE n    == MPSShift(range)
             low  == c.low
             none == 0
  <2>1. n \in 0..8 /\ range * Two(n) \in 256..510
    <3>1. range \in 128..508
      BY <1>3
    <3> QED BY <3>1, MPSRenormalised
  <2>2. EncodeTerminatingBit(c, 0) = Shifted(c, low, range, n)
    BY DEF EncodeTerminatingBit
  <2>3. low = c.low + none /\ none \in Nat /\ range \in Nat /\ none + range <= c.range
    BY <1>1, <1>2, <1>3
  <2>6. Two(n) \in Nat
    <3>1. n \in 0..32
      BY <2>1
    <3> HIDE DEF n
    <3> QED BY <3>1, Doubling
  <2>7. none * Two(n) = 0
    BY <2>6
  <2> HIDE DEF n, low, none
  <2>4. range * Two(n) \in 1..510
    BY <2>1
  <2>5. Narrows(c, Shifted(c, low, range, n), none * Two(n), range * Two(n), n)
    BY <2>1, <2>3, <2>4, ShiftingNarrows
  <2> QED BY <2>2, <2>5, <2>7 DEF n
<1>5. Narrows(c, EncodeTerminatingBit(c, 1), range * 128, 256, 7)
  <2> DEFINE n    == 7
             low  == c.low + range
             last == 2
  <2>1. n \in 0..8 /\ Two(n) = 128
    BY Powers
  <2>2. EncodeTerminatingBit(c, 1) = Shifted(c, low, last, n)
    BY DEF EncodeTerminatingBit
  <2>3. low = c.low + range /\ range \in Nat /\ last \in Nat /\ range + last <= c.range
    BY <1>1, <1>2, <1>3
  <2>4. last * Two(n) \in 1..510 /\ last * Two(n) = 256
    BY <2>1
  <2> HIDE DEF n, low, last
  <2>5. Narrows(c, Shifted(c, low, last, n), range * Two(n), last * Two(n), n)
    BY <2>1, <2>3, <2>4, ShiftingNarrows
  <2> QED BY <2>1, <2>2, <2>4, <2>5 DEF n
<1> QED BY <1>4, <1>5

(* Up to eight bypass bins. *)
LEMMA EPNarrows ==
  ASSUME NEW c, Coding(c), NEW n, n \in 1..8, NEW value, value \in Nat, value <= Two(n) - 1
  PROVE  Narrows(c, EncodeEP(c, value, n), c.range * value, c.range, n)
<1>1. c \in Engines /\ c.range \in 256..510
  BY DEF Coding, Ready, Written, Carries
<1>2. c.low \in Nat
  BY <1>1, Fields
<1>3. Two(n) \in Nat
  <2>1. n \in 0..32
    OBVIOUS
  <2> QED BY <2>1, Doubling
<1> DEFINE add == c.range * value
           r   == c.range
           low == c.low * Two(n) + add
           e   == [c EXCEPT !.low = low, !.range = r, !.bitsLeft = c.bitsLeft - n]
           d   == WriteOutputBitstream(e)
<1>4. EncodeEP(c, value, n) = d
  <2>1. e = [c EXCEPT !.low = low, !.bitsLeft = c.bitsLeft - n]
    BY <1>1 DEF Engines
  <2>2. EncodeEP(c, value, n)
          = WriteOutputBitstream([c EXCEPT !.low = low, !.bitsLeft = c.bitsLeft - n])
    BY DEF EncodeEP, Two
  <2> QED BY <2>1, <2>2
<1>5. add \in Nat /\ low + r <= (c.low + c.range) * Two(n)
  <2> DEFINE w == Two(n)
             l == c.low
             m == c.range
  <2>1. w \in Nat /\ l \in Nat /\ m \in Nat /\ value + 1 <= w
    BY <1>1, <1>2, <1>3
  <2> HIDE DEF w, l, m
  <2>2. m * (value + 1) <= m * w /\ m * value \in Nat /\ l * w \in Nat /\ m * w \in Nat
    BY <2>1
  <2>3. m * (value + 1) = m * value + m /\ (l + m) * w = l * w + m * w
    BY <2>1
  <2>4. (l * w + m * value) + m <= (l + m) * w
    BY <2>1, <2>2, <2>3
  <2> QED BY <2>2, <2>4 DEF w, l, m
<1>6. low = c.low * Two(n) + add /\ d = WriteOutputBitstream(e) /\ n \in 0..8
      /\ e = [c EXCEPT !.low = low, !.range = r, !.bitsLeft = c.bitsLeft - n]
  OBVIOUS
<1>7. r \in 1..510
  BY <1>1
<1> HIDE DEF add, r, low, e, d
<1>8. Narrows(c, d, add, r, n)
  BY <1>5, <1>6, <1>7, MovingNarrows
<1> QED BY <1>4, <1>8 DEF add, r

(* Powers of two multiply. *)
LEMMA PowersAdd ==
  ASSUME NEW a, a \in 0..32, NEW n, n \in 0..32, a + n <= 32
  PROVE  Two(a + n) = Two(a) * Two(n) /\ Two(a) \in Nat /\ Two(n) \in Nat /\ Two(n) > 0
<1> DEFINE T == {m \in Nat : a + m <= 32 => Two(a + m) = Two(a) * Two(m)}
<1>0. Two(a) \in Nat /\ Two(n) \in Nat /\ Two(n) > 0
  BY Doubling
<1>1. 0 \in T
  <2>1. a + 0 = a /\ Two(0) = 1
    BY Powers
  <2> QED BY <1>0, <2>1
<1>2. ASSUME NEW m \in Nat, m \in T PROVE m + 1 \in T
  <2> SUFFICES ASSUME a + (m + 1) <= 32 PROVE Two(a + (m + 1)) = Two(a) * Two(m + 1)
    OBVIOUS
  <2>1. a + (m + 1) = (a + m) + 1 /\ a + m \in 0..31 /\ m \in 0..31 /\ m \in 0..32 /\ a + m <= 32
    OBVIOUS
  <2>2. Two((a + m) + 1) = 2 * Two(a + m) /\ Two(m + 1) = 2 * Two(m) /\ Two(m) \in Nat
    BY <2>1, Doubling
  <2>3. Two(a + m) = Two(a) * Two(m)
    BY <1>2, <2>1
  <2> DEFINE x == Two(a)
             y == Two(m)
  <2>4. x \in Nat /\ y \in Nat
    BY <1>0, <2>2
  <2> HIDE DEF x, y
  <2>5. 2 * (x * y) = x * (2 * y)
    BY <2>4
  <2> QED BY <2>1, <2>2, <2>3, <2>5 DEF x, y
<1> HIDE DEF T
<1>3. Nat \subseteq T
  BY <1>1, <1>2, NaturalsOf
<1> QED BY <1>0, <1>3 DEF T

(* The eight bins at a time that EncodeBinsEP puts first, two times at most. *)
LEMMA Chunks ==
  ASSUME NEW c, NEW value, NEW n, n \in 1..20
  PROVE  /\ n \in 1..8 => EncodeBinsEP(c, value, n) = EncodeEP(c, value % Two(n), n)
         /\ n \in 9..16 =>
              EncodeBinsEP(c, value, n)
                = EncodeEP(EncodeEP(c, (value \div Two(n - 8)) % 256, 8), value % Two(n - 8), n - 8)
         /\ n \in 17..20 =>
              EncodeBinsEP(c, value, n)
                = EncodeEP(EncodeEP(EncodeEP(c, (value \div Two(n - 8)) % 256, 8),
                                    (value \div Two(n - 16)) % 256, 8),
                           value % Two(n - 16), n - 16)
<1> DEFINE chunks  == (n - 1) \div 8
           Byte(k) == (value \div 2^(n - 8*k)) % 256
           F(put)  == [k \in 0..chunks |->
                         IF k = 0 THEN c ELSE EncodeEP(put[k-1], Byte(k), 8)]
           put     == CHOOSE f : f = F(f)
           one     == EncodeEP(c, Byte(1), 8)
           two     == EncodeEP(one, Byte(2), 8)
           last    == n - 8 * chunks
<1>2. chunks \in 0..2 /\ last \in 1..8
  OBVIOUS
<1>3. put = F(put)
  <2> DEFINE g == [k \in 0..chunks |-> IF k = 0 THEN c ELSE IF k = 1 THEN one ELSE two]
  <2>1. ASSUME NEW k \in 0..chunks
        PROVE  g[k] = IF k = 0 THEN c ELSE EncodeEP(g[k-1], Byte(k), 8)
    <3>1. k \in {0, 1, 2}
      BY <1>2
    <3>2. CASE k = 0
      BY <3>2
    <3>3. CASE k = 1
      <4>1. g[0] = c /\ g[1] = one /\ 1 - 1 = 0
        BY <1>2, <3>3
      <4> QED BY <3>3, <4>1
    <3>4. CASE k = 2
      <4>1. g[1] = one /\ g[2] = two /\ 2 - 1 = 1
        BY <1>2, <3>4
      <4> QED BY <3>4, <4>1
    <3> QED BY <3>1, <3>2, <3>3, <3>4
  <2>2. g = F(g)
    <3> HIDE DEF one, two, Byte
    <3>1. g = [k \in 0..chunks |-> g[k]]
      OBVIOUS
    <3> HIDE DEF g, chunks
    <3> QED BY <2>1, <3>1
  <2> QED BY <2>2
<1>4. EncodeBinsEP(c, value, n) = EncodeEP(put[chunks], value % Two(last), last)
  BY Zenon DEF EncodeBinsEP, Two
<1>5. \A k \in 0..chunks : put[k] = IF k = 0 THEN c ELSE EncodeEP(put[k-1], Byte(k), 8)
  <2> HIDE DEF put, Byte, chunks
  <2> QED BY <1>3
<1>6. Byte(1) = (value \div Two(n - 8)) % 256 /\ Byte(2) = (value \div Two(n - 16)) % 256
  BY DEF Two
<1>7. n \in 1..8 => chunks = 0 /\ last = n
  OBVIOUS
<1>8. n \in 9..16 => chunks = 1 /\ last = n - 8
  OBVIOUS
<1>9. n \in 17..20 => chunks = 2 /\ last = n - 16
  OBVIOUS
<1> HIDE DEF put, Byte, chunks, last, one, two
<1>10. chunks >= 0 => put[0] = c
  BY <1>2, <1>5
<1>11. chunks >= 1 => put[1] = EncodeEP(c, Byte(1), 8)
  <2> HAVE chunks >= 1
  <2>1. 1 \in 0..chunks /\ 1 # 0 /\ 1 - 1 = 0
    BY <1>2
  <2>2. put[1] = EncodeEP(put[1 - 1], Byte(1), 8)
    BY <1>5, <2>1
  <2>3. put[0] = c
    BY <1>2, <1>10
  <2>4. put[1 - 1] = c
    BY <2>1, <2>3
  <2> QED BY <2>2, <2>4
<1>12. chunks >= 2 => put[2] = EncodeEP(EncodeEP(c, Byte(1), 8), Byte(2), 8)
  <2> HAVE chunks >= 2
  <2>1. 2 \in 0..chunks /\ 2 # 0 /\ 2 - 1 = 1 /\ chunks >= 1
    BY <1>2
  <2>2. put[2] = EncodeEP(put[2 - 1], Byte(2), 8)
    BY <1>5, <2>1
  <2> QED BY <1>11, <2>1, <2>2
<1>13. ASSUME n \in 1..8 PROVE EncodeBinsEP(c, value, n) = EncodeEP(c, value % Two(n), n)
  <2>1. chunks = 0 /\ last = n /\ put[0] = c
    BY <1>7, <1>10, <1>13
  <2> QED BY <1>4, <2>1
<1>14. ASSUME n \in 9..16
       PROVE  EncodeBinsEP(c, value, n)
                = EncodeEP(EncodeEP(c, Byte(1), 8), value % Two(n - 8), n - 8)
  <2>1. chunks = 1 /\ last = n - 8 /\ put[1] = EncodeEP(c, Byte(1), 8)
    BY <1>8, <1>11, <1>14
  <2> QED BY <1>4, <2>1
<1>15. ASSUME n \in 17..20
       PROVE  EncodeBinsEP(c, value, n)
                = EncodeEP(EncodeEP(EncodeEP(c, Byte(1), 8), Byte(2), 8), value % Two(n - 16), n - 16)
  <2>1. chunks = 2 /\ last = n - 16 /\ put[2] = EncodeEP(EncodeEP(c, Byte(1), 8), Byte(2), 8)
    BY <1>9, <1>12, <1>15
  <2> QED BY <1>4, <2>1
<1> QED BY <1>6, <1>13, <1>14, <1>15

(* A number in base 256, one digit more. *)
LEMMA TwoSteps ==
  ASSUME NEW x, x \in Nat, NEW q, q \in Nat, q > 0
  PROVE  x \div q = (x \div (256 * q)) * 256 + ((x \div q) % 256)
<1> DEFINE a == x \div q
           r == x % q
           h == a \div 256
           e == a % 256
           pp == 256 * q
           rr == e * q + r
<1>1. a \in Nat /\ r \in 0..(q - 1) /\ x = a * q + r
  BY Division
<1>2. h \in Nat /\ e \in 0..255 /\ a = h * 256 + e
  <2> HIDE DEF a
  <2> QED BY <1>1
<1>4. pp = 256 * q /\ rr = e * q + r
  OBVIOUS
<1>9. x \div q = a /\ (x \div q) % 256 = e
  OBVIOUS
<1> HIDE DEF a, r, h, e, pp, rr
<1>3. pp \in Nat /\ pp > 0 /\ rr \in Nat /\ rr < pp
  <2>1. e * q \in Nat /\ e * q <= 255 * q /\ 255 * q + q = 256 * q
    BY <1>2
  <2> QED BY <1>1, <1>4, <2>1
<1>5. x = h * pp + rr
  <2>1. a * q = (h * 256) * q + e * q /\ (h * 256) * q = h * (256 * q) /\ h * (256 * q) \in Nat /\ e * q \in Nat
    BY <1>2
  <2> QED BY <1>1, <1>4, <2>1
<1>6. h \in Int
  BY <1>2
<1>7. x \div pp = h
  BY <1>3, <1>5, <1>6, QuotientIs
<1> QED BY <1>2, <1>4, <1>7, <1>9

(* Bypass bins have been put, m of them, with the number v. *)
BypassTo(c, d, v, m) ==
  /\ Coding(d) /\ d.range = c.range
  /\ Narrows(c, d, c.range * v, c.range, m)

(* Up to eight bypass bins more. *)
LEMMA EPNext ==
  ASSUME NEW c, NEW d, NEW v, v \in Nat, NEW m, m \in 0..24, BypassTo(c, d, v, m),
         NEW n, n \in 1..8, NEW value, value \in Nat, value <= Two(n) - 1
  PROVE  BypassTo(c, EncodeEP(d, value, n), v * Two(n) + value, m + n)
<1> DEFINE range == d.range
<1>0. Coding(d) /\ range = c.range /\ Narrows(c, d, range * v, range, m)
  BY DEF BypassTo
<1> DEFINE e == EncodeEP(d, value, n)
<1>1. Narrows(d, e, range * value, range, n)
  BY <1>0, EPNarrows
<1>2. Ready(e)
  BY <1>0, EncodingEP DEF Coding
<1> HIDE DEF e
<1>3. Two(m + n) = Two(m) * Two(n) /\ Two(m) \in Nat /\ Two(n) \in Nat
  <2>1. m \in 0..32 /\ n \in 0..32 /\ m + n <= 32
    OBVIOUS
  <2> QED BY <2>1, PowersAdd
<1> HIDE DEF range
<1>4. range \in Nat
  BY <1>0 DEF Coding, Ready, range
<1> DEFINE vc == Value(c)
           x  == Two(m)
           y  == Two(n)
<1>5. vc \in Nat /\ Value(d) = vc * x + range * v /\ Value(e) = Value(d) * y + range * value
      /\ x \in Nat /\ y \in Nat
  BY <1>0, <1>1, <1>3 DEF Narrows
<1> HIDE DEF vc, x, y
<1>6. (vc * x + range * v) * y + range * value = vc * (x * y) + range * (v * y + value)
  <2>1. vc * x \in Nat /\ range * v \in Nat /\ v * y \in Nat
    BY <1>4, <1>5
  <2>2. (vc * x + range * v) * y = (vc * x) * y + (range * v) * y
    BY <1>5, <2>1
  <2>3. (vc * x) * y = vc * (x * y) /\ (range * v) * y = range * (v * y)
    BY <1>4, <1>5
  <2>4. range * (v * y + value) = range * (v * y) + range * value
    BY <1>4, <2>1
  <2>5. vc * (x * y) \in Nat /\ range * (v * y) \in Nat /\ range * value \in Nat
    BY <1>4, <1>5, <2>1
  <2> QED BY <2>2, <2>3, <2>4, <2>5
<1>7. Value(e) = vc * (x * y) + range * (v * y + value)
  BY <1>5, <1>6
<1>8. ReadBits(e) = ReadBits(c) + (m + n) /\ ReadBits(c) \in Nat
  BY <1>0, <1>1 DEF Narrows
<1>9. e.codes \in ByteStreams /\ e.range = range
  BY <1>1 DEF Narrows
<1>10. Narrows(c, e, range * (v * y + value), range, m + n)
  BY <1>3, <1>5, <1>7, <1>8, <1>9 DEF Narrows, x, y, vc
<1> QED BY <1>0, <1>2, <1>9, <1>10 DEF Coding, e, y, BypassTo

(* Before the first bypass bin. *)
LEMMA NoneNarrows ==
  ASSUME NEW c, Coding(c)
  PROVE  BypassTo(c, c, 0, 0)
<1>1. Ready(c) /\ c \in Engines
  BY DEF Coding, Ready, Written, Carries
<1>2. c.low \in Nat /\ c.buffer \in 0..255 /\ c.numByte \in Nat /\ c.bitsLeft \in 12..23 /\ c.range \in Nat
      /\ (c.numByte = 0 => c.buffer = 255) /\ c.codes \in ByteStreams
  BY <1>1, Fields DEF Coding, Ready, Written, Carries
<1>3. Num(HeldCodes(c)) \in Nat /\ Size(HeldCodes(c)) \in Nat
  BY <1>2, HeldCodesIn
<1>4. Two(32 - c.bitsLeft) \in Nat
  <2>1. 32 - c.bitsLeft \in 0..32
    BY <1>2
  <2> QED BY <2>1, Doubling
<1>5. Value(c) \in Nat /\ ReadBits(c) \in Nat
  <2>1. Num(HeldCodes(c)) * Two(32 - c.bitsLeft) \in Nat
    BY <1>3, <1>4
  <2> QED BY <1>2, <1>3, <2>1 DEF Value, ReadBits
<1>6. Two(0) = 1 /\ c.range * 0 = 0
  BY <1>2, Powers
<1>7. Value(c) = Value(c) * Two(0) + c.range * 0
  BY <1>5, <1>6
<1>8. ReadBits(c) = ReadBits(c) + 0
  BY <1>5
<1> QED BY <1>2, <1>5, <1>7, <1>8 DEF Narrows, BypassTo

(* A digit in base 256, and what is below it. *)
LEMMA ByteFits ==
  ASSUME NEW value, value \in Nat, NEW q, q \in Nat, q > 0
  PROVE  /\ (value \div q) % 256 \in Nat /\ (value \div q) % 256 <= 255
         /\ value % q \in Nat /\ value % q <= q - 1 /\ value \div q \in Nat
         /\ value = (value \div q) * q + (value % q)
<1>1. value \div q \in Nat /\ value % q \in 0..(q - 1) /\ value = (value \div q) * q + (value % q)
  BY Division
<1> DEFINE a == value \div q
           b == value % q
<1>2. a \in Nat /\ b \in 0..(q - 1)
  BY <1>1
<1> HIDE DEF a, b
<1>3. a % 256 \in Nat /\ a % 256 <= 255 /\ b \in Nat /\ b <= q - 1
  BY <1>2
<1> QED BY <1>1, <1>3 DEF a, b

(* The bins of a value, however they are put, narrow the interval to the   *)
(* part with the number of the value.                                      *)
LEMMA BinsEPNarrows ==
  ASSUME NEW c, Coding(c), NEW value, NEW n, Fits(value, n)
  PROVE  BypassTo(c, EncodeBinsEP(c, value, n), value, n)
<1> DEFINE none  == 0
           eight == 8
           d     == EncodeBinsEP(c, value, n)
<1>1. value \in Nat /\ n \in 1..20 /\ value <= Two(n) - 1 /\ Two(n) \in Nat
  <2>1. value \in Nat /\ n \in 1..20 /\ value <= Two(n) - 1
    BY DEF Fits
  <2>2. n \in 0..32
    BY <2>1
  <2> QED BY <2>1, <2>2, Doubling
<1>2. none \in Nat /\ none \in 0..24 /\ eight \in 1..8 /\ Two(eight) = 256 /\ eight \in 0..24 /\ eight \in 0..32
  BY Powers
<1>4. BypassTo(c, c, none, none)
  BY NoneNarrows
<1>8. none = 0 /\ eight = 8
  OBVIOUS
<1> HIDE DEF none, eight
<1>5. CASE n \in 1..8
  <2> DEFINE u == value % Two(n)
  <2>1. d = EncodeEP(c, u, n)
    BY <1>1, <1>5, Chunks
  <2>2. u = value
    BY <1>1
  <2> HIDE DEF u, d
  <2>3. BypassTo(c, EncodeEP(c, value, n), none * Two(n) + value, none + n)
    BY <1>1, <1>2, <1>4, <1>5, EPNext
  <2>4. none * Two(n) + value = value /\ none + n = n
    BY <1>1, <1>8
  <2> QED BY <2>1, <2>2, <2>3, <2>4 DEF d
<1> DEFINE q    == Two(n - 8)
           high == (value \div q) % 256
           d1   == EncodeEP(c, high, eight)
<1>6. ASSUME n \in 9..20
      PROVE  /\ q \in Nat /\ q > 0 /\ high = value \div q /\ high \in Nat /\ Two(n) = 256 * q
             /\ BypassTo(c, d1, high, eight)
  <2>1. q \in Nat /\ q > 0 /\ Two(n) = q * Two(8)
    <3> DEFINE m == n - 8
    <3>1. m \in 0..32 /\ 8 \in 0..32 /\ m + 8 <= 32 /\ m + 8 = n
      BY <1>6
    <3> HIDE DEF m
    <3>2. Two(m + 8) = Two(m) * Two(8) /\ Two(m) \in Nat
      BY <3>1, PowersAdd
    <3>3. Two(m) >= 1
      BY <3>1, Doubling
    <3> QED BY <3>1, <3>2, <3>3 DEF m
  <2>2. Two(n) = 256 * q
    <3>1. Two(8) = 256
      BY Powers
    <3> HIDE DEF q
    <3> QED BY <2>1, <3>1
  <2> HIDE DEF q
  <2>3. high \in Nat /\ high <= 255
    BY <1>1, <2>1, ByteFits
  <2>4. high = value \div q
    <3> DEFINE a == value \div q
    <3>1. a \in Nat /\ a < 256
      <4>1. value < 256 * q /\ 256 \in Nat
        BY <1>1, <2>1, <2>2
      <4>2. a < 256
        BY <1>1, <2>1, <4>1, Quotient
      <4>3. a \in Nat
        BY <1>1, <2>1, Division
      <4> QED BY <4>2, <4>3
    <3>2. high = a % 256
      OBVIOUS
    <3> HIDE DEF a, high
    <3>3. high = a
      BY <3>1, <3>2
    <3> QED BY <3>3 DEF a
  <2> HIDE DEF high
  <2>5. high <= Two(eight) - 1
    BY <1>2, <2>3
  <2>8. BypassTo(c, d1, none * Two(eight) + high, none + eight)
    BY <1>2, <1>4, <2>3, <2>5, EPNext
  <2>9. none * Two(eight) + high = high /\ none + eight = eight
    BY <1>2, <1>8, <2>3
  <2>10. BypassTo(c, d1, high, eight)
    BY <2>8, <2>9
  <2> HIDE DEF d1
  <2> QED BY <2>1, <2>2, <2>3, <2>4, <2>10
<1>7. CASE n \in 9..16
  <2> DEFINE m == n - 8
             u == value % q
  <2>1. d = EncodeEP(d1, u, m)
    BY <1>7, Chunks DEF eight
  <2>2. q \in Nat /\ q > 0 /\ high = value \div q /\ high \in Nat /\ BypassTo(c, d1, high, eight)
    <3>1. n \in 9..20
      BY <1>7
    <3> HIDE DEF q, high, d1
    <3> QED BY <1>6, <3>1
  <2>3. q = Two(m)
    OBVIOUS
  <2>4. m \in 1..8 /\ eight + m = n
    BY <1>7, <1>8
  <2> HIDE DEF q, high, d1, d, m
  <2>5. u \in Nat /\ u <= q - 1 /\ value = high * q + u
    BY <1>1, <2>2, ByteFits
  <2> HIDE DEF u
  <2>6. u <= Two(m) - 1
    BY <2>3, <2>5
  <2>7. BypassTo(c, EncodeEP(d1, u, m), high * Two(m) + u, eight + m)
    BY <1>2, <2>2, <2>4, <2>5, <2>6, EPNext
  <2>8. high * Two(m) + u = value
    BY <2>3, <2>5
  <2> QED BY <2>1, <2>4, <2>7, <2>8 DEF d
<1>9. CASE n \in 17..20
  <2> DEFINE m   == n - 16
             p   == Two(m)
             mid == (value \div p) % 256
             d2  == EncodeEP(d1, mid, eight)
             u   == value % p
             a   == value \div p
             ten == 16
  <2>1. d = EncodeEP(d2, u, m)
    BY <1>9, Chunks DEF eight
  <2>2. q \in Nat /\ q > 0 /\ high = value \div q /\ high \in Nat /\ BypassTo(c, d1, high, eight)
    <3>1. n \in 9..20
      BY <1>9
    <3> HIDE DEF q, high, d1
    <3> QED BY <1>6, <3>1
  <2>3. p \in Nat /\ p > 0 /\ q = 256 * p
    <3>1. m \in 0..24 /\ m \in 0..32 /\ 8 \in 0..8 /\ m + 8 = n - 8
      BY <1>9
    <3> HIDE DEF m
    <3>2. Two(m + 8) = Two(m) * Two(8) /\ Two(8) = 256
      BY <3>1, Adding, Powers
    <3>3. Two(m) \in Nat /\ Two(m) >= 1
      BY <3>1, Doubling
    <3> QED BY <3>1, <3>2, <3>3
  <2>4. m \in 1..8 /\ eight + eight = ten /\ ten + m = n /\ ten \in 0..24
    BY <1>9, <1>8
  <2>5. p = Two(m) /\ mid = a % 256 /\ ten = 16
    OBVIOUS
  <2> HIDE DEF q, high, d1, m, p, ten
  <2>6. mid \in Nat /\ mid <= 255 /\ u \in Nat /\ u <= p - 1 /\ a \in Nat /\ value = a * p + u
    <3>1. mid \in Nat /\ mid <= 255
      BY <1>1, <2>3, ByteFits
    <3>2. u \in Nat /\ u <= p - 1
      BY <1>1, <2>3, ByteFits
    <3>3. a \in Nat
      BY <1>1, <2>3, ByteFits
    <3>4. value = a * p + u
      BY <1>1, <2>3, ByteFits
    <3> QED BY <3>1, <3>2, <3>3, <3>4
  <2>7. a = high * 256 + mid
    <3>1. value \div p = (value \div (256 * p)) * 256 + ((value \div p) % 256)
      BY <1>1, <2>3, TwoSteps
    <3> QED BY <2>2, <2>3, <3>1
  <2> HIDE DEF mid, u, a
  <2>8. mid <= Two(eight) - 1 /\ u <= Two(m) - 1
    BY <1>2, <2>5, <2>6
  <2>10. BypassTo(c, d2, high * Two(eight) + mid, eight + eight)
    BY <1>2, <2>2, <2>6, <2>8, EPNext
  <2>11. high * Two(eight) + mid = a
    BY <1>2, <2>7
  <2> HIDE DEF d2, d
  <2>12. BypassTo(c, d2, a, ten)
    BY <2>4, <2>10, <2>11
  <2>13. BypassTo(c, EncodeEP(d2, u, m), a * Two(m) + u, ten + m)
    BY <2>4, <2>6, <2>8, <2>12, EPNext
  <2>14. a * Two(m) + u = value
    BY <2>5, <2>6
  <2> QED BY <2>1, <2>4, <2>13, <2>14 DEF d
<1>10. n \in 1..8 \/ n \in 9..16 \/ n \in 17..20
  BY <1>1
<1> QED BY <1>5, <1>7, <1>9, <1>10

(* The decoder that has read as many bits as the engine has coded, and     *)
(* what those bits must be for it to be where the engine is.               *)
Read(c, b) == Fetch(b, 0, ReadBits(c))

Decoder(range, offset, read, val) ==
  [range |-> range, offset |-> offset, read |-> read, val |-> val]

At(c, b, val) == Decoder(c.range, Read(c, b) - Value(c), ReadBits(c), val)

Inside(c, b) == Value(c) <= Read(c, b) /\ Read(c, b) < Value(c) + c.range

(* From a stream that lies inside the interval of d the decoder gets from  *)
(* c to d with a bin.                                                      *)
Follows(c, d, coded) ==
  \A b \in Bits :
    Inside(d, b) =>
      /\ Inside(c, b)
      /\ \A val : Decode(b, At(c, b, val), coded) = At(d, b, coded.val)

(* The n bits behind those read, and where they take the offset.           *)
Ahead(c, d, b, add, range, n, o, f, w) ==
  /\ o \in Int /\ f \in Nat /\ w \in Nat /\ f < w
  /\ o = Read(c, b) - Value(c) /\ f = Fetch(b, ReadBits(c), n) /\ w = Two(n)
  /\ Read(d, b) - Value(d) = o * w + f - add
  /\ add <= o * w + f /\ o * w + f < add + range
  /\ d.range = range /\ ReadBits(d) = ReadBits(c) + n
  /\ Inside(c, b) <=> 0 <= o /\ o < c.range

(* A stream inside the narrower interval of d, seen from c. *)
LEMMA LookingAhead ==
  ASSUME NEW c, Coding(c), NEW d, NEW add, add \in Nat, NEW range, range \in Nat, NEW n, n \in 0..20,
         Narrows(c, d, add, range, n), NEW b, b \in Bits, Inside(d, b)
  PROVE  \E o, f, w : Ahead(c, d, b, add, range, n, o, f, w)
<1> DEFINE p == ReadBits(c)
           v == Value(c)
           w == Two(n)
           x == Fetch(b, 0, p)
           f == Fetch(b, p, n)
           o == x - v
           none == 0
<1>1. /\ d.range = range /\ Value(d) = v * w + add /\ ReadBits(d) = p + n
      /\ v \in Nat /\ p \in Nat
  BY DEF Narrows
<1>2. w \in Nat
  <2>1. n \in 0..32
    OBVIOUS
  <2> QED BY <2>1, Doubling
<1>7. c.range \in Nat
  BY DEF Coding, Ready
<1>6. Read(c, b) = x
  BY DEF Read
<1>8. none \in Nat /\ none = 0
  OBVIOUS
<1> HIDE DEF p, v, w, none
<1>3. x \in Nat
  <2>1. Fetch(b, none, p) \in Nat
    BY <1>1, <1>8, FetchIn
  <2> QED BY <2>1, <1>8
<1>4. f \in Nat /\ f < w
  <2>0. n \in Nat
    OBVIOUS
  <2>1. Fetch(b, p, n) \in Nat
    BY <1>1, <2>0, FetchIn
  <2>2. Fetch(b, p, n) < Two(n)
    BY <1>1, FetchBelow
  <2> QED BY <2>1, <2>2 DEF w
<1>5. Read(d, b) = x * w + f
  <2>1. Fetch(b, none, p + n) = Fetch(b, none, p) * Two(n) + Fetch(b, none + p, n)
    BY <1>1, <1>8, FetchMore
  <2>2. none + p = p
    BY <1>1, <1>8
  <2> QED BY <1>1, <1>8, <2>1, <2>2 DEF Read, w
<1>10. v * w + add <= x * w + f /\ x * w + f < (v * w + add) + range
  BY <1>1, <1>5 DEF Inside
<1>11. o * w = x * w - v * w /\ x * w \in Nat /\ v * w \in Nat /\ o \in Int /\ o = x - v
  <2> HIDE DEF x
  <2> QED BY <1>1, <1>2, <1>3
<1>15. Inside(c, b) <=> v <= x /\ x < v + c.range
  BY <1>6 DEF Inside, v
<1> HIDE DEF x, f, o
<1>12. Read(d, b) - Value(d) = o * w + f - add /\ add <= o * w + f /\ o * w + f < add + range
  BY <1>1, <1>4, <1>5, <1>10, <1>11
<1>13. Inside(c, b) <=> 0 <= o /\ o < c.range
  BY <1>1, <1>3, <1>7, <1>11, <1>15
<1>14. o = Read(c, b) - Value(c) /\ f = Fetch(b, ReadBits(c), n) /\ w = Two(n)
  BY <1>6 DEF o, f, w, x, v, p
<1>16. ReadBits(d) = ReadBits(c) + n
  BY <1>1 DEF p
<1>17. Ahead(c, d, b, add, range, n, o, f, w)
  BY <1>1, <1>2, <1>4, <1>11, <1>12, <1>13, <1>14, <1>16 DEF Ahead
<1> QED BY <1>17

(* The decoder renormalises by as many bits as the engine. *)
LEMMA Renorm ==
  ASSUME NEW range, range \in Nat, NEW n, n \in 0..8, range * Two(n) \in 256..510
  PROVE  Min({k \in 0..8 : range * 2^k >= 256}) = n
<1> DEFINE S == {k \in 0..8 : range * Two(k) >= 256}
<1>1. n \in S
  OBVIOUS
<1>2. \A k \in S : n <= k
  <2> SUFFICES ASSUME NEW k \in 0..8, range * Two(k) >= 256, k < n PROVE FALSE
    OBVIOUS
  <2> DEFINE j == n - k
             x == Two(k)
             y == Two(j)
  <2>1. j \in 1..8 /\ k \in 0..24 /\ j \in 0..8 /\ k + j = n
    OBVIOUS
  <2>2. Two(k + j) = x * y
    <3> HIDE DEF j
    <3> QED BY <2>1, Adding
  <2>3. x \in Nat /\ y \in Nat /\ y >= 2
    <3>1. k \in 0..32 /\ j \in 0..32 /\ j - 1 \in 0..31 /\ (j - 1) + 1 = j /\ j - 1 \in 0..32
      BY <2>1
    <3> HIDE DEF j
    <3>2. Two(j - 1) >= 1 /\ Two(j - 1) \in Nat /\ Two((j - 1) + 1) = 2 * Two(j - 1)
      BY <3>1, Doubling
    <3>3. x \in Nat /\ y \in Nat
      BY <3>1, Doubling
    <3> QED BY <3>1, <3>2, <3>3
  <2>4. range * (x * y) <= 510 /\ range * x >= 256
    BY <2>1, <2>2
  <2> HIDE DEF x, y, j
  <2> DEFINE z == range * x
  <2>5. z \in Nat /\ z >= 256 /\ range * (x * y) = z * y
    BY <2>3, <2>4
  <2> HIDE DEF z
  <2>6. z * y >= 2 * z
    BY <2>3, <2>5
  <2>7. z * y <= 510
    BY <2>4, <2>5
  <2> QED BY <2>3, <2>5, <2>6, <2>7
<1>3. Min({k \in 0..8 : range * 2^k >= 256}) = CHOOSE x \in S : \A y \in S : x <= y
  BY DEF Min, Two
<1>4. S \subseteq Nat
  OBVIOUS
<1> HIDE DEF S
<1>5. \A x \in S : (\A y \in S : x <= y) => x = n
  BY <1>1, <1>2, <1>4
<1>6. (CHOOSE x \in S : \A y \in S : x <= y) = n
  BY <1>1, <1>2, <1>5
<1> QED BY <1>3, <1>6

(* Renormalisation reads as many bits as it doubles the range. *)
LEMMA RenormalizedIs ==
  ASSUME NEW b, NEW range, range \in Nat, NEW n, n \in 0..8, range * Two(n) \in 256..510,
         NEW offset, NEW read, NEW val
  PROVE  Renormalized(b, Decoder(range, offset, read, val))
           = Decoder(range * Two(n), offset * Two(n) + Fetch(b, read, n), read + n, val)
<1> DEFINE d == Decoder(range, offset, read, val)
           m == Min({k \in 0..8 : d.range * 2^k >= 256})
<1>1. d.range = range /\ d.offset = offset /\ d.read = read
  BY DEF Decoder
<1>2. m = n
  <2>1. m = Min({k \in 0..8 : range * 2^k >= 256})
    BY <1>1
  <2> HIDE DEF m
  <2> QED BY <2>1, Renorm
<1>3. Renormalized(b, d) = [d EXCEPT !.range = @ * 2^m, !.offset = @ * 2^m + Fetch(b, d.read, m),
                                     !.read = @ + m]
  BY Zenon DEF Renormalized
<1> HIDE DEF m
<1>4. Renormalized(b, d) = [d EXCEPT !.range = range * Two(n), !.offset = offset * Two(n) + Fetch(b, read, n),
                                     !.read = read + n]
  BY <1>1, <1>2, <1>3 DEF Two
<1> QED BY <1>4 DEF Decoder

(* If a multiple of w plus f is in a part of the interval, so is the multiple. *)
LEMMA InPart ==
  ASSUME NEW o, o \in Int, NEW f, f \in Nat, NEW w, w \in Nat, f < w, NEW m, m \in Int, NEW r, r \in Nat,
         m * w <= o * w + f, o * w + f < m * w + r * w
  PROVE  m <= o /\ o < m + r
<1>1. CASE o >= m + r
  <2>1. o * w >= (m + r) * w /\ (m + r) * w = m * w + r * w
    BY <1>1
  <2>2. o * w \in Int /\ m * w \in Int /\ r * w \in Int
    OBVIOUS
  <2> QED BY <2>1, <2>2
<1>2. CASE o <= m - 1
  <2>1. o * w <= (m - 1) * w /\ (m - 1) * w = m * w - w
    BY <1>2
  <2>2. o * w \in Int /\ m * w \in Int
    OBVIOUS
  <2> QED BY <2>1, <2>2
<1> QED BY <1>1, <1>2

Rewrites(e, x, y, z, d) == [e EXCEPT !.range = x, !.offset = y, !.val = z] = d

RewritesTo(e, x, z, d) == [e EXCEPT !.range = x, !.val = z] = d

(* The decoder takes the upper part of its interval. *)
LEMMA Redecoded ==
  ASSUME NEW a, NEW o, NEW p, NEW v, NEW e, e = Decoder(a, o, p, v), NEW x, NEW y, NEW z
  PROVE  Rewrites(e, x, y, z, Decoder(x, y, p, z))
<1> DEFINE e1 == [e EXCEPT !.range = x]
           e2 == [e1 EXCEPT !.offset = y]
           e3 == [e2 EXCEPT !.val = z]
<1>1. [e EXCEPT !.range = x, !.offset = y, !.val = z] = e3
  OBVIOUS
<1>2. e1 = Decoder(x, o, p, v)
  BY DEF Decoder
<1> HIDE DEF e1
<1>3. e2 = Decoder(x, y, p, v)
  BY <1>2 DEF Decoder
<1> HIDE DEF e2
<1>4. e3 = Decoder(x, y, p, z)
  BY <1>3 DEF Decoder
<1> QED BY <1>1, <1>4 DEF e1, e2, Rewrites

(* The decoder takes the lower part of its interval. *)
LEMMA RedecodedWith ==
  ASSUME NEW a, NEW o, NEW p, NEW v, NEW e, e = Decoder(a, o, p, v), NEW x, NEW z
  PROVE  RewritesTo(e, x, z, Decoder(x, o, p, z))
<1> DEFINE e1 == [e EXCEPT !.range = x]
           e2 == [e1 EXCEPT !.val = z]
<1>1. [e EXCEPT !.range = x, !.val = z] = e2
  OBVIOUS
<1>2. e1 = Decoder(x, o, p, v)
  BY DEF Decoder
<1> HIDE DEF e1
<1>3. e2 = Decoder(x, o, p, z)
  BY <1>2 DEF Decoder
<1> QED BY <1>1, <1>3 DEF e1, RewritesTo

(* A bin coded with a context. *)
LEMMA BinFollows ==
  ASSUME NEW c, Coding(c), NEW row, row \in LPSRows, NEW lps, lps \in BOOLEAN,
         NEW coded, coded = [kind |-> "context", row |-> row, val |-> lps]
  PROVE  Follows(c, EncodeBin(c, row, lps), coded)
<1> DEFINE d     == EncodeBin(c, row, lps)
           uiLPS == LPSRange(row, c.range)
           mps   == c.range - uiLPS
<1> SUFFICES ASSUME NEW b \in Bits, Inside(d, b)
             PROVE  Inside(c, b) /\ \A val : Decode(b, At(c, b, val), coded) = At(d, b, coded.val)
  BY DEF Follows
<1>1. c.range \in 256..510
  BY DEF Coding, Ready, Written, Carries
<1>2. uiLPS \in 6..240 /\ mps \in 128..504 /\ mps = c.range - uiLPS
  BY <1>1, LPSRanges
<1>3. \A val : Decode(b, At(c, b, val), coded) = DecodeDecision(b, At(c, b, val), row)
  BY DEF Decode
<1> DEFINE offset == Read(c, b) - Value(c)
           read   == ReadBits(c)
           Lps(val) == IF offset >= mps THEN Decoder(uiLPS, offset - mps, read, TRUE)
                                        ELSE Decoder(mps, offset, read, FALSE)
<1>4. \A val : DecodeDecision(b, At(c, b, val), row) = Renormalized(b, Lps(val))
  <2> TAKE val
  <2> DEFINE e == At(c, b, val)
  <2>1. e.range = c.range /\ e.offset = offset
        /\ e = [range |-> c.range, offset |-> offset, read |-> read, val |-> val]
    BY DEF At, Decoder
  <2>2. LPSRange(row, e.range) = uiLPS /\ e.range - LPSRange(row, e.range) = mps
    BY <2>1
  <2>3. DecodeDecision(b, e, row)
          = Renormalized(b, IF e.offset >= mps
                         THEN [e EXCEPT !.range = uiLPS, !.offset = @ - mps, !.val = TRUE]
                         ELSE [e EXCEPT !.range = mps, !.val = FALSE])
    BY <2>2, Zenon DEF DecodeDecision
  <2> HIDE DEF uiLPS, mps, offset, read, e
  <2>6. e = Decoder(c.range, offset, read, val)
    BY <2>1 DEF Decoder
  <2>4. [e EXCEPT !.range = uiLPS, !.offset = @ - mps, !.val = TRUE] = Decoder(uiLPS, offset - mps, read, TRUE)
    <3> DEFINE off == e.offset - mps
               yes == TRUE
    <3>1. [e EXCEPT !.range = uiLPS, !.offset = off, !.val = yes] = Decoder(uiLPS, off, read, yes)
      <4> HIDE DEF off, yes
      <4>1. Rewrites(e, uiLPS, off, yes, Decoder(uiLPS, off, read, yes))
        BY <2>6, Redecoded
      <4> QED BY <4>1 DEF Rewrites
    <3> QED BY <2>1, <3>1
  <2>5. [e EXCEPT !.range = mps, !.val = FALSE] = Decoder(mps, offset, read, FALSE)
    <3> DEFINE no == FALSE
    <3>1. [e EXCEPT !.range = mps, !.val = no] = Decoder(mps, offset, read, no)
      <4> HIDE DEF no
      <4>1. RewritesTo(e, mps, no, Decoder(mps, offset, read, no))
        BY <2>6, RedecodedWith
      <4> QED BY <4>1 DEF RewritesTo
    <3> QED BY <3>1
  <2> QED BY <2>1, <2>3, <2>4, <2>5 DEF e
<1>5. CASE lps
  <2> DEFINE n     == RenormBits(uiLPS)
             add   == mps * Two(n)
             range == uiLPS * Two(n)
  <2>1. n \in 0..8 /\ range \in 256..510
    BY <1>2, Renormalised
  <2>2. Narrows(c, d, add, range, n)
    BY <1>5, BinNarrows
  <2>3. Two(n) \in Nat
    <3>1. n \in 0..32
      BY <2>1
    <3> HIDE DEF n
    <3> QED BY <3>1, Doubling
  <2>4. add \in Nat /\ range \in Nat /\ n \in 0..20
    BY <1>2, <2>1, <2>3
  <2>9. add = mps * Two(n) /\ range = uiLPS * Two(n)
    OBVIOUS
  <2> HIDE DEF d, add, range, n
  <2>5. PICK o, f, w : Ahead(c, d, b, add, range, n, o, f, w)
    BY <2>2, <2>4, LookingAhead
  <2>6. mps <= o /\ o < mps + uiLPS
    <3>1. mps * w <= o * w + f /\ o * w + f < mps * w + uiLPS * w /\ o \in Int /\ f \in Nat /\ w \in Nat /\ f < w
      BY <2>5, <2>9 DEF Ahead
    <3>2. mps \in Int /\ uiLPS \in Nat
      BY <1>2
    <3> HIDE DEF uiLPS, mps
    <3> QED BY <3>1, <3>2, InPart
  <2>7. Inside(c, b) /\ offset = o /\ o >= mps
    <3>1. (Inside(c, b) <=> 0 <= o /\ o < c.range) /\ o = Read(c, b) - Value(c) /\ o \in Int
      BY <2>5 DEF Ahead
    <3>2. o < c.range /\ 0 <= o /\ o >= mps
      <4> HIDE DEF mps, uiLPS
      <4> QED BY <1>1, <1>2, <2>6, <3>1
    <3> QED BY <3>1, <3>2
  <2>8. \A val : Decode(b, At(c, b, val), coded) = At(d, b, coded.val)
    <3> TAKE val
    <3>1. Decode(b, At(c, b, val), coded) = Renormalized(b, Decoder(uiLPS, o - mps, read, TRUE))
      BY <1>3, <1>4, <2>7
    <3>2. Renormalized(b, Decoder(uiLPS, o - mps, read, TRUE))
            = Decoder(uiLPS * Two(n), (o - mps) * Two(n) + Fetch(b, read, n), read + n, TRUE)
      <4>1. uiLPS \in Nat /\ uiLPS * Two(n) \in 256..510
        BY <1>2, <2>1, <2>9
      <4> DEFINE off == o - mps
                 yes == TRUE
      <4> HIDE DEF uiLPS, mps, read, off, yes
      <4>2. Renormalized(b, Decoder(uiLPS, off, read, yes))
              = Decoder(uiLPS * Two(n), off * Two(n) + Fetch(b, read, n), read + n, yes)
        BY <2>1, <4>1, RenormalizedIs
      <4> QED BY <4>2 DEF off, yes
    <3>3. (o - mps) * Two(n) + Fetch(b, read, n) = Read(d, b) - Value(d)
      <4>1. w = Two(n) /\ f = Fetch(b, read, n) /\ Read(d, b) - Value(d) = o * w + f - add /\ o \in Int /\ f \in Nat
        BY <2>5 DEF Ahead
      <4>2. (o - mps) * w = o * w - mps * w /\ o * w \in Int /\ mps * w \in Int
        <5>1. mps \in Int /\ w \in Int /\ o \in Int
          BY <1>2, <2>3, <4>1
        <5> HIDE DEF mps
        <5> QED BY <5>1
      <4> HIDE DEF mps
      <4> QED BY <2>9, <4>1, <4>2
    <3>4. uiLPS * Two(n) = d.range /\ read + n = ReadBits(d)
      BY <2>5, <2>9 DEF Ahead
    <3>5. coded.val = TRUE
      BY <1>5
    <3> QED BY <3>1, <3>2, <3>3, <3>4, <3>5 DEF At
  <2> QED BY <2>7, <2>8 DEF d
<1>6. CASE ~lps
  <2> DEFINE n     == MPSShift(mps)
             add   == 0
             range == mps * Two(n)
  <2>1. n \in 0..8 /\ range \in 256..510
    <3>1. mps \in 128..508
      BY <1>2
    <3> HIDE DEF mps
    <3> QED BY <3>1, MPSRenormalised
  <2>2. Narrows(c, d, add, range, n)
    BY <1>6, BinNarrows
  <2>3. Two(n) \in Nat
    <3>1. n \in 0..32
      BY <2>1
    <3> HIDE DEF n
    <3> QED BY <3>1, Doubling
  <2>4. add \in Nat /\ range \in Nat /\ n \in 0..20
    BY <1>2, <2>1, <2>3
  <2>9. add = 0 /\ range = mps * Two(n)
    OBVIOUS
  <2> HIDE DEF d, add, range, n
  <2>5. PICK o, f, w : Ahead(c, d, b, add, range, n, o, f, w)
    BY <2>2, <2>4, LookingAhead
  <2>6. 0 <= o /\ o < mps
    <3> DEFINE none == 0
    <3>1. o \in Int /\ f \in Nat /\ w \in Nat /\ f < w /\ 0 <= o * w + f /\ o * w + f < 0 + mps * w
      BY <2>5, <2>9 DEF Ahead
    <3>2. none * w = 0 /\ none \in Int /\ mps \in Nat
      BY <1>2, <3>1
    <3>3. none * w <= o * w + f /\ o * w + f < none * w + mps * w
      BY <3>1, <3>2
    <3>5. none = 0
      OBVIOUS
    <3> HIDE DEF mps, none
    <3>4. none <= o /\ o < none + mps
      BY <3>1, <3>2, <3>3, InPart
    <3> QED BY <3>2, <3>4, <3>5
  <2>7. Inside(c, b) /\ offset = o /\ ~ (o >= mps)
    <3>1. (Inside(c, b) <=> 0 <= o /\ o < c.range) /\ o = Read(c, b) - Value(c) /\ o \in Int
      BY <2>5 DEF Ahead
    <3>2. o < c.range /\ 0 <= o /\ ~ (o >= mps)
      <4> HIDE DEF mps, uiLPS
      <4> QED BY <1>1, <1>2, <2>6, <3>1
    <3> QED BY <3>1, <3>2
  <2>8. \A val : Decode(b, At(c, b, val), coded) = At(d, b, coded.val)
    <3> TAKE val
    <3>1. Decode(b, At(c, b, val), coded) = Renormalized(b, Decoder(mps, o, read, FALSE))
      BY <1>3, <1>4, <2>7
    <3>2. Renormalized(b, Decoder(mps, o, read, FALSE))
            = Decoder(mps * Two(n), o * Two(n) + Fetch(b, read, n), read + n, FALSE)
      <4>1. mps \in Nat /\ mps * Two(n) \in 256..510
        BY <1>2, <2>1, <2>9
      <4> DEFINE off == o
                 no  == FALSE
      <4> HIDE DEF mps, read, off, no
      <4>2. Renormalized(b, Decoder(mps, off, read, no))
              = Decoder(mps * Two(n), off * Two(n) + Fetch(b, read, n), read + n, no)
        BY <2>1, <4>1, RenormalizedIs
      <4> QED BY <4>2 DEF off, no
    <3>3. o * Two(n) + Fetch(b, read, n) = Read(d, b) - Value(d)
      <4>1. w = Two(n) /\ f = Fetch(b, read, n) /\ Read(d, b) - Value(d) = o * w + f - add /\ o \in Int /\ f \in Nat
        BY <2>5 DEF Ahead
      <4>2. o * w \in Int
        BY <2>3, <4>1
      <4> QED BY <2>9, <4>1, <4>2
    <3>4. mps * Two(n) = d.range /\ read + n = ReadBits(d)
      BY <2>5, <2>9 DEF Ahead
    <3>5. coded.val = FALSE
      BY <1>6
    <3> QED BY <3>1, <3>2, <3>3, <3>4, <3>5 DEF At
  <2> QED BY <2>7, <2>8 DEF d
<1> QED BY <1>5, <1>6

(* Bypass bins. *)
LEMMA BypassIs ==
  ASSUME NEW c, NEW b, NEW val, NEW n
  PROVE  DecodeBypass(b, At(c, b, val), n)
           = Decoder(c.range,
                     ((Read(c, b) - Value(c)) * Two(n) + Fetch(b, ReadBits(c), n)) % c.range,
                     ReadBits(c) + n,
                     ((Read(c, b) - Value(c)) * Two(n) + Fetch(b, ReadBits(c), n)) \div c.range)
<1> DEFINE e == At(c, b, val)
           offset == e.offset * 2^n + Fetch(b, e.read, n)
<1>1. e.range = c.range /\ e.offset = Read(c, b) - Value(c) /\ e.read = ReadBits(c)
      /\ e = [range |-> c.range, offset |-> e.offset, read |-> e.read, val |-> val]
  BY DEF At, Decoder
<1>2. offset = (Read(c, b) - Value(c)) * Two(n) + Fetch(b, ReadBits(c), n)
  BY <1>1 DEF Two
<1>3. DecodeBypass(b, e, n) = [e EXCEPT !.offset = offset % e.range, !.read = @ + n, !.val = offset \div e.range]
  BY Zenon DEF DecodeBypass
<1> HIDE DEF e, offset
<1>4. DecodeBypass(b, e, n) = [e EXCEPT !.offset = offset % c.range, !.read = ReadBits(c) + n, !.val = offset \div c.range]
  BY <1>1, <1>3
<1>5. DecodeBypass(b, e, n) = Decoder(c.range, offset % c.range, ReadBits(c) + n, offset \div c.range)
  BY <1>1, <1>4 DEF Decoder
<1> QED BY <1>2, <1>5 DEF e

(* The decoder reads the bypass bins that were put. *)
LEMMA BypassDecoded ==
  ASSUME NEW c, Coding(c), NEW d, NEW value, value \in Nat, NEW n, n \in 1..20, value <= Two(n) - 1,
         BypassTo(c, d, value, n), NEW b, b \in Bits, Inside(d, b)
  PROVE  Inside(c, b) /\ \A val : DecodeBypass(b, At(c, b, val), n) = At(d, b, value)
<1> DEFINE range == c.range
           add   == c.range * value
<1>1. range \in Nat /\ range > 0
  BY DEF Coding, Ready, Written, Carries
<1>2. Narrows(c, d, add, range, n) /\ d.range = range
  BY DEF BypassTo
<1>3. add \in Nat /\ n \in 0..20 /\ add = range * value
  <2> HIDE DEF range
  <2> QED BY <1>1 DEF range
<1> HIDE DEF add
<1>4. PICK o, f, w : Ahead(c, d, b, add, range, n, o, f, w)
  <2> HIDE DEF range
  <2> QED BY <1>1, <1>2, <1>3, LookingAhead
<1> DEFINE x == o * w + f
<1>21. o \in Int /\ f \in Nat /\ w \in Nat /\ f < w
  BY <1>4 DEF Ahead
<1>22. Read(d, b) - Value(d) = o * w + f - add
  BY <1>4 DEF Ahead
<1>23. add <= x /\ x < add + range
  BY <1>4 DEF Ahead
<1>12. o = Read(c, b) - Value(c) /\ f = Fetch(b, ReadBits(c), n) /\ w = Two(n)
  BY <1>4 DEF Ahead
<1>13. Inside(c, b) <=> 0 <= o /\ o < c.range
  BY <1>4 DEF Ahead
<1>14. ReadBits(d) = ReadBits(c) + n
  BY <1>4 DEF Ahead
<1>6. 0 <= o /\ o < range
  <2> DEFINE none == 0
  <2>1. none * w <= o * w + f /\ none \in Int
    <3>1. none * w = 0
      BY <1>21, <1>22, <1>23
    <3> QED BY <1>3, <1>21, <1>22, <1>23, <3>1
  <2>2. o * w + f < none * w + range * w
    <3>1. value + 1 <= w
      BY <1>21, <1>22, <1>23, <1>12
    <3> HIDE DEF range
    <3>2. range * (value + 1) <= range * w
      BY <1>1, <1>21, <1>22, <1>23, <3>1
    <3>3. range * (value + 1) = range * value + range /\ range * w \in Nat
      BY <1>1, <1>21, <1>22, <1>23
    <3>4. none * w = 0
      BY <1>21, <1>22, <1>23
    <3>5. x < range * w
      <4> DEFINE a == range * w
      <4>1. a \in Nat /\ add + range <= a /\ x < add + range /\ x \in Int /\ add \in Nat /\ range \in Nat
        BY <1>1, <1>3, <1>21, <1>22, <1>23, <3>2, <3>3
      <4> HIDE DEF a, x
      <4>2. x < a
        BY <4>1
      <4> QED BY <4>2 DEF a
    <3>6. none * w + range * w = range * w
      BY <3>3, <3>4
    <3> QED BY <3>5, <3>6
  <2>3. none = 0
    OBVIOUS
  <2> HIDE DEF none, range
  <2>4. none <= o /\ o < none + range
    BY <1>1, <1>21, <1>22, <1>23, <2>1, <2>2, InPart
  <2> QED BY <1>1, <2>3, <2>4
<1>7. Inside(c, b)
  BY <1>6, <1>13
<1>8. x \div range = value /\ x % range = x - add
  <2> DEFINE r == x - add
  <2>1. x \in Nat /\ r \in Nat /\ r < range /\ x = value * range + r
    <3>1. x \in Int
      BY <1>21, <1>22, <1>23
    <3>2. range * value = value * range
      <4> HIDE DEF range
      <4> QED BY <1>1
    <3> HIDE DEF x, range
    <3> QED BY <1>1, <1>3, <1>21, <1>22, <1>23, <3>1, <3>2
  <2>2. value \in Int
    OBVIOUS
  <2> HIDE DEF r, x, range
  <2>3. x \div range = value /\ x % range = r
    BY <1>1, <2>1, <2>2, QuotientIs
  <2> QED BY <2>3 DEF r
<1>9. ASSUME NEW val PROVE DecodeBypass(b, At(c, b, val), n) = At(d, b, value)
  <2>1. DecodeBypass(b, At(c, b, val), n) = Decoder(range, x % range, ReadBits(c) + n, x \div range)
    BY <1>12, BypassIs
  <2>2. x % range = Read(d, b) - Value(d)
    <3>1. x = o * w + f
      OBVIOUS
    <3> HIDE DEF x, range
    <3>2. x - add = Read(d, b) - Value(d)
      BY <1>3, <1>21, <1>22, <3>1
    <3> QED BY <1>8, <3>2
  <2> HIDE DEF x
  <2> QED BY <1>2, <1>8, <1>14, <2>1, <2>2 DEF At
<1> QED BY <1>7, <1>9

(* The lower part of the interval was kept. *)
Lower(c, d, b, range) ==
  /\ Inside(c, b)
  /\ ~ (Read(c, b) - Value(c) >= range)
  /\ \A v : Renormalized(b, Decoder(range, Read(c, b) - Value(c), ReadBits(c), v)) = At(d, b, v)

(* A decoder in the lower part renormalises to where the engine is. *)
LEMMA LowerPart ==
  ASSUME NEW c, Coding(c), NEW part, part \in 128..508, part <= c.range,
         NEW n, n = MPSShift(part), NEW d, Narrows(c, d, 0, part * Two(n), n),
         NEW b, b \in Bits, Inside(d, b)
  PROVE  Lower(c, d, b, part)
<1> DEFINE add   == 0
           range == part * Two(n)
           offset == Read(c, b) - Value(c)
           read   == ReadBits(c)
<1>1. n \in 0..8 /\ range \in 256..510
  BY MPSRenormalised
<1>2. c.range \in Nat /\ part \in Nat
  BY DEF Coding, Ready, Written, Carries
<1>3. Two(n) \in Nat
  <2>1. n \in 0..32
    BY <1>1
  <2> QED BY <2>1, Doubling
<1>4. add \in Nat /\ range \in Nat /\ n \in 0..20
  BY <1>1
<1>5. Narrows(c, d, add, range, n)
  OBVIOUS
<1>6. add = 0 /\ range = part * Two(n)
  OBVIOUS
<1> HIDE DEF add, range, read, offset
<1>7. PICK o, f, w : Ahead(c, d, b, add, range, n, o, f, w)
  BY <1>4, <1>5, LookingAhead
<1>8. 0 <= o /\ o < part
  <2> DEFINE none == 0
  <2>1. o \in Int /\ f \in Nat /\ w \in Nat /\ f < w /\ 0 <= o * w + f /\ o * w + f < 0 + part * w
    BY <1>7, <1>6 DEF Ahead
  <2>2. none * w = 0 /\ none \in Int
    BY <2>1
  <2>3. none * w <= o * w + f /\ o * w + f < none * w + part * w
    BY <2>1, <2>2
  <2>5. none = 0
    OBVIOUS
  <2> HIDE DEF none
  <2>4. none <= o /\ o < none + part
    BY <1>2, <2>1, <2>2, <2>3, InPart
  <2> QED BY <1>2, <2>4, <2>5
<1>9. Inside(c, b) /\ offset = o /\ ~ (o >= part)
  <2>1. (Inside(c, b) <=> 0 <= o /\ o < c.range) /\ o = Read(c, b) - Value(c) /\ o \in Int
    BY <1>7 DEF Ahead
  <2>2. o < c.range /\ 0 <= o /\ ~ (o >= part)
    BY <1>2, <1>8, <2>1
  <2> QED BY <2>1, <2>2 DEF offset
<1>10. ASSUME NEW v PROVE Renormalized(b, Decoder(part, offset, read, v)) = At(d, b, v)
  <2>1. part * Two(n) \in 256..510
    BY <1>1, <1>6
  <2>2. Renormalized(b, Decoder(part, offset, read, v))
          = Decoder(part * Two(n), offset * Two(n) + Fetch(b, read, n), read + n, v)
    BY <1>1, <1>2, <2>1, RenormalizedIs
  <2>3. offset * Two(n) + Fetch(b, read, n) = Read(d, b) - Value(d)
    <3>1. w = Two(n) /\ f = Fetch(b, read, n) /\ Read(d, b) - Value(d) = o * w + f - add /\ o \in Int /\ f \in Nat
      BY <1>7 DEF Ahead, read
    <3>2. o * w \in Int
      BY <1>3, <3>1
    <3> QED BY <1>6, <1>9, <3>1, <3>2
  <2>4. part * Two(n) = d.range /\ read + n = ReadBits(d)
    BY <1>7, <1>6 DEF Ahead, read
  <2> QED BY <2>2, <2>3, <2>4 DEF At
<1> QED BY <1>9, <1>10 DEF Lower, offset, read

(* FinishEncodeCTU for a CTU that does not end its tile. *)
LEMMA TerminatingFollows ==
  ASSUME NEW c, Coding(c)
  PROVE  Follows(c, EncodeTerminatingBit(c, 0), End(0))
<1> DEFINE d      == EncodeTerminatingBit(c, 0)
           part   == c.range - 2
           n      == MPSShift(part)
           coded  == End(0)
<1> SUFFICES ASSUME NEW b \in Bits, Inside(d, b)
             PROVE  Inside(c, b) /\ \A val : Decode(b, At(c, b, val), coded) = At(d, b, coded.val)
  BY DEF Follows
<1>1. c.range \in 256..510 /\ part \in 128..508 /\ part <= c.range
  BY DEF Coding, Ready, Written, Carries
<1>2. Narrows(c, d, 0, part * Two(n), n)
  BY TerminatingNarrows
<1>3. coded.kind = "terminating" /\ coded.val = 0
  BY DEF End
<1>9. n = MPSShift(part)
  OBVIOUS
<1> HIDE DEF d, n, coded
<1>4. Lower(c, d, b, part)
  <2> HIDE DEF part
  <2> QED BY <1>1, <1>2, <1>9, LowerPart
<1>5. ASSUME NEW val PROVE Decode(b, At(c, b, val), coded) = At(d, b, coded.val)
  <2> DEFINE e == At(c, b, val)
             o == Read(c, b) - Value(c)
             none == 0
  <2>1. Decode(b, e, coded) = DecodeTerminate(b, e)
    BY <1>3 DEF Decode
  <2>2. e.range = c.range /\ e.offset = o
    BY DEF At, Decoder
  <2>3. DecodeTerminate(b, e) = IF e.offset >= e.range - 2
                                THEN [e EXCEPT !.range = e.range - 2, !.val = 1]
                                ELSE Renormalized(b, [e EXCEPT !.range = e.range - 2, !.val = 0])
    BY Zenon DEF DecodeTerminate
  <2>4. e = Decoder(c.range, o, ReadBits(c), val)
    BY DEF At
  <2>5. ~ (o >= part)
    BY <1>4 DEF Lower
  <2>6. none = 0
    OBVIOUS
  <2> HIDE DEF e, o, none
  <2>7. DecodeTerminate(b, e) = Renormalized(b, [e EXCEPT !.range = part, !.val = none])
    BY <2>2, <2>3, <2>5, <2>6
  <2> HIDE DEF part
  <2>8. RewritesTo(e, part, none, Decoder(part, o, ReadBits(c), none))
    BY <2>4, RedecodedWith
  <2>9. Renormalized(b, Decoder(part, o, ReadBits(c), none)) = At(d, b, none)
    BY <1>4 DEF Lower, o
  <2> QED BY <1>3, <2>1, <2>6, <2>7, <2>8, <2>9 DEF e, RewritesTo
<1>6. Inside(c, b)
  BY <1>4 DEF Lower
<1> QED BY <1>5, <1>6

(* The bypass bins of one value. *)
LEMMA BypassFollows ==
  ASSUME NEW c, Coding(c), NEW value, NEW n, Fits(value, n),
         NEW coded, coded = [kind |-> "bypass", row |-> n, val |-> value]
  PROVE  Follows(c, EncodeBinsEP(c, value, n), coded)
<1> DEFINE d == EncodeBinsEP(c, value, n)
<1>1. BypassTo(c, d, value, n)
  BY BinsEPNarrows
<1>2. value \in Nat /\ n \in 1..20 /\ value <= Two(n) - 1
  BY DEF Fits
<1>3. coded.val = value /\ coded.kind = "bypass" /\ coded.row = n
  OBVIOUS
<1> HIDE DEF d
<1> SUFFICES ASSUME NEW b \in Bits, Inside(d, b)
             PROVE  Inside(c, b) /\ \A val : Decode(b, At(c, b, val), coded) = At(d, b, coded.val)
  BY DEF Follows, d
<1>4. Inside(c, b) /\ \A val : DecodeBypass(b, At(c, b, val), n) = At(d, b, value)
  BY <1>1, <1>2, BypassDecoded
<1>5. ASSUME NEW val PROVE Decode(b, At(c, b, val), coded) = At(d, b, coded.val)
  <2>1. Decode(b, At(c, b, val), coded) = DecodeBypass(b, At(c, b, val), n)
    BY <1>3 DEF Decode
  <2> QED BY <1>3, <1>4, <2>1
<1> QED BY <1>4, <1>5

(* A remainder: so many ones, and the suffix of its code.                  *)
Base(ones, param) == IF ones > 3 THEN (Two(ones - 3) + 2) * Two(param) ELSE ones * Two(param)

SuffixLength(ones, param) == IF ones > 3 THEN ones - 3 + param ELSE param

Parts(symbol, param, ones, suffix) ==
  /\ ones \in 0..18
  /\ suffix[2] \in 0..15 /\ suffix[1] \in Nat /\ suffix[1] <= Two(suffix[2]) - 1
  /\ suffix[2] = SuffixLength(ones, param)
  /\ symbol = suffix[1] + Base(ones, param)

Split(codes, ones, suffix) ==
  codes = <<<<Two(ones + 1) - 2, ones + 1>>>> \o IF suffix[2] > 0 THEN <<suffix>> ELSE <<>>

(* The least remainder with more than three ones. *)
LEMMA LongBase ==
  ASSUME NEW param, param \in 0..4, NEW length, length \in param..15, length # param
  PROVE  Base(3 + length - param, param) = Two(length) + 2 * Two(param)
<1> DEFINE k == length - param
           ones == 3 + length - param
           p == Two(param)
           q == Two(k)
<1>1. k \in 1..15 /\ ones > 3 /\ ones - 3 = k /\ param + k = length
  OBVIOUS
<1>2. Two(param + k) = Two(param) * Two(k) /\ Two(param) \in Nat /\ Two(k) \in Nat
  <2>1. param \in 0..32 /\ k \in 0..32 /\ param + k <= 32
    OBVIOUS
  <2> HIDE DEF k
  <2> QED BY <2>1, PowersAdd
<1>3. Base(ones, param) = (q + 2) * p
  BY <1>1 DEF Base
<1>4. Two(length) = p * q /\ p \in Nat /\ q \in Nat
  BY <1>1, <1>2
<1> HIDE DEF p, q, k
<1>5. (q + 2) * p = p * q + 2 * p
  BY <1>4
<1> QED BY <1>3, <1>4, <1>5 DEF p

(* WriteCoeffRemainExGolomb codes a remainder as its ones and its suffix. *)
LEMMA RemainderParts ==
  ASSUME NEW symbol, symbol \in Nat, symbol < Two(15), NEW param, param \in 0..4
  PROVE  \E ones, suffix : /\ Parts(symbol, param, ones, suffix)
                           /\ Split(CoeffRemainCodes(symbol, param), ones, suffix)
<1> DEFINE number == symbol - COEF_REMAIN_BIN_REDUCTION * 2^param
           length == GolombLength(number, param)
           ones   == IF number < 0 THEN symbol \div 2^param
                                   ELSE COEF_REMAIN_BIN_REDUCTION + length - param
           suffix == IF number < 0 THEN <<symbol % 2^param, param>>
                                   ELSE <<number - (2^length - 2^param), length>>
           codes  == CoeffRemainCodes(symbol, param)
           p      == Two(param)
<1>1. Split(codes, ones, suffix)
  BY DEF CoeffRemainCodes, Split, Two
<1>2. p \in {1, 2, 4, 8, 16} /\ Two(15) \in Nat
  BY Powers
<1>3. number = symbol - 3 * p
  BY DEF COEF_REMAIN_BIN_REDUCTION, Two
<1> HIDE DEF number, p
<1>4. number \in Int /\ number < Two(15)
  <2> DEFINE m == Two(15)
  <2>1. m \in Nat /\ symbol < m
    BY <1>2
  <2> HIDE DEF m
  <2>2. number \in Int /\ number < m
    BY <1>2, <1>3, <2>1
  <2> QED BY <2>2 DEF m
<1>5. number >= 0 => /\ length \in param..15
                     /\ number - (Two(length) - Two(param)) \in Nat
                     /\ number - (Two(length) - Two(param)) <= Two(length) - 1
  <2> HAVE number >= 0
  <2>1. number \in Nat /\ number < Two(15)
    BY <1>4
  <2> QED BY <2>1, GolombLengths DEF length
<1> HIDE DEF length, codes
<1>6. CASE number < 0
  <2> DEFINE k == symbol \div p
             r == symbol % p
  <2>1. k \in Nat /\ r \in 0..(p - 1) /\ symbol = k * p + r /\ p \in Nat /\ p > 0
    <3>1. p \in Nat /\ p > 0
      BY <1>2
    <3> QED BY <3>1, Division
  <2>2. k < 3
    <3>1. symbol < 3 * p /\ 3 \in Nat
      BY <1>2, <1>3, <1>6
    <3> QED BY <2>1, <3>1, Quotient
  <2>3. ones = k /\ suffix = <<r, param>>
    BY <1>6 DEF Two, p
  <2>4. suffix[1] = r /\ suffix[2] = param
    BY <2>3
  <2> HIDE DEF ones, suffix, k, r
  <2>5. ones \in 0..18 /\ ~ (ones > 3)
    BY <2>1, <2>2, <2>3
  <2>6. r \in Nat /\ r <= Two(param) - 1
    <3>1. r \in Nat /\ r <= p - 1
      BY <2>1
    <3> QED BY <3>1 DEF p
  <2>7. SuffixLength(ones, param) = param /\ Base(ones, param) = ones * p
    BY <2>5 DEF SuffixLength, Base, p
  <2>8. symbol = r + ones * p
    BY <2>1, <2>3
  <2>9. param \in 0..15
    OBVIOUS
  <2>10. Parts(symbol, param, ones, suffix)
    BY <2>4, <2>5, <2>6, <2>7, <2>8, <2>9 DEF Parts
  <2> QED BY <1>1, <2>10 DEF codes
<1>7. CASE ~ (number < 0)
  <2> DEFINE s == number - (Two(length) - p)
  <2>1. /\ length \in param..15 /\ s \in Nat /\ s <= Two(length) - 1
    BY <1>4, <1>5, <1>7 DEF p
  <2>2. ones = 3 + length - param
    BY <1>7 DEF COEF_REMAIN_BIN_REDUCTION
  <2>3. suffix = <<s, length>>
    BY <1>7 DEF Two, p
  <2>4. suffix[1] = s /\ suffix[2] = length
    BY <2>3
  <2> HIDE DEF ones, suffix
  <2>5. ones \in 0..18 /\ length \in 0..15
    BY <2>1, <2>2
  <2>6. Two(length) \in Nat
    <3>1. length \in 0..32
      BY <2>1
    <3> QED BY <3>1, Doubling
  <2>7. s = number - (Two(length) - p)
    OBVIOUS
  <2> HIDE DEF s
  <2>8. SuffixLength(ones, param) = length
    BY <2>1, <2>2 DEF SuffixLength
  <2>9. symbol = s + Base(ones, param)
    <3>1. CASE length = param
      <4>1. ones = 3 /\ Base(ones, param) = 3 * p
        <5>1. ones = 3
          BY <2>1, <2>2, <3>1
        <5> QED BY <5>1 DEF Base, p
      <4>2. Two(length) = p
        BY <3>1 DEF p
      <4> QED BY <1>2, <1>3, <1>4, <2>7, <4>1, <4>2
    <3>2. CASE length # param
      <4>1. Base(ones, param) = Two(length) + 2 * p
        BY <2>1, <2>2, <3>2, LongBase DEF p
      <4> QED BY <1>2, <1>3, <1>4, <2>6, <2>7, <4>1
    <3> QED BY <3>1, <3>2
  <2>10. Parts(symbol, param, ones, suffix)
    BY <2>1, <2>4, <2>5, <2>8, <2>9 DEF Parts
  <2> QED BY <1>1, <2>10 DEF codes
<1> QED BY <1>6, <1>7

(* The codes of a remainder, one by one. *)
LEMMA SplitCodes ==
  ASSUME NEW codes, NEW ones, NEW suffix, Split(codes, ones, suffix), suffix[2] \in Nat
  PROVE  /\ codes[1][1] = Two(ones + 1) - 2 /\ codes[1][2] = ones + 1
         /\ suffix[2] = 0 => Len(codes) = 1
         /\ suffix[2] # 0 => Len(codes) # 1 /\ codes[2] = suffix
<1> DEFINE prefix == <<Two(ones + 1) - 2, ones + 1>>
           none   == 0
<1>1. codes = <<prefix>> \o IF suffix[2] > 0 THEN <<suffix>> ELSE <<>>
  BY DEF Split
<1>2. prefix[1] = Two(ones + 1) - 2 /\ prefix[2] = ones + 1
  OBVIOUS
<1> HIDE DEF prefix
<1>3. CASE suffix[2] > 0
  <2>1. codes = <<prefix>> \o <<suffix>>
    BY <1>1, <1>3, Zenon
  <2> DEFINE s == <<prefix>>
             t == <<suffix>>
  <2>2. /\ s \in Seq({prefix, suffix}) /\ t \in Seq({prefix, suffix})
        /\ Len(s) = 1 /\ Len(t) = 1 /\ s[1] = prefix /\ t[1] = suffix /\ codes = s \o t
    BY <2>1
  <2> HIDE DEF s, t
  <2>3. codes[1] = prefix /\ codes[2] = suffix /\ Len(codes) = 2
    BY <2>2, PairOfOnes
  <2> QED BY <1>2, <1>3, <2>3
<1>4. CASE ~ (suffix[2] > 0)
  <2>1. codes = <<prefix>>
    <3>1. codes = <<prefix>> \o <<>>
      BY <1>1, <1>4, Zenon
    <3>2. <<prefix>> \in Seq({prefix})
      OBVIOUS
    <3>3. <<prefix>> \o <<>> = <<prefix>>
      BY <3>2
    <3> QED BY <3>1, <3>3
  <2>2. codes[1] = prefix /\ Len(codes) = 1
    BY <2>1
  <2> QED BY <1>2, <1>4, <2>2
<1> QED BY <1>3, <1>4

(* The offset, of the decoder where the engine is, with n bits behind it.  *)
Offset(c, b, n) == (Read(c, b) - Value(c)) * Two(n) + Fetch(b, ReadBits(c), n)

(* The numbers of an engine that codes are natural. *)
LEMMA ReadIn ==
  ASSUME NEW c, Coding(c), NEW b, b \in Bits
  PROVE  /\ Read(c, b) \in Nat /\ Value(c) \in Nat /\ ReadBits(c) \in Nat
         /\ c.range \in 256..510
<1> DEFINE none == 0
<1>1. Value(c) \in Nat /\ ReadBits(c) \in Nat
  BY NoneNarrows DEF BypassTo, Narrows
<1>2. Read(c, b) \in Nat
  <2>1. Read(c, b) = Fetch(b, none, ReadBits(c)) /\ none \in Nat
    BY DEF Read
  <2> HIDE DEF none
  <2> QED BY <1>1, <2>1, FetchIn
<1>3. c.range \in 256..510
  BY DEF Coding, Ready
<1> QED BY <1>1, <1>2, <1>3

(* The offset with k bits more is less than the next one, 2^k times. *)
LEMMA OffsetMore ==
  ASSUME NEW c, Coding(c), NEW b, b \in Bits, Inside(c, b),
         NEW j, j \in 1..19, NEW k, k \in 1..19, j + k <= 20
  PROVE  /\ Offset(c, b, j) \in Nat /\ Two(k) \in Nat
         /\ Offset(c, b, j + k) \in Nat
         /\ Offset(c, b, j + k) < (Offset(c, b, j) + 1) * Two(k)
<1> DEFINE o == Read(c, b) - Value(c)
           x == Fetch(b, ReadBits(c), j)
           f == Fetch(b, ReadBits(c) + j, k)
           y == Fetch(b, ReadBits(c), j + k)
           p == Two(j)
           q == Two(k)
<1>1. o \in Nat /\ ReadBits(c) \in Nat
  BY ReadIn DEF Inside
<1>2. Two(j + k) = p * q /\ p \in Nat /\ q \in Nat
  <2>1. j \in 0..32 /\ k \in 0..32 /\ j + k <= 32
    OBVIOUS
  <2> QED BY <2>1, PowersAdd
<1>3. y = x * q + f
  <2>1. j \in Nat /\ k \in 0..20
    OBVIOUS
  <2> QED BY <1>1, <2>1, FetchMore
<1>4. x \in Nat /\ f \in Nat /\ f < q
  <2>1. j \in Nat /\ k \in Nat /\ k \in 0..20 /\ ReadBits(c) + j \in Nat
    BY <1>1
  <2>2. x \in Nat
    BY <1>1, <2>1, FetchIn
  <2> DEFINE r == ReadBits(c) + j
  <2>4. r \in Nat
    BY <2>1
  <2> HIDE DEF r
  <2>3. Fetch(b, r, k) \in Nat /\ Fetch(b, r, k) < Two(k)
    BY <2>1, <2>4, FetchIn, FetchBelow
  <2> QED BY <2>2, <2>3 DEF r
<1>5. Offset(c, b, j) = o * p + x /\ Offset(c, b, j + k) = o * (p * q) + y
  BY <1>2 DEF Offset
<1> HIDE DEF o, x, f, y, p, q
<1> DEFINE s == o * p
<1>6. s \in Nat /\ o * (p * q) = s * q
  BY <1>1, <1>2
<1> HIDE DEF s
<1>7. (s + x) * q = s * q + x * q /\ (s + x + 1) * q = s * q + x * q + q /\ s * q \in Nat /\ x * q \in Nat
  BY <1>2, <1>4, <1>6
<1>8. Offset(c, b, j) = s + x
  BY <1>5 DEF s
<1>9. Offset(c, b, j + k) = s * q + x * q + f
  BY <1>3, <1>4, <1>5, <1>6, <1>7
<1>10. Offset(c, b, j) \in Nat /\ Offset(c, b, j + k) \in Nat
  BY <1>4, <1>6, <1>7, <1>8, <1>9
<1>11. Offset(c, b, j + k) < (Offset(c, b, j) + 1) * q
  BY <1>2, <1>4, <1>6, <1>7, <1>8, <1>9
<1> QED BY <1>2, <1>10, <1>11 DEF q

(* Fewer bins than the prefix has are all ones, not ones up to a zero.     *)
LEMMA OnesFirst ==
  ASSUME NEW c, Coding(c), NEW b, b \in Bits, Inside(c, b),
         NEW j, j \in 1..19, NEW k, k \in 1..19, j + k <= 20,
         Offset(c, b, j + k) \div c.range = Two(j + k) - 2
  PROVE  Offset(c, b, j) \div c.range # Two(j) - 2
<1> DEFINE x == Offset(c, b, j)
           y == Offset(c, b, j + k)
           p == Two(j)
           q == Two(k)
           r == c.range
<1>1. x \in Nat /\ y \in Nat /\ y < (x + 1) * q
  BY OffsetMore
<1>2. Two(j + k) = p * q /\ p \in Nat /\ q \in Nat
  <2>1. j \in 0..32 /\ k \in 0..32 /\ j + k <= 32
    OBVIOUS
  <2> QED BY <2>1, PowersAdd
<1>3. q >= 2 /\ p >= 2
  <2>1. \A i \in 1..19 : Two(i) >= 2
    BY Powers, SMTT(30)
  <2> QED BY <2>1
<1>4. r \in Nat /\ r > 0
  BY DEF Coding, Ready
<1> SUFFICES ASSUME x \div r = p - 2 PROVE FALSE
  OBVIOUS
<1>5. y \div r = p * q - 2
  BY <1>2
<1> HIDE DEF x, y, p, q, r
<1>6. x + 1 <= r * (p - 1)
  <2> DEFINE k1 == p - 1
  <2>1. x = (x \div r) * r + (x % r) /\ x % r \in 0..(r - 1)
    BY <1>1, <1>4, Division
  <2>2. x = (p - 2) * r + (x % r)
    BY <2>1
  <2> DEFINE m == x % r
  <2>3. m \in 0..(r - 1) /\ x = (p - 2) * r + m
    BY <2>1, <2>2
  <2> HIDE DEF m
  <2>4. (p - 2) * r + r = r * (p - 1) /\ (p - 2) * r \in Int
    BY <1>2, <1>4
  <2> QED BY <1>1, <1>4, <2>3, <2>4
<1>7. y >= r * (p * q - 2)
  <2> DEFINE m == y % r
  <2>1. y = (y \div r) * r + m /\ m \in 0..(r - 1)
    BY <1>1, <1>4, Division
  <2>2. y = (p * q - 2) * r + m
    BY <1>5, <2>1
  <2> HIDE DEF m
  <2> DEFINE t == p * q - 2
  <2>3. t \in Int
    BY <1>2
  <2>4. y = t * r + m
    BY <2>2
  <2> HIDE DEF t
  <2>5. t * r = r * t /\ t * r \in Int
    BY <1>4, <2>3
  <2>6. y >= r * t
    BY <1>1, <1>4, <2>1, <2>4, <2>5
  <2> QED BY <2>6 DEF t
<1>8. (x + 1) * q <= (r * (p - 1)) * q
  <2> DEFINE t == r * (p - 1)
  <2>1. t \in Int /\ x + 1 <= t
    BY <1>2, <1>4, <1>6
  <2> HIDE DEF t
  <2>2. (x + 1) * q <= t * q
    BY <1>1, <1>2, <2>1
  <2> QED BY <2>2 DEF t
<1>9. (r * (p - 1)) * q = r * (p * q - q)
  <2> DEFINE t == p * q
  <2>1. t \in Int /\ (p - 1) * q = t - q /\ (r * (p - 1)) * q = r * ((p - 1) * q)
    BY <1>2, <1>4
  <2> HIDE DEF t
  <2>2. (r * (p - 1)) * q = r * (t - q)
    BY <2>1
  <2> QED BY <2>2 DEF t
<1>10. r * (p * q - q) <= r * (p * q - 2)
  <2> DEFINE t == p * q
  <2>1. t \in Int
    BY <1>2
  <2> HIDE DEF t
  <2>2. t - q <= t - 2
    BY <1>2, <1>3, <2>1
  <2>3. r * (t - q) <= r * (t - 2)
    BY <1>2, <1>4, <2>1, <2>2
  <2> QED BY <2>3 DEF t
<1>11. r * (p * q - 2) \in Int /\ r * (p * q - q) \in Int /\ (x + 1) * q \in Int
  BY <1>1, <1>2, <1>4
<1>12. y < r * (p * q - q)
  <2> DEFINE t == r * (p * q - q)
             u == (x + 1) * q
  <2>1. u <= t /\ y < u /\ t \in Int /\ u \in Int
    BY <1>1, <1>8, <1>9, <1>11
  <2> HIDE DEF t, u
  <2>2. y < t
    BY <1>1, <2>1
  <2> QED BY <2>2 DEF t
<1> DEFINE t == r * (p * q - q)
           u == r * (p * q - 2)
<1>13. t \in Int /\ u \in Int /\ y < t /\ t <= u /\ y >= u
  BY <1>7, <1>10, <1>11, <1>12
<1> HIDE DEF t, u
<1> QED BY <1>1, <1>13

(* The decoder counts the ones that were coded. *)
CountedOnes(c, b, val) ==
  Min({k \in 0..19 : k = 19 \/ DecodeBypass(b, At(c, b, val), k + 1).val = 2^(k + 1) - 2})

(* So DecodeRemainder finds the ones that were put. *)
LEMMA CountingOnes ==
  ASSUME NEW c, Coding(c), NEW b, b \in Bits, Inside(c, b), NEW val, NEW ones, ones \in 0..18,
         DecodeBypass(b, At(c, b, val), ones + 1).val = Two(ones + 1) - 2
  PROVE  CountedOnes(c, b, val) = ones
<1> DEFINE e == At(c, b, val)
           S == {k \in 0..19 : k = 19 \/ DecodeBypass(b, e, k + 1).val = 2^(k + 1) - 2}
<1>1. ASSUME NEW n PROVE DecodeBypass(b, e, n).val = Offset(c, b, n) \div c.range
  BY BypassIs DEF Decoder, Offset
<1>2. ones \in S
  BY DEF Two
<1>3. ASSUME NEW k \in S PROVE ones <= k
  <2> SUFFICES ASSUME k < ones PROVE FALSE
    BY <1>2
  <2> DEFINE j == k + 1
             m == ones - k
  <2>1. j \in 1..19 /\ m \in 1..19 /\ j + m <= 20 /\ j + m = ones + 1
    OBVIOUS
  <2>2. DecodeBypass(b, e, j).val = Two(j) - 2
    <3>1. DecodeBypass(b, e, k + 1).val = 2^(k + 1) - 2
      OBVIOUS
    <3> QED BY <3>1, Zenon DEF Two
  <2>3. Offset(c, b, j) \div c.range = Two(j) - 2
    BY <1>1, <2>2
  <2>4. Offset(c, b, ones + 1) \div c.range = Two(ones + 1) - 2
    BY <1>1
  <2>5. Offset(c, b, j + m) \div c.range = Two(j + m) - 2
    BY <2>1, <2>4
  <2> HIDE DEF j, m, S, e
  <2> QED BY <2>1, <2>3, <2>5, OnesFirst
<1>4. Min(S) = CHOOSE x \in S : \A y \in S : x <= y
  BY DEF Min
<1>5. S \subseteq Nat
  OBVIOUS
<1> HIDE DEF S
<1>6. \A x \in S : (\A y \in S : x <= y) => x = ones
  BY <1>2, <1>3, <1>5
<1>7. (CHOOSE x \in S : \A y \in S : x <= y) = ones
  BY <1>2, <1>3, <1>6
<1>8. Min(S) = ones
  BY <1>4, <1>7
<1> QED BY <1>8 DEF S, CountedOnes

(* The suffix, which may be empty. *)
LEMMA SuffixDecoded ==
  ASSUME NEW c, Coding(c), NEW value, value \in Nat, NEW n, n \in 0..15, value <= Two(n) - 1,
         NEW d, n = 0 => d = c, n # 0 => d = EncodeBinsEP(c, value, n),
         NEW b, b \in Bits, Inside(d, b)
  PROVE  Inside(c, b) /\ \A val : DecodeBypass(b, At(c, b, val), n) = At(d, b, value)
<1>1. CASE n # 0
  <2>1. Fits(value, n) /\ n \in 1..20
    BY <1>1 DEF Fits
  <2>2. BypassTo(c, d, value, n)
    BY <1>1, <2>1, BinsEPNarrows
  <2>3. Inside(c, b)
    BY <2>1, <2>2, BypassDecoded
  <2>4. ASSUME NEW val PROVE DecodeBypass(b, At(c, b, val), n) = At(d, b, value)
    BY <2>1, <2>2, BypassDecoded
  <2> QED BY <2>3, <2>4
<1>2. CASE n = 0
  <2> DEFINE o == Read(c, b) - Value(c)
             none == 0
  <2>1. /\ Read(c, b) \in Nat /\ Value(c) \in Nat /\ ReadBits(c) \in Nat
        /\ c.range \in 256..510
    BY ReadIn
  <2>2. o \in Nat /\ o < c.range
    BY <1>2, <2>1 DEF Inside
  <2>3. Two(none) = 1
    BY Powers
  <2>4. Fetch(b, ReadBits(c), none) = none
    BY FetchNone
  <2>10. none = 0 /\ d = c /\ n = none
    BY <1>2
  <2>5. value = none
    BY <2>3, <2>10
  <2>6. c.range \in Nat /\ c.range > 0 /\ none \in Int /\ o = none * c.range + o
    BY <2>1, <2>2
  <2> HIDE DEF o, none
  <2>7. o \div c.range = none /\ o % c.range = o
    BY <2>2, <2>6, QuotientIs
  <2>8. ASSUME NEW val PROVE DecodeBypass(b, At(c, b, val), n) = At(d, b, value)
    <3>1. DecodeBypass(b, At(c, b, val), none)
            = Decoder(c.range, (o * Two(none) + Fetch(b, ReadBits(c), none)) % c.range, ReadBits(c) + none,
                      (o * Two(none) + Fetch(b, ReadBits(c), none)) \div c.range)
      BY BypassIs DEF o
    <3>2. o * Two(none) + Fetch(b, ReadBits(c), none) = o /\ ReadBits(c) + none = ReadBits(c)
      BY <2>1, <2>2, <2>3, <2>4, <2>10
    <3>3. DecodeBypass(b, At(c, b, val), none) = Decoder(c.range, o, ReadBits(c), none)
      BY <2>7, <3>1, <3>2
    <3>4. At(c, b, none) = Decoder(c.range, o, ReadBits(c), none)
      BY DEF At, o
    <3> QED BY <2>5, <2>10, <3>3, <3>4
  <2>9. Inside(c, b)
    BY <1>2
  <2> QED BY <2>8, <2>9
<1> QED BY <1>1, <1>2

(* The prefix and the suffix of WriteCoeffRemainExGolomb. *)
LEMMA RemainderFollows ==
  ASSUME NEW c, Coding(c), NEW symbol, symbol \in Nat, symbol < Two(15), NEW param, param \in 0..4,
         NEW coded, coded = [kind |-> "remainder", row |-> param, val |-> symbol]
  PROVE  Follows(c, EncodeCodes(c, CoeffRemainCodes(symbol, param)), coded)
<1> DEFINE codes == CoeffRemainCodes(symbol, param)
           d     == EncodeCodes(c, codes)
           m     == EncodeBinsEP(c, codes[1][1], codes[1][2])
<1>3. coded.val = symbol /\ coded.kind = "remainder" /\ coded.row = param
  OBVIOUS
<1>1. PICK ones, suffix : Parts(symbol, param, ones, suffix) /\ Split(codes, ones, suffix)
  BY RemainderParts
<1>2. /\ ones \in 0..18
      /\ suffix[2] \in 0..15 /\ suffix[1] \in Nat /\ suffix[1] <= Two(suffix[2]) - 1
      /\ suffix[2] = SuffixLength(ones, param)
      /\ symbol = suffix[1] + Base(ones, param)
  BY <1>1 DEF Parts
<1> HIDE DEF codes
<1>4. /\ codes[1][1] = Two(ones + 1) - 2 /\ codes[1][2] = ones + 1
      /\ suffix[2] = 0 => Len(codes) = 1
      /\ suffix[2] # 0 => Len(codes) # 1 /\ codes[2] = suffix
  <2>1. suffix[2] \in Nat
    BY <1>2
  <2> QED BY <1>1, <2>1, SplitCodes
<1> DEFINE value == Two(ones + 1) - 2
           n     == ones + 1
<1>5. Fits(value, n) /\ value \in Nat /\ n \in 1..20 /\ value <= Two(n) - 1
  <2>1. \A k \in 0..18 : Two(k + 1) \in Nat /\ Two(k + 1) >= 2
    BY Powers, SMTT(30)
  <2>2. Two(ones + 1) - 2 \in Nat /\ Two(ones + 1) - 2 <= Two(ones + 1) - 1
    BY <1>2, <2>1
  <2>3. ones + 1 \in 1..20
    BY <1>2
  <2> QED BY <2>2, <2>3 DEF Fits
<1>6. m = EncodeBinsEP(c, value, n)
  BY <1>4
<1>7. d = IF Len(codes) = 1 THEN m ELSE EncodeBinsEP(m, codes[2][1], codes[2][2])
  BY Zenon DEF EncodeCodes
<1> HIDE DEF m, d, value, n
<1>8. BypassTo(c, m, value, n)
  BY <1>5, <1>6, BinsEPNarrows
<1>9. Coding(m)
  BY <1>8 DEF BypassTo
<1>10. (suffix[2] = 0 => d = m) /\ (suffix[2] # 0 => d = EncodeBinsEP(m, suffix[1], suffix[2]))
  BY <1>4, <1>7
<1> SUFFICES ASSUME NEW b \in Bits, Inside(d, b)
             PROVE  Inside(c, b) /\ \A val : Decode(b, At(c, b, val), coded) = At(d, b, coded.val)
  BY DEF Follows, d, codes
<1>11. Inside(m, b) /\ \A val : DecodeBypass(b, At(m, b, val), suffix[2]) = At(d, b, suffix[1])
  <2> DEFINE s1 == suffix[1]
             s2 == suffix[2]
  <2>1. s1 \in Nat /\ s2 \in 0..15 /\ s1 <= Two(s2) - 1
    BY <1>2
  <2>2. (s2 = 0 => d = m) /\ (s2 # 0 => d = EncodeBinsEP(m, s1, s2))
    BY <1>10
  <2> HIDE DEF s1, s2
  <2>3. Inside(m, b) /\ \A val : DecodeBypass(b, At(m, b, val), s2) = At(d, b, s1)
    BY <1>9, <2>1, <2>2, SuffixDecoded
  <2> QED BY <2>3 DEF s1, s2
<1>12. Inside(c, b) /\ \A val : DecodeBypass(b, At(c, b, val), n) = At(m, b, value)
  BY <1>5, <1>8, <1>11, BypassDecoded
<1>13. ASSUME NEW val PROVE Decode(b, At(c, b, val), coded) = At(d, b, coded.val)
  <2> DEFINE e == At(c, b, val)
             counted == Min({k \in 0..19 : k = 19 \/ DecodeBypass(b, e, k + 1).val = 2^(k + 1) - 2})
             base == Base(ones, param)
  <2>1. Decode(b, e, coded) = DecodeRemainder(b, e, param)
    BY <1>3 DEF Decode
  <2>2. counted = ones
    <3>1. DecodeBypass(b, e, ones + 1).val = Two(ones + 1) - 2
      <4>1. DecodeBypass(b, e, n) = At(m, b, value)
        BY <1>12
      <4>2. At(m, b, value).val = value
        BY DEF At, Decoder
      <4> QED BY <4>1, <4>2 DEF n, value
    <3>2. CountedOnes(c, b, val) = ones
      BY <1>2, <1>12, <3>1, CountingOnes
    <3> QED BY <3>2, Zenon DEF CountedOnes
  <2>3. DecodeRemainder(b, e, param)
          = LET ones1  == counted
                prefix == DecodeBypass(b, e, ones1 + 1)
                long   == ones1 > 3
                last   == DecodeBypass(b, prefix, IF long THEN ones1 - 3 + param ELSE param)
                base1  == IF long THEN (2^(ones1 - 3) + 2) * 2^param ELSE ones1 * 2^param
            IN  [last EXCEPT !.val = @ + base1]
    BY Zenon DEF DecodeRemainder
  <2> HIDE DEF counted, e
  <2>4. DecodeRemainder(b, e, param)
          = [DecodeBypass(b, DecodeBypass(b, e, ones + 1), SuffixLength(ones, param)) EXCEPT !.val = @ + base]
    BY <2>2, <2>3, Zenon DEF SuffixLength, Base, Two
  <2>5. DecodeBypass(b, e, ones + 1) = At(m, b, value)
    BY <1>12 DEF n, e
  <2>6. DecodeBypass(b, At(m, b, value), SuffixLength(ones, param)) = At(d, b, suffix[1])
    BY <1>2, <1>11
  <2>7. DecodeRemainder(b, e, param) = [At(d, b, suffix[1]) EXCEPT !.val = @ + base]
    BY <2>4, <2>5, <2>6
  <2>8. [At(d, b, suffix[1]) EXCEPT !.val = @ + base] = At(d, b, suffix[1] + base)
    <3> DEFINE g == At(d, b, suffix[1])
               v == g.val + base
    <3>1. g.val = suffix[1]
      BY DEF At, Decoder
    <3>2. [g EXCEPT !.val = v] = At(d, b, v)
      <4> HIDE DEF v
      <4> QED BY DEF At, Decoder
    <3>3. [g EXCEPT !.val = @ + base] = [g EXCEPT !.val = v]
      OBVIOUS
    <3>4. v = suffix[1] + base
      BY <3>1
    <3> HIDE DEF g, v
    <3>5. [g EXCEPT !.val = @ + base] = At(d, b, suffix[1] + base)
      BY <3>2, <3>3, <3>4
    <3> QED BY <3>5 DEF g
  <2> QED BY <1>2, <1>3, <2>1, <2>7, <2>8 DEF e
<1> QED BY <1>12, <1>13

(* What Flush finds in the register: a carry, which has a byte to go to,   *)
(* and the bits below it.                                                  *)
Flushable(c, p, q, carry, low) ==
  /\ p \in Nat /\ p > 0 /\ q \in Nat /\ q > 0 /\ p = 256 * q
  /\ p = Two(32 - c.bitsLeft) /\ q = Two(24 - c.bitsLeft) /\ c.bitsLeft \in 12..19
  /\ carry \in {0, 1} /\ carry = c.low \div p
  /\ low \in Nat /\ low < p /\ c.low = carry * p + low
  /\ carry = 1 => c.buffer # 255 /\ c.numByte > 0

(* At the end of a tile the register can be flushed. *)
LEMMA FlushingRegister ==
  ASSUME NEW c, Ready(c), c.bitsLeft \in 12..19
  PROVE  Flushable(c, Two(32 - c.bitsLeft), Two(24 - c.bitsLeft), c.low \div Two(32 - c.bitsLeft),
                   c.low % Two(32 - c.bitsLeft))
<1> DEFINE p     == Two(32 - c.bitsLeft)
           bits  == 24 - c.bitsLeft
           q     == Two(bits)
           l     == c.low
           carry == l \div p
           low   == l % p
<1>1. c \in Engines
  BY DEF Ready, Written, Carries
<1>2. /\ c.range \in 1..510
      /\ c.low + c.range <= p * Room(c)
      /\ c.numByte = 0 => c.buffer = 255
  BY DEF Ready, Written, Carries
<1>3. /\ l \in Nat /\ c.range \in Nat /\ c.numByte \in Nat /\ c.buffer \in 0..255
  BY <1>1, Fields
<1>5. q \in Nat /\ q > 0 /\ p = 256 * q /\ p \in Nat /\ p > 0
  <2>1. bits \in 0..24 /\ bits \in 0..32 /\ 32 - c.bitsLeft = bits + 8 /\ 8 \in 0..8
    OBVIOUS
  <2> HIDE DEF bits
  <2>2. q \in Nat /\ q > 0
    BY <2>1, Doubling
  <2>3. Two(bits + 8) = Two(bits) * Two(8) /\ Two(8) = 256
    BY <2>1, Adding, Powers
  <2> QED BY <2>1, <2>2, <2>3
<1>6. p = Two(32 - c.bitsLeft) /\ q = Two(24 - c.bitsLeft)
  OBVIOUS
<1>7. Room(c) \in {1, 2} /\ (Room(c) = 2 => c.buffer # 255)
  BY DEF Room
<1>8. l + c.range <= p * Room(c)
  BY <1>2
<1> HIDE DEF p, q, l, bits
<1>9. l < Room(c) * p
  <2> DEFINE m == p * Room(c)
  <2>1. m \in Nat /\ l + c.range <= m /\ c.range >= 1 /\ m = Room(c) * p
    BY <1>2, <1>5, <1>7, <1>8
  <2> HIDE DEF m
  <2>2. l < m
    BY <1>3, <2>1
  <2> QED BY <2>1, <2>2
<1>10. carry \in Nat /\ low \in 0..(p - 1) /\ l = carry * p + low
  BY <1>3, <1>5, Division
<1>11. carry < Room(c)
  <2>1. Room(c) \in Nat
    BY <1>7
  <2> QED BY <1>3, <1>5, <1>9, <2>1, Quotient
<1>14. carry = l \div p
  OBVIOUS
<1> HIDE DEF carry, low
<1>12. carry \in {0, 1} /\ (carry = 1 => c.buffer # 255 /\ c.numByte > 0)
  BY <1>2, <1>3, <1>7, <1>10, <1>11
<1>13. low \in Nat /\ low < p
  BY <1>5, <1>10
<1>15. l = c.low
  BY DEF l
<1>16. Flushable(c, p, q, carry, low)
  BY <1>5, <1>6, <1>10, <1>12, <1>13, <1>14, <1>15 DEF Flushable
<1> QED BY <1>16 DEF p, q, carry, low, l, bits

Flushed(c, carry, low) ==
  Flush(c).codes = Append(Sent(c.codes, c.buffer, carry, c.numByte), <<low \div 256, 24 - c.bitsLeft>>)

(* Flush writes the bytes held back with the carry, and the register. *)
LEMMA FlushCodes ==
  ASSUME NEW c, Ready(c), c.codes \in ByteStreams,
         NEW p, NEW q, NEW carry, NEW low, Flushable(c, p, q, carry, low)
  PROVE  Flushed(c, carry, low)
<1> DEFINE carried == c.low \div 2^(32 - c.bitsLeft)
           held  == IF carried # 0 \/ c.numByte > 0
                    THEN Put(c, c.buffer + (IF carried # 0 THEN 1 ELSE 0), BYTE) ELSE c
           bytes == PutBytes(held, IF carried # 0 THEN 0 ELSE 255, c.numByte - 1)
           rest  == IF carried # 0 THEN c.low - 2^(32 - c.bitsLeft) ELSE c.low
           code  == rest \div 256
           bits  == 24 - c.bitsLeft
           put   == Put(bytes, code, bits)
           many  == IF put.numByte > 1 THEN 1 ELSE put.numByte
           sent  == Sent(c.codes, c.buffer, carry, c.numByte)
<1>1. Flush(c) = [put EXCEPT !.low = rest, !.numByte = many]
  BY Zenon DEF Flush
<1>2. c \in Engines
  BY DEF Ready, Written, Carries
<1>3. /\ c.low \in Nat /\ c.range \in Nat /\ c.bitsLeft \in Int /\ c.buffer \in 0..255
      /\ c.numByte \in Nat /\ c.codes \in Seq(Codes)
  BY <1>2, Fields
<1>4. c = [low |-> c.low, range |-> c.range, bitsLeft |-> c.bitsLeft, buffer |-> c.buffer,
           numByte |-> c.numByte, codes |-> c.codes]
  BY <1>2 DEF Engines
<1>5. carried = carry /\ rest = low
  <2>1. /\ p \in Nat /\ p = Two(32 - c.bitsLeft)
        /\ carry \in {0, 1} /\ carry = c.low \div p
        /\ low \in Nat /\ c.low = carry * p + low
    BY DEF Flushable
  <2>2. 2^(32 - c.bitsLeft) = p
    BY <2>1 DEF Two
  <2>3. carried = carry
    BY <2>1, <2>2
  <2> HIDE DEF carried
  <2>4. rest = IF carry # 0 THEN c.low - p ELSE c.low
    BY <2>2, <2>3
  <2> DEFINE l == c.low
  <2>7. l \in Nat /\ l = carry * p + low /\ rest = IF carry # 0 THEN l - p ELSE l
    BY <1>3, <2>1, <2>4
  <2> HIDE DEF rest, l
  <2>5. rest = low
    <3>1. CASE carry = 0
      <4>1. carry * p = 0
        BY <2>1, <3>1
      <4>2. rest = l
        BY <2>7, <3>1
      <4>3. l = low
        BY <2>1, <2>7, <4>1
      <4> QED BY <4>2, <4>3
    <3>2. CASE carry = 1
      <4>1. carry * p = p
        BY <2>1, <3>2
      <4> QED BY <2>1, <2>7, <3>2, <4>1
    <3> QED BY <2>1, <3>1, <3>2
  <2> QED BY <2>3, <2>5
<1>6. carry \in {0, 1} /\ (carry = 1 => c.buffer # 255 /\ c.numByte > 0)
  BY DEF Flushable
<1> HIDE DEF carried, rest
<1>7. bytes = [c EXCEPT !.codes = sent]
  <2> DEFINE one  == IF carried # 0 THEN 1 ELSE 0
             byte == IF carried # 0 THEN 0 ELSE 255
             times == c.numByte - 1
             t     == [i \in 1..times |-> <<byte, BYTE>>]
  <2>1. one = carry /\ byte = Outstanding(carry)
    <3>1. Outstanding(0) = 255 /\ Outstanding(1) = 0
      BY DEF Outstanding
    <3> QED BY <1>5, <1>6, <3>1
  <2>2. bytes = [held EXCEPT !.codes = @ \o t]
    BY DEF PutBytes
  <2>3. CASE c.numByte > 0
    <3> DEFINE s == Append(c.codes, <<c.buffer + one, BYTE>>)
    <3>1. held = Put(c, c.buffer + one, BYTE)
      BY <2>3
    <3>2. held = [c EXCEPT !.codes = s]
      BY <3>1 DEF Put
    <3>3. sent = s \o t
      BY <2>1, <2>3 DEF Sent, Run, Extended
    <3> HIDE DEF bytes, held, one, byte, t, s, sent
    <3>4. held.codes = s
      BY <1>4, <3>2
    <3>5. bytes = [held EXCEPT !.codes = s \o t]
      BY <1>4, <2>2, <3>2, <3>4
    <3> DEFINE st == s \o t
    <3>7. bytes = [held EXCEPT !.codes = st] /\ sent = st
      BY <3>3, <3>5
    <3> HIDE DEF st
    <3>6. bytes = [c EXCEPT !.codes = st]
      BY <1>4, <3>2, <3>7
    <3> QED BY <3>6, <3>7
  <2>4. CASE ~ (c.numByte > 0)
    <3>1. held = c
      BY <1>5, <1>6, <2>4
    <3>2. times = -1
      BY <1>3, <2>4
    <3>3. t = <<>>
      BY <3>2
    <3>4. sent = c.codes
      BY <2>4 DEF Sent
    <3>5. c.codes \o t = c.codes
      <4> DEFINE s == c.codes
      <4>1. s \in Seq(Codes)
        BY <1>3
      <4> HIDE DEF s
      <4>2. s \o <<>> = s
        BY <4>1
      <4> QED BY <3>3, <4>2 DEF s
    <3> HIDE DEF bytes, held, one, byte, t, sent
    <3>6. bytes = [c EXCEPT !.codes = c.codes \o t]
      BY <1>4, <2>2, <3>1
    <3>7. bytes = [c EXCEPT !.codes = c.codes]
      BY <3>5, <3>6
    <3> QED BY <3>4, <3>7
  <2> QED BY <2>3, <2>4
<1> HIDE DEF bytes, sent
<1>8. put = [bytes EXCEPT !.codes = Append(@, <<code, bits>>)]
  BY DEF Put
<1> DEFINE new == Append(sent, <<code, bits>>)
<1>9. put = [c EXCEPT !.codes = new]
  <2> HIDE DEF put, code, bits
  <2>1. bytes.codes = sent
    BY <1>4, <1>7
  <2>2. put = [bytes EXCEPT !.codes = new]
    BY <1>4, <1>7, <1>8, <2>1
  <2> HIDE DEF new
  <2> QED BY <1>4, <1>7, <2>2
<1> HIDE DEF put, new, many
<1>10. Flush(c).codes = put.codes /\ put.codes = new
  BY <1>1, <1>4, <1>9
<1>11. code = low \div 256
  BY <1>5
<1> QED BY <1>10, <1>11 DEF new, sent, Flushed

(* The stream of a tile that has ended. *)
LEMMA StopBit ==
  /\ <<1>> \in Bits /\ Len(<<1>>) = 1
  /\ Number(<<1>>) = 1
<1> DEFINE t    == <<1>>
           none == 0
           one  == 1
<1>1. t \in Bits /\ Len(t) = one /\ BitAt(t, one) = 1 /\ none + one = one /\ one \in Nat /\ none \in Nat
      /\ none = 0 /\ one = 1
  BY DEF Bits, Bit, BitAt
<1> HIDE DEF t, none, one
<1>2. Fetch(t, none, none + 1) = 2 * Fetch(t, none, none) + BitAt(t, none + (none + 1))
  BY <1>1, FetchNext
<1>3. Fetch(t, none, none) = 0
  BY <1>1, FetchNone
<1>4. none + 1 = one /\ none + (none + 1) = one
  BY <1>1
<1>5. Fetch(t, none, one) = 1
  BY <1>1, <1>2, <1>3, <1>4
<1>6. Number(t) = 1
  BY <1>1, <1>5 DEF Number
<1> QED BY <1>1, <1>6 DEF t, one

Ends(b, n, v) == b \in Bits /\ Len(b) = n /\ Number(b) = v

(* The stop bit behind the codes. *)
LEMMA Stopped ==
  ASSUME NEW codes, codes \in Seq(ShortCodes), NEW b, b = Stream(codes) \o << 1 >>
  PROVE  Ends(b, Size(codes) + 1, 2 * Num(codes) + 1)
<1> DEFINE s == Stream(codes)
           t == <<1>>
<1>1. s \in Bits
  BY StreamIn
<1>2. t \in Bits /\ Len(t) = 1 /\ Number(t) = 1
  BY StopBit
<1>3. b = s \o t /\ Size(codes) = Len(s) /\ Num(codes) = Number(s)
  BY DEF Size, Num
<1> HIDE DEF s, t
<1>4. Len(t) \in 0..20
  BY <1>2
<1>5. s \o t \in Bits
  BY <1>1, <1>2, <1>4, NumberOfBoth
<1>6. Len(s \o t) = Len(s) + Len(t)
  BY <1>1, <1>2, <1>4, NumberOfBoth
<1>7. Number(s \o t) = Number(s) * Two(Len(t)) + Number(t)
  BY <1>1, <1>2, <1>4, NumberOfBoth
<1>8. Two(Len(t)) = 2
  BY <1>2, Powers
<1>9. Number(s) \in Nat
  BY <1>1, NumberIn
<1>10. Number(b) = 2 * Num(codes) + 1
  <2> DEFINE n == Number(s)
             w == Two(Len(t))
  <2>1. n \in Nat /\ w = 2 /\ Number(b) = n * w + 1 /\ Num(codes) = n
    BY <1>2, <1>3, <1>7, <1>8, <1>9
  <2> HIDE DEF n, w
  <2> QED BY <2>1
<1> QED BY <1>2, <1>3, <1>5, <1>6, <1>10 DEF Ends

(* The stream of the tile is the number coded, without its last eight bits, with the stop bit. *)
LEMMA FlushedStream ==
  ASSUME NEW c, Coding(c), c.bitsLeft \in 12..19, NEW b, b = TileBits(Flush(c))
  PROVE  Ends(b, ReadBits(c) - 7, 2 * (Value(c) \div 256) + 1)
<1> DEFINE p     == Two(32 - c.bitsLeft)
           q     == Two(24 - c.bitsLeft)
           bits  == 24 - c.bitsLeft
           carry == c.low \div p
           low   == c.low % p
           code  == low \div 256
           sent  == Sent(c.codes, c.buffer, carry, c.numByte)
           held  == HeldCodes(c)
           codes == Flush(c).codes
<1>1. Ready(c) /\ c.codes \in ByteStreams /\ c \in Engines
  BY DEF Coding, Ready, Written, Carries
<1>2. Flushable(c, p, q, carry, low)
  BY <1>1, FlushingRegister
<1>3. codes = Append(sent, <<code, bits>>)
  <2> HIDE DEF p, q, carry, low
  <2>1. Flush(c).codes = Append(Sent(c.codes, c.buffer, carry, c.numByte), <<low \div 256, 24 - c.bitsLeft>>)
    <3> HIDE DEF sent, code, codes, bits
    <3>1. Flushed(c, carry, low)
      BY <1>1, <1>2, FlushCodes
    <3> QED BY <3>1 DEF Flushed
  <2> QED BY <2>1
<1>4. /\ p \in Nat /\ p > 0 /\ q \in Nat /\ q > 0 /\ p = 256 * q
      /\ carry \in {0, 1} /\ low \in Nat /\ low < p /\ c.low = carry * p + low
      /\ carry = 1 => c.buffer # 255 /\ c.numByte > 0
  BY <1>2 DEF Flushable
<1>5. /\ c.buffer \in 0..255 /\ c.numByte \in Nat
      /\ c.numByte = 0 => c.buffer = 255
  BY <1>1, Fields DEF Ready, Written, Carries
<1>6. held \in ByteStreams /\ Num(held) \in Nat /\ Size(held) \in Nat
  BY <1>1, <1>5, HeldCodesIn
<1>7. Value(c) = Num(held) * p + c.low /\ ReadBits(c) = Size(held) + (32 - c.bitsLeft)
  BY DEF Value, ReadBits
<1>8. b = Stream(codes) \o <<1>>
  BY DEF TileBits, Stream
<1>9. bits \in 5..12 /\ bits \in 0..20 /\ q = Two(bits) /\ bits = 24 - c.bitsLeft
  OBVIOUS
<1>18. code = low \div 256
  OBVIOUS
<1> HIDE DEF p, q, carry, low, sent, held, codes, bits, code
<1>10. /\ sent \in ByteStreams /\ Num(sent) = Num(held) + carry /\ Size(sent) = Size(held)
  <2> DEFINE old    == c.codes
             buffer == c.buffer
             many   == c.numByte
  <2>1. old \in ByteStreams /\ buffer \in 0..255 /\ many \in Nat
        /\ (carry = 1 => buffer # 255 /\ many > 0)
    BY <1>1, <1>4, <1>5
  <2>2. sent = Sent(old, buffer, carry, many) /\ held = HeldBack(old, buffer, many)
    BY DEF sent, held, HeldCodes
  <2> HIDE DEF old, buffer, many
  <2>3. Sent(old, buffer, carry, many) \in ByteStreams
    BY <1>4, <2>1, Sending
  <2>4. Num(Sent(old, buffer, carry, many)) = Num(HeldBack(old, buffer, many)) + carry
    BY <1>4, <2>1, Sending
  <2>5. Size(Sent(old, buffer, carry, many)) = Size(HeldBack(old, buffer, many))
    BY <1>4, <2>1, Sending
  <2> QED BY <2>2, <2>3, <2>4, <2>5
<1>11. code \in Nat /\ code < q
  <2>1. low < q * 256
    BY <1>4
  <2> QED BY <1>4, <1>18, <2>1
<1>12. sent \in Seq(ShortCodes) /\ codes \in Seq(ShortCodes)
  <2>1. sent \in Seq(ShortCodes)
    BY <1>10, ByteCodesShort DEF ByteStreams
  <2>2. <<code, bits>> \in ShortCodes
    <3>1. bits \in 0..20 /\ code \in Nat /\ code <= Two(bits) - 1
      BY <1>4, <1>9, <1>11
    <3> QED BY <3>1 DEF ShortCodes
  <2> QED BY <1>3, <2>1, <2>2
<1>13. Num(codes) = Num(sent) * q + code /\ Size(codes) = Size(sent) + bits
  <2>1. Num(Append(sent, <<code, bits>>)) = Num(sent) * Two(bits) + code
    BY <1>9, <1>11, <1>12, StreamMore
  <2>2. Size(Append(sent, <<code, bits>>)) = Size(sent) + bits
    BY <1>9, <1>11, <1>12, StreamMore
  <2> QED BY <1>3, <1>9, <2>1, <2>2
<1>14. Ends(b, Size(codes) + 1, 2 * Num(codes) + 1)
  BY <1>8, <1>12, Stopped
<1>15. Size(codes) + 1 = ReadBits(c) - 7
  BY <1>6, <1>7, <1>9, <1>10, <1>13
<1>16. Value(c) \div 256 = Num(codes)
  <2> DEFINE h == Num(held)
             k == (h + carry) * q + code
             r == low % 256
             m == 256
  <2>1. h \in Nat /\ Value(c) = h * p + (carry * p + low) /\ Num(codes) = k
    BY <1>4, <1>6, <1>7, <1>10, <1>13
  <2>2. r \in Nat /\ r < m /\ low = code * m + r /\ m \in Nat /\ m > 0 /\ m = 256
    BY <1>4, <1>18
  <2>4. k = (h + carry) * q + code
    OBVIOUS
  <2> HIDE DEF h, k, r, m
  <2> DEFINE s == (h + carry) * q
  <2>5. s \in Nat /\ h * p + carry * p = s * m
    <3>1. carry \in Nat
      BY <1>4
    <3>2. h * p + carry * p = (h + carry) * p
      BY <1>4, <2>1, <3>1
    <3>3. (h + carry) * p = ((h + carry) * q) * 256
      BY <1>4, <2>1, <3>1
    <3>4. s \in Nat
      BY <1>4, <2>1, <3>1
    <3> QED BY <2>2, <3>2, <3>3, <3>4
  <2>6. k = s + code
    BY <2>4
  <2> HIDE DEF s
  <2> DEFINE x == h * p
             y == carry * p
  <2>7. x \in Nat /\ y \in Nat /\ x + y = s * m /\ Value(c) = x + (y + low)
    <3>1. carry \in Nat
      BY <1>4
    <3> QED BY <1>4, <2>1, <2>5, <3>1
  <2> HIDE DEF x, y
  <2>8. k \in Nat /\ Value(c) \in Nat /\ Value(c) = k * m + r
    <3>1. k \in Nat /\ k * m = s * m + code * m
      BY <1>11, <2>2, <2>5, <2>6
    <3>2. s * m \in Nat /\ code * m \in Nat
      BY <1>11, <2>2, <2>5
    <3>3. Value(c) = s * m + low
      BY <1>4, <2>7, <3>2
    <3> QED BY <2>2, <3>1, <3>2, <3>3
  <2>9. Value(c) \div m = k
    BY <2>2, <2>8, QuotientIs
  <2> QED BY <2>1, <2>2, <2>9
<1> QED BY <1>14, <1>15, <1>16

(* The bin that ends a tile, read from what Flush leaves. *)
Stops(c, b) ==
  /\ b \in Bits /\ Inside(c, b)
  /\ \A val : /\ Decode(b, At(c, b, val), End(1)).val = 1
              /\ Decode(b, At(c, b, val), End(1)).read = Len(b)

(* The stream of the tile is inside the interval, at its terminating bin. *)
LEMMA StopDecoded ==
  ASSUME NEW c, Coding(c), NEW b, b = TileBits(Flush(EncodeTerminatingBit(c, 1)))
  PROVE  Stops(c, b)
<1> DEFINE e == EncodeTerminatingBit(c, 1)
           range == c.range - 2
           v     == Value(c)
           m     == v + range
           none  == 0
<1>1. Narrows(c, e, range * 128, 256, 7)
  BY TerminatingNarrows
<1>2. Ready(e) /\ e.bitsLeft \in 12..19
  BY EncodingTerminatingBit DEF Coding
<1>3. c.range \in 256..510
  BY DEF Coding, Ready
<1>4. /\ e.codes \in ByteStreams /\ Value(e) = v * Two(7) + range * 128
      /\ ReadBits(e) = ReadBits(c) + 7 /\ v \in Nat /\ ReadBits(c) \in Nat
  BY <1>1 DEF Narrows
<1> HIDE DEF e
<1>5. Ends(b, ReadBits(e) - 7, 2 * (Value(e) \div 256) + 1)
  BY <1>2, <1>4, FlushedStream DEF Coding, e
<1> HIDE DEF v
<1>6. Value(e) = m * 128 /\ m \in Nat /\ m + 2 = v + c.range
  BY <1>3, <1>4, Powers
<1>7. b \in Bits /\ Len(b) = ReadBits(c) /\ Number(b) = 2 * (Value(e) \div 256) + 1
  BY <1>4, <1>5 DEF Ends
<1> HIDE DEF m
<1>8. Number(b) \in {m, m + 1}
  <2>1. (m * 128) \div 256 = m \div 2
    BY <1>6
  <2>2. 2 * (m \div 2) + 1 \in {m, m + 1}
    BY <1>6
  <2> QED BY <1>6, <1>7, <2>1, <2>2
<1>9. Read(c, b) = Number(b)
  BY <1>7 DEF Read, Number
<1>10. m <= Read(c, b) /\ Read(c, b) < v + c.range /\ v <= m /\ Read(c, b) \in Nat
  BY <1>3, <1>4, <1>6, <1>8, <1>9 DEF m
<1>11. Inside(c, b)
  BY <1>4, <1>3, <1>6, <1>10 DEF Inside, v
<1>12. Read(c, b) - Value(c) >= c.range - 2
  BY <1>3, <1>4, <1>10 DEF m, v
<1>13. ASSUME NEW val
       PROVE  /\ Decode(b, At(c, b, val), End(1)).val = 1
              /\ Decode(b, At(c, b, val), End(1)).read = Len(b)
  <2> DEFINE d == At(c, b, val)
             coded == End(1)
             x == d.range - 2
             one == 1
  <2>1. coded.kind = "terminating"
    BY DEF End
  <2>2. Decode(b, d, coded) = DecodeTerminate(b, d)
    BY <2>1 DEF Decode
  <2>3. d.range = c.range /\ d.offset = Read(c, b) - Value(c) /\ d.read = ReadBits(c)
    BY DEF At, Decoder
  <2>4. DecodeTerminate(b, d) = IF d.offset >= d.range - 2
                                THEN [d EXCEPT !.range = x, !.val = one]
                                ELSE Renormalized(b, [d EXCEPT !.range = x, !.val = 0])
    BY Zenon DEF DecodeTerminate
  <2>5. d.offset >= d.range - 2
    BY <1>12, <2>3
  <2>6. one = 1
    OBVIOUS
  <2>7. d = Decoder(c.range, Read(c, b) - Value(c), ReadBits(c), val)
    BY DEF At
  <2> HIDE DEF d, coded, x, one
  <2>8. DecodeTerminate(b, d) = [d EXCEPT !.range = x, !.val = one]
    BY <2>4, <2>5
  <2>9. RewritesTo(d, x, one, Decoder(x, Read(c, b) - Value(c), ReadBits(c), one))
    BY <2>7, RedecodedWith
  <2>10. Decode(b, d, coded) = Decoder(x, Read(c, b) - Value(c), ReadBits(c), one)
    BY <2>2, <2>8, <2>9 DEF RewritesTo
  <2>11. Decode(b, d, coded).val = one /\ Decode(b, d, coded).read = ReadBits(c)
    BY <2>10 DEF Decoder
  <2> QED BY <1>7, <2>6, <2>11 DEF d, coded
<1> QED BY <1>7, <1>11, <1>13 DEF Stops

(* The decoder, bin by bin. *)
IsTrace(f, b, coded) ==
  f = [k \in 0..Len(coded) |-> IF k = 0 THEN StartDecoder(b) ELSE Decode(b, f[k-1], coded[k])]

Reads(f, b, coded) == IsTrace(f, b, coded) /\ \A k \in DOMAIN coded : f[k].val = coded[k].val

ReadsTo(b, coded, d) == \E f : Reads(f, b, coded) /\ f[Len(coded)] = d

(* Before the first bin. *)
LEMMA NoneRead ==
  ASSUME NEW b
  PROVE  ReadsTo(b, <<>>, StartDecoder(b))
<1> DEFINE s == <<>>
           f == [k \in 0..0 |-> StartDecoder(b)]
<1>1. Len(s) = 0 /\ DOMAIN s = {}
  OBVIOUS
<1>2. f[0] = StartDecoder(b)
  OBVIOUS
<1>3. f = [k \in 0..Len(s) |-> IF k = 0 THEN StartDecoder(b) ELSE Decode(b, f[k-1], s[k])]
  BY <1>1
<1> HIDE DEF f, s
<1>4. Reads(f, b, s)
  BY <1>1, <1>3 DEF Reads, IsTrace
<1>5. f[Len(s)] = StartDecoder(b)
  BY <1>1, <1>2
<1> QED BY <1>4, <1>5 DEF ReadsTo, s

(* One bin more has been read. *)
LEMMA OneMoreRead ==
  ASSUME NEW S, NEW coded, coded \in Seq(S), NEW x, x \in S, NEW b, NEW d, ReadsTo(b, coded, d),
         NEW e, e = Decode(b, d, x), e.val = x.val
  PROVE  ReadsTo(b, Append(coded, x), e)
<1>1. PICK f : Reads(f, b, coded) /\ f[Len(coded)] = d
  BY DEF ReadsTo
<1> DEFINE n == Len(coded)
           all == Append(coded, x)
           g == [k \in 0..(n + 1) |-> IF k <= n THEN f[k] ELSE e]
<1>2. /\ n \in Nat /\ Len(all) = n + 1 /\ all[n + 1] = x /\ \A k \in 1..n : all[k] = coded[k]
      /\ DOMAIN all = 1..(n + 1) /\ DOMAIN coded = 1..n
  OBVIOUS
<1>3. \A k \in 0..n : f[k] = IF k = 0 THEN StartDecoder(b) ELSE Decode(b, f[k-1], coded[k])
  BY <1>1 DEF Reads, IsTrace
<1>4. \A k \in 1..n : f[k].val = coded[k].val
  BY <1>1, <1>2 DEF Reads
<1>5. (\A k \in 0..n : g[k] = f[k]) /\ g[n + 1] = e
  BY <1>2
<1>6. g = [k \in 0..(n + 1) |-> g[k]]
  OBVIOUS
<1>7. f[n] = d
  BY <1>1
<1> HIDE DEF n, all, g
<1>8. \A k \in 0..(n + 1) : g[k] = IF k = 0 THEN StartDecoder(b) ELSE Decode(b, g[k-1], all[k])
  <2> TAKE k \in 0..(n + 1)
  <2>1. CASE k = n + 1
    <3>1. k - 1 = n /\ k # 0 /\ n \in 0..n
      BY <1>2, <2>1
    <3>2. g[k-1] = d /\ all[k] = x
      BY <1>2, <1>5, <1>7, <2>1, <3>1
    <3> QED BY <1>5, <2>1, <3>1, <3>2
  <2>2. CASE k \in 1..n
    <3>1. k - 1 \in 0..n /\ k \in 0..n /\ k # 0
      BY <1>2, <2>2
    <3>2. g[k-1] = f[k-1] /\ g[k] = f[k] /\ all[k] = coded[k]
      BY <1>2, <1>5, <2>2, <3>1
    <3> QED BY <1>3, <3>1, <3>2
  <2>3. CASE k = 0
    <3>1. k \in 0..n
      BY <1>2, <2>3
    <3> QED BY <1>3, <1>5, <2>3, <3>1
  <2> QED BY <1>2, <2>1, <2>2, <2>3
<1>9. IsTrace(g, b, all)
  <2>1. g = [k \in 0..(n + 1) |-> IF k = 0 THEN StartDecoder(b) ELSE Decode(b, g[k-1], all[k])]
    BY <1>6, <1>8, Zenon
  <2> QED BY <1>2, <2>1 DEF IsTrace
<1>10. \A k \in DOMAIN all : g[k].val = all[k].val
  <2> TAKE k \in DOMAIN all
  <2>1. CASE k = n + 1
    BY <1>2, <1>5, <2>1
  <2>2. CASE k \in 1..n
    <3>1. k \in 0..n
      BY <1>2, <2>2
    <3> QED BY <1>2, <1>4, <1>5, <2>2, <3>1
  <2> QED BY <1>2, <2>1, <2>2
<1>11. g[Len(all)] = e
  BY <1>2, <1>5
<1> QED BY <1>9, <1>10, <1>11 DEF Reads, ReadsTo, all

(* The engine has coded the bins: from every stream inside its interval a  *)
(* decoder reads them, and is then where the engine is.                    *)
Decodes(c, coded) ==
  /\ c.codes \in ByteStreams
  /\ \A b \in Bits : Inside(c, b) => \E val : ReadsTo(b, coded, At(c, b, val))

(* One bin more has been coded. *)
LEMMA DecodesMore ==
  ASSUME NEW S, NEW coded, coded \in Seq(S), NEW x, x \in S, NEW c, Decodes(c, coded),
         NEW d, d.codes \in ByteStreams, Follows(c, d, x)
  PROVE  Decodes(d, Append(coded, x))
<1> SUFFICES ASSUME NEW b \in Bits, Inside(d, b)
             PROVE  \E val : ReadsTo(b, Append(coded, x), At(d, b, val))
  BY DEF Decodes
<1>1. Inside(c, b) /\ \A val : Decode(b, At(c, b, val), x) = At(d, b, x.val)
  BY DEF Follows
<1>2. PICK val : ReadsTo(b, coded, At(c, b, val))
  BY <1>1 DEF Decodes
<1> DEFINE e == At(d, b, x.val)
           old == At(c, b, val)
<1>3. e = Decode(b, old, x)
  BY <1>1
<1>4. e.val = x.val
  BY DEF At, Decoder
<1>5. ReadsTo(b, coded, old)
  BY <1>2
<1> HIDE DEF e, old
<1>6. ReadsTo(b, Append(coded, x), e)
  BY <1>3, <1>4, <1>5, OneMoreRead
<1> QED BY <1>6 DEF e

(* A decoder that starts is where a reset engine is. *)
LEMMA ResetDecodes == Decodes(ResetCabac, <<>>)
<1> DEFINE c == ResetCabac
           none == 0
<1>1. /\ c.codes = <<>> /\ c.low = 0 /\ c.range = 510 /\ c.bitsLeft = 23 /\ c.buffer = 255 /\ c.numByte = 0
  BY DEF ResetCabac
<1> HIDE DEF c
<1>2. HeldCodes(c) = <<>>
  BY <1>1 DEF HeldCodes, HeldBack
<1>3. Value(c) = 0 /\ ReadBits(c) = 9
  <2>1. 32 - c.bitsLeft = 9
    BY <1>1
  <2>2. Two(32 - c.bitsLeft) = 512
    BY <2>1, Powers
  <2>3. Num(HeldCodes(c)) = 0 /\ Size(HeldCodes(c)) = 0
    BY <1>2, NoBytes
  <2> QED BY <1>1, <2>1, <2>2, <2>3 DEF Value, ReadBits
<1>4. c.codes \in ByteStreams
  BY <1>1 DEF ByteStreams
<1>5. ASSUME NEW b \in Bits PROVE \E val : ReadsTo(b, <<>>, At(c, b, val))
  <2> DEFINE nine == 9
             x == Fetch(b, none, nine)
  <2>1. x \in Nat
    <3>1. none \in Nat /\ nine \in Nat
      OBVIOUS
    <3> HIDE DEF none, nine
    <3> QED BY <3>1, FetchIn
  <2>2. Read(c, b) = x
    BY <1>3 DEF Read
  <2>3. StartDecoder(b) = [range |-> 510, offset |-> x, read |-> 9, val |-> 0]
    BY DEF StartDecoder
  <2> HIDE DEF x
  <2>4. Read(c, b) - Value(c) = x
    BY <1>3, <2>1, <2>2
  <2>5. At(c, b, 0) = StartDecoder(b)
    BY <1>1, <1>3, <2>3, <2>4 DEF At, Decoder
  <2> QED BY <2>5, NoneRead
<1>6. Decodes(c, <<>>)
  BY <1>4, <1>5 DEF Decodes
<1> QED BY <1>6 DEF c

(* The bins of the actions. *)
ContextCoded   == {[kind |-> "context", row |-> row, val |-> lps] : row \in LPSRows, lps \in BOOLEAN}
BypassCoded    == {[kind |-> "bypass", row |-> v[2], val |-> v[1]] : v \in BypassBins}
RemainderCoded == {[kind |-> "remainder", row |-> r[2], val |-> r[1]] : r \in Remainders}

Coded == ContextCoded \cup BypassCoded \cup RemainderCoded \cup {End(bit) : bit \in {0, 1}}

(***************************************************************************)
(* The inductive invariant: while a tile is coded, a decoder reads the     *)
(* bins from EVERY stream inside the interval, and is where the engine is; *)
(* when the tile has ended, it has read the stream of the tile, up to and  *)
(* with its stop bit.                                                      *)
(***************************************************************************)
DecodingInv ==
  /\ bins \in Seq(Coded)
  /\ phase = "code" => Decodes(engine, bins)
  /\ phase = "flushed" =>
       \E d : ReadsTo(TileBits(engine), bins, d) /\ d.read = Len(TileBits(engine))

(* Init *)
LEMMA DecodingInitial == Init => DecodingInv
<1> HAVE Init
<1>1. engine = ResetCabac /\ phase = "code" /\ bins = <<>>
  BY DEF Init
<1>2. bins \in Seq(Coded)
  BY <1>1
<1>3. Decodes(engine, bins)
  BY <1>1, ResetDecodes
<1> QED BY <1>1, <1>2, <1>3 DEF DecodingInv

(* What the invariants say of the engine that codes. *)
LEMMA CodingNow ==
  ASSUME CabacInv, DecodingInv, phase = "code"
  PROVE  Coding(engine) /\ Decodes(engine, bins)
<1>1. Ready(engine)
  BY DEF CabacInv
<1>2. Decodes(engine, bins)
  BY DEF DecodingInv
<1> QED BY <1>1, <1>2 DEF Coding, Decodes

(* A call that encodes bins. *)
LEMMA DecodingCodeStep ==
  ASSUME CabacInv, DecodingInv, NEW c, NEW coded, coded \in Coded, Code(c, coded),
         Coding(engine) => c.codes \in ByteStreams /\ Follows(engine, c, coded)
  PROVE  DecodingInv'
<1>1. phase = "code" /\ engine' = c /\ bins' = Append(bins, coded) /\ phase' = "code"
  BY DEF Code
<1>2. bins \in Seq(Coded)
  BY DEF DecodingInv
<1>3. Coding(engine) /\ Decodes(engine, bins)
  BY <1>1, CodingNow
<1>4. c.codes \in ByteStreams /\ Follows(engine, c, coded)
  BY <1>3
<1>5. Decodes(c, Append(bins, coded))
  BY <1>2, <1>3, <1>4, DecodesMore
<1>6. Append(bins, coded) \in Seq(Coded)
  BY <1>2
<1>7. Decodes(engine, bins)'
  BY <1>1, <1>5
<1>8. (bins \in Seq(Coded))'
  BY <1>1, <1>6
<1> QED BY <1>1, <1>7, <1>8 DEF DecodingInv

(* The bypass bins of the constants fit. *)
LEMMA BypassFits ==
  ASSUME NEW v, v \in BypassBins PROVE Fits(v[1], v[2])
<1>1. v[2] \in 1..20 /\ v[1] \in 0..(2^v[2] - 1)
  BY BypassBinsAssumption
<1>2. v[2] \in 0..32 /\ v[2] \in 1..20
  BY <1>1
<1>3. Two(v[2]) \in Nat
  BY <1>2, Doubling
<1>4. v[1] \in 0..(Two(v[2]) - 1)
  BY <1>1 DEF Two
<1> DEFINE p == Two(v[2])
           u == v[1]
<1>5. u \in 0..(p - 1) /\ p \in Nat
  BY <1>3, <1>4
<1> HIDE DEF p, u
<1>6. u \in Nat /\ u <= p - 1
  BY <1>5
<1> QED BY <1>2, <1>6 DEF Fits, p, u

(* The remainders of the constants fit. *)
LEMMA RemainderFits ==
  ASSUME NEW r, r \in Remainders
  PROVE  r[1] \in Nat /\ r[1] < Two(15) /\ r[2] \in 0..4
<1> DEFINE p      == Two(15)
           symbol == r[1]
           param  == r[2]
<1>1. r[1] \in 0..(2^15 - 1) /\ r[2] \in 0..4
  BY RemaindersAssumption, Zenon
<1>2. symbol \in 0..(p - 1) /\ param \in 0..4
  BY <1>1, Zenon DEF Two
<1>3. p \in Nat
  BY Powers
<1> HIDE DEF p, symbol, param
<1>4. symbol \in Nat /\ symbol < p
  BY <1>2, <1>3
<1> QED BY <1>2, <1>4 DEF p, symbol, param

(* The codes of a remainder leave bytes only. *)
LEMMA EncodingCodesInBytes ==
  ASSUME NEW c, Coding(c), NEW codes, Fits(codes[1][1], codes[1][2]),
         Len(codes) # 1 => Fits(codes[2][1], codes[2][2])
  PROVE  EncodeCodes(c, codes).codes \in ByteStreams
<1> DEFINE prefix == EncodeBinsEP(c, codes[1][1], codes[1][2])
<1>1. Coding(prefix)
  BY BinsEPNarrows DEF BypassTo
<1> HIDE DEF prefix
<1>2. CASE Len(codes) = 1
  <2>1. EncodeCodes(c, codes) = prefix
    BY <1>2, Zenon DEF EncodeCodes, prefix
  <2> QED BY <1>1, <2>1 DEF Coding
<1>3. CASE Len(codes) # 1
  <2>1. EncodeCodes(c, codes) = EncodeBinsEP(prefix, codes[2][1], codes[2][2])
    BY <1>3, Zenon DEF EncodeCodes, prefix
  <2>2. Coding(EncodeBinsEP(prefix, codes[2][1], codes[2][2]))
    BY <1>1, <1>3, BinsEPNarrows DEF BypassTo
  <2> QED BY <2>1, <2>2 DEF Coding
<1> QED BY <1>2, <1>3

(* A terminating bin 0 leaves the engine coding. *)
LEMMA TerminatingCodes ==
  ASSUME NEW c, Coding(c)
  PROVE  Coding(EncodeTerminatingBit(c, 0))
<1> DEFINE range == c.range - 2
           d == EncodeTerminatingBit(c, 0)
           n == MPSShift(range)
           none == 0
<1>1. Narrows(c, d, none, range * Two(n), n)
  BY TerminatingNarrows
<1>2. Ready(d)
  BY EncodingTerminatingBit DEF Coding
<1> HIDE DEF range, d, n, none
<1>3. d.codes \in ByteStreams
  BY <1>1 DEF Narrows
<1> QED BY <1>2, <1>3 DEF Coding, d

(* FinishTile: Flush leaves a stream that the decoder reads to its end. *)
LEMMA TileStep ==
  ASSUME CabacInv, DecodingInv, NEW isLastSliceCTU \in BOOLEAN, FinishTile(isLastSliceCTU)
  PROVE  DecodingInv'
<1> DEFINE c == IF isLastSliceCTU THEN engine ELSE EncodeTerminatingBit(engine, 0)
           e == EncodeTerminatingBit(c, 1)
           more == IF isLastSliceCTU THEN <<>> ELSE <<End(0)>>
           coded == IF isLastSliceCTU THEN bins ELSE Append(bins, End(0))
           stop == End(1)
           b == TileBits(Flush(e))
<1>1. /\ phase = "code" /\ phase' = "flushed" /\ engine' = Flush(e)
      /\ bins' = (bins \o more) \o <<stop>>
  BY DEF FinishTile
<1>2. Coding(engine) /\ Decodes(engine, bins) /\ bins \in Seq(Coded)
  BY <1>1, CodingNow DEF DecodingInv
<1>3. End(0) \in Coded /\ stop \in Coded
  BY DEF Coded
<1>4. bins \o more = coded /\ coded \in Seq(Coded) /\ Coding(c) /\ Decodes(c, coded)
  <2> DEFINE x == End(0)
  <2>1. CASE isLastSliceCTU
    <3>1. more = <<>> /\ coded = bins /\ c = engine
      BY <2>1
    <3> DEFINE s == bins
    <3>2. s \in Seq(Coded)
      BY <1>2
    <3> HIDE DEF more, coded, c, s
    <3>3. s \o <<>> = s
      BY <3>2
    <3>4. bins \o more = bins
      BY <3>1, <3>3 DEF s
    <3> QED BY <1>2, <3>1, <3>4
  <2>2. CASE ~ isLastSliceCTU
    <3> DEFINE d == EncodeTerminatingBit(engine, 0)
    <3>1. more = <<x>> /\ coded = Append(bins, x) /\ c = d
      BY <2>2
    <3>2. Coding(d)
      BY <1>2, TerminatingCodes
    <3>3. Follows(engine, d, x)
      BY <1>2, TerminatingFollows
    <3>4. x \in Coded
      BY <1>3
    <3> HIDE DEF more, coded, c, x, d
    <3>5. Decodes(d, Append(bins, x))
      <4>1. d.codes \in ByteStreams
        BY <3>2 DEF Coding
      <4> QED BY <1>2, <3>3, <3>4, <4>1, DecodesMore
    <3>6. bins \o <<x>> = Append(bins, x) /\ Append(bins, x) \in Seq(Coded)
      BY <1>2, <3>4
    <3> QED BY <3>1, <3>2, <3>5, <3>6
  <2> QED BY <2>1, <2>2
<1> HIDE DEF c, more, coded, stop
<1>5. bins' = Append(coded, stop) /\ Append(coded, stop) \in Seq(Coded)
  <2>1. coded \o <<stop>> = Append(coded, stop) /\ Append(coded, stop) \in Seq(Coded)
    BY <1>3, <1>4
  <2> QED BY <1>1, <1>4, <2>1
<1>6. Stops(c, b)
  BY <1>4, StopDecoded
<1>7. b = TileBits(engine')
  BY <1>1
<1> HIDE DEF b, e
<1>8. PICK val : ReadsTo(b, coded, At(c, b, val))
  BY <1>4, <1>6 DEF Stops, Decodes
<1> DEFINE old == At(c, b, val)
           d   == Decode(b, old, stop)
<1>9. d.val = stop.val /\ d.read = Len(b)
  <2>1. stop.val = 1
    BY DEF stop, End
  <2>2. d.val = 1 /\ d.read = Len(b)
    BY <1>6 DEF Stops, stop
  <2> QED BY <2>1, <2>2
<1>10. ReadsTo(b, coded, old) /\ d = Decode(b, old, stop)
  BY <1>8
<1> HIDE DEF old, d
<1>11. ReadsTo(b, Append(coded, stop), d)
  BY <1>3, <1>4, <1>9, <1>10, OneMoreRead
<1>12. (\E x : ReadsTo(TileBits(engine), bins, x) /\ x.read = Len(TileBits(engine)))'
  <2>1. ReadsTo(TileBits(engine'), bins', d) /\ d.read = Len(TileBits(engine'))
    BY <1>5, <1>7, <1>9, <1>11
  <2> QED BY <2>1
<1>13. (bins \in Seq(Coded))'
  BY <1>5
<1> QED BY <1>1, <1>12, <1>13 DEF DecodingInv

(* One step per action. *)
LEMMA DecodingStep == CabacInv /\ DecodingInv /\ [Next]_cabacVars => DecodingInv'
<1> SUFFICES ASSUME CabacInv, DecodingInv, [Next]_cabacVars PROVE DecodingInv'
  OBVIOUS
<1>1. ASSUME NEW row \in LPSRows, NEW lps \in BOOLEAN, CodeBin(row, lps) PROVE DecodingInv'
  <2> DEFINE coded == [kind |-> "context", row |-> row, val |-> lps]
             c == EncodeBin(engine, row, lps)
  <2>1. Code(c, coded)
    BY <1>1 DEF CodeBin
  <2>2. coded \in Coded
    <3>1. coded \in ContextCoded
      BY DEF ContextCoded
    <3> HIDE DEF coded
    <3> QED BY <3>1 DEF Coded
  <2>3. ASSUME Coding(engine) PROVE c.codes \in ByteStreams /\ Follows(engine, c, coded)
    <3> DEFINE uiLPS == LPSRange(row, engine.range)
               mps   == engine.range - uiLPS
    <3>1. \/ Narrows(engine, c, mps * Two(RenormBits(uiLPS)), uiLPS * Two(RenormBits(uiLPS)), RenormBits(uiLPS))
          \/ Narrows(engine, c, 0, mps * Two(MPSShift(mps)), MPSShift(mps))
      BY <2>3, BinNarrows
    <3>2. Follows(engine, c, coded)
      BY <2>3, BinFollows
    <3> HIDE DEF c, coded, uiLPS, mps
    <3>3. c.codes \in ByteStreams
      BY <3>1 DEF Narrows
    <3> QED BY <3>2, <3>3
  <2> HIDE DEF c, coded
  <2> QED BY <2>1, <2>2, <2>3, DecodingCodeStep
<1>2. ASSUME NEW v \in BypassBins, CodeBypass(v) PROVE DecodingInv'
  <2> DEFINE coded == [kind |-> "bypass", row |-> v[2], val |-> v[1]]
             c == EncodeBinsEP(engine, v[1], v[2])
  <2>1. Code(c, coded)
    BY <1>2 DEF CodeBypass
  <2>2. coded \in Coded
    <3>1. coded \in BypassCoded
      BY DEF BypassCoded
    <3> HIDE DEF coded
    <3> QED BY <3>1 DEF Coded
  <2>3. Fits(v[1], v[2])
    BY BypassFits
  <2>4. ASSUME Coding(engine) PROVE c.codes \in ByteStreams /\ Follows(engine, c, coded)
    <3>1. BypassTo(engine, c, v[1], v[2])
      BY <2>3, <2>4, BinsEPNarrows
    <3>2. Follows(engine, c, coded)
      BY <2>3, <2>4, BypassFollows
    <3> HIDE DEF c, coded
    <3> QED BY <3>1, <3>2 DEF BypassTo, Coding
  <2> HIDE DEF c, coded
  <2> QED BY <2>1, <2>2, <2>4, DecodingCodeStep
<1>3. ASSUME NEW r \in Remainders, CodeRemainder(r[1], r[2]) PROVE DecodingInv'
  <2> DEFINE coded == [kind |-> "remainder", row |-> r[2], val |-> r[1]]
             codes == CoeffRemainCodes(r[1], r[2])
             c == EncodeCodes(engine, codes)
  <2>1. Code(c, coded)
    BY <1>3 DEF CodeRemainder
  <2>2. coded \in Coded
    <3>1. coded \in RemainderCoded
      BY DEF RemainderCoded
    <3> HIDE DEF coded
    <3> QED BY <3>1 DEF Coded
  <2>3. r[1] \in Nat /\ r[1] < Two(15) /\ r[2] \in 0..4
    BY RemainderFits
  <2>4. ASSUME Coding(engine) PROVE c.codes \in ByteStreams /\ Follows(engine, c, coded)
    <3>1. Follows(engine, c, coded)
      BY <2>3, <2>4, RemainderFollows
    <3>2. /\ Fits(codes[1][1], codes[1][2])
          /\ Len(codes) # 1 => Fits(codes[2][1], codes[2][2])
      BY <2>3, RemainderCodes
    <3> HIDE DEF codes, coded
    <3>3. c.codes \in ByteStreams
      BY <2>4, <3>2, EncodingCodesInBytes
    <3> QED BY <3>1, <3>3
  <2> HIDE DEF c, coded, codes
  <2> QED BY <2>1, <2>2, <2>4, DecodingCodeStep
<1>4. ASSUME FinishCTU PROVE DecodingInv'
  <2> DEFINE coded == End(0)
             c == EncodeTerminatingBit(engine, 0)
  <2>1. Code(c, coded)
    BY <1>4 DEF FinishCTU
  <2>2. coded \in Coded
    BY DEF Coded
  <2>3. ASSUME Coding(engine) PROVE c.codes \in ByteStreams /\ Follows(engine, c, coded)
    BY <2>3, TerminatingCodes, TerminatingFollows DEF Coding
  <2> HIDE DEF c, coded
  <2> QED BY <2>1, <2>2, <2>3, DecodingCodeStep
<1>5. ASSUME NEW isLastSliceCTU \in BOOLEAN, FinishTile(isLastSliceCTU) PROVE DecodingInv'
  BY <1>5, TileStep
<1>6. ASSUME NextFrame PROVE DecodingInv'
  <2>1. engine' = ResetCabac /\ phase' = "code" /\ bins' = <<>>
    BY <1>6 DEF NextFrame
  <2>2. (bins \in Seq(Coded))'
    BY <2>1
  <2>3. Decodes(engine, bins)'
    BY <2>1, ResetDecodes
  <2> QED BY <2>1, <2>2, <2>3 DEF DecodingInv
<1>7. ASSUME UNCHANGED cabacVars PROVE DecodingInv'
  <2>1. engine' = engine /\ phase' = phase /\ bins' = bins
    BY <1>7 DEF cabacVars
  <2> QED BY <2>1 DEF DecodingInv
<1> QED BY <1>1, <1>2, <1>3, <1>4, <1>5, <1>6, <1>7 DEF Next

(***************************************************************************)
(* A decoder that knows the contexts reads from the stream of every tile   *)
(* the bins that were coded, all of them, and the last bit it reads is the *)
(* stop bit: for any rows of g_pbLPSTable, any bypass bins and remainders  *)
(* (WriteCoeffRemainExGolomb), tiles of any number of bins, and every way  *)
(* of holding bytes back, carrying and flushing.                           *)
(***************************************************************************)
THEOREM BinsAreRead == CabacSpec => []DecoderReadsBins
<1>1. DecodingInv => DecoderReadsBins
  <2> SUFFICES ASSUME DecodingInv, phase = "flushed"
               PROVE  LET bits == TileBits(engine)
                          after[k \in 0..Len(bins)] ==
                            IF k = 0 THEN StartDecoder(bits) ELSE Decode(bits, after[k-1], bins[k])
                      IN  /\ \A k \in DOMAIN bins : after[k].val = bins[k].val
                          /\ after[Len(bins)].read = Len(bits)
    BY Zenon DEF DecoderReadsBins
  <2> DEFINE b == TileBits(engine)
             g == CHOOSE ff : IsTrace(ff, b, bins)
  <2>1. PICK d : ReadsTo(b, bins, d) /\ d.read = Len(b)
    BY DEF DecodingInv
  <2>2. PICK f : Reads(f, b, bins) /\ f[Len(bins)] = d
    BY <2>1 DEF ReadsTo
  <2>3. IsTrace(f, b, bins)
    BY <2>2 DEF Reads
  <2>4. IsTrace(g, b, bins)
    BY <2>3
  <2> HIDE DEF g
  <2>5. Len(bins) \in Nat /\ DOMAIN bins = 1..Len(bins)
    BY DEF DecodingInv
  <2>6. \A k \in 0..Len(bins) : g[k] = f[k]
    <3>1. \A k \in 0..Len(bins) : f[k] = IF k = 0 THEN StartDecoder(b) ELSE Decode(b, f[k-1], bins[k])
      BY <2>3 DEF IsTrace
    <3>2. \A k \in 0..Len(bins) : g[k] = IF k = 0 THEN StartDecoder(b) ELSE Decode(b, g[k-1], bins[k])
      BY <2>4 DEF IsTrace
    <3>3. g[0] = f[0]
      BY <2>5, <3>1, <3>2
    <3>4. \A k \in 1..Len(bins) : g[k-1] = f[k-1] => g[k] = f[k]
      BY <2>5, <3>1, <3>2
    <3> DEFINE n == Len(bins)
    <3>5. n \in Nat /\ \A k \in 1..n : g[k-1] = f[k-1] => g[k] = f[k]
      BY <2>5, <3>4
    <3> HIDE DEF n
    <3>6. \A k \in 0..n : g[k] = f[k]
      BY <3>3, <3>5, Agreeing
    <3> QED BY <3>6 DEF n
  <2>7. \A k \in DOMAIN bins : g[k].val = bins[k].val
    <3>1. \A k \in DOMAIN bins : f[k].val = bins[k].val
      BY <2>2 DEF Reads
    <3> QED BY <2>5, <2>6, <3>1
  <2>8. g[Len(bins)].read = Len(b)
    BY <2>1, <2>2, <2>5, <2>6
  <2> QED BY <2>7, <2>8, Zenon DEF g, IsTrace
<1>2. CabacInv /\ DecodingInv /\ [Next]_cabacVars => (CabacInv /\ DecodingInv)'
  BY CabacStep, DecodingStep
<1>3. Init => CabacInv /\ DecodingInv
  BY CabacInitial, DecodingInitial
<1> QED BY <1>1, <1>2, <1>3, PTL DEF CabacSpec
================================================================================
