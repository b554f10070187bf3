---------------------------- MODULE InductionLemmas ----------------------------
(***************************************************************************)
(* Induction over data, for the proofs of the other modules.               *)
(*                                                                         *)
(* The library states its principles of induction with a predicate as      *)
(* parameter.  Here they are facts about sets: a set of numbers has a      *)
(* least element, a set of finite sets a minimal one, and a set with 0     *)
(* and every successor holds all the numbers; "P(n) for every n" is the    *)
(* last of them for the set {n \in Nat : P(n)}.  All of them come from one *)
(* fact of the library, that the strict subset relation on finite sets is  *)
(* well founded.                                                           *)
(*                                                                         *)
(* The second part is what follows for the sums of the community modules:  *)
(* the recursive function of SumFunctionOnSet exists, and any element may  *)
(* be taken out first.  The third is the powers of two.                    *)
(***************************************************************************)
EXTENDS Integers, FiniteSets, Functions, FiniteSetTheorems, TLAPS

(* A set of subsets of a finite set has a minimal element. *)
LEMMA MinimalSubset ==
  ASSUME NEW S, IsFiniteSet(S), NEW T, T \subseteq SUBSET S, T # {}
  PROVE  \E s \in T : \A u \in T : u \subseteq s => u = s
<1> DEFINE R == StrictSubsetOrdering(S)
           F == FiniteSubsetsOf(S)
<1>1. IsWellFoundedOn(R, F)
  BY FS_StrictSubsetOrderingWellFounded
<1>2. T \subseteq F
  BY FS_FiniteSubsetsOfFinite
<1>3. \E s \in T : \A u \in T : ~ (<<u, s>> \in R)
  <2> HIDE DEF R, F
  <2> QED BY <1>1, <1>2, WFMin
<1> QED BY <1>3 DEF StrictSubsetOrdering

(* A set of natural numbers has a least element. *)
THEOREM LeastNatural ==
  ASSUME NEW T, T \subseteq Nat, T # {}
  PROVE  \E x \in T : \A y \in T : x <= y
<1> DEFINE TT(n) == {0 .. x : x \in {z \in T : z <= n}}
<1>1. PICK n \in T : TRUE
  OBVIOUS
<1>2. IsFiniteSet(0 .. n)
  BY FS_Interval
<1>3. TT(n) \subseteq SUBSET (0 .. n) /\ TT(n) # {}
  BY <1>1
<1>4. PICK s \in TT(n) : \A u \in TT(n) : u \subseteq s => u = s
  <2> HIDE DEF TT
  <2> QED BY <1>2, <1>3, MinimalSubset
<1>5. PICK x \in T : x <= n /\ s = 0 .. x
  BY <1>4
<1>6. ASSUME NEW y \in T, y < x PROVE FALSE
  <2>1. 0 .. y \in TT(n) /\ 0 .. y \subseteq s
    BY <1>1, <1>5, <1>6
  <2>2. x \in 0 .. x /\ x \notin 0 .. y
    BY <1>6
  <2> QED BY <2>1, <2>2, <1>4, <1>5
<1> QED BY <1>5, <1>6

(* Induction over the natural numbers. *)
THEOREM NaturalsOf ==
  ASSUME NEW T, 0 \in T, \A n \in Nat : n \in T => n + 1 \in T
  PROVE  Nat \subseteq T
<1> SUFFICES ASSUME Nat \ T # {} PROVE FALSE
  OBVIOUS
<1>1. PICK x \in Nat \ T : \A y \in Nat \ T : x <= y
  BY LeastNatural
<1>2. x - 1 \in Nat /\ x - 1 \in T
  BY <1>1
<1> QED BY <1>2

(* A bounded set of natural numbers has a greatest element. *)
THEOREM GreatestNatural ==
  ASSUME NEW T, T \subseteq Nat, T # {}, NEW n \in Nat, \A x \in T : x <= n
  PROVE  \E x \in T : \A y \in T : x >= y
<1> DEFINE U == {n - x : x \in T}
<1>1. U \subseteq Nat /\ U # {}
  <2>1. \A x \in T : n - x \in Nat
    OBVIOUS
  <2>2. PICK x \in T : TRUE
    OBVIOUS
  <2>3. n - x \in U
    BY <2>2
  <2> QED BY <2>1, <2>3
<1>2. PICK u \in U : \A v \in U : u <= v
  <2> HIDE DEF U
  <2> QED BY <1>1, LeastNatural
<1>3. PICK x \in T : u = n - x
  OBVIOUS
<1>4. ASSUME NEW y \in T PROVE x >= y
  BY <1>2, <1>3, n - y \in U
<1> QED BY <1>4

--------------------------------------------------------------------------------
(* The element that the sum over s takes out first. *)
Choice(s) == CHOOSE x \in s : TRUE

LEMMA ChoiceIn == ASSUME NEW s, s # {} PROVE Choice(s) \in s
BY DEF Choice

(* h is the recursive function that defines the sum of f over S. *)
IsSum(h, f, S) ==
  h = [s \in SUBSET S |-> IF s = {} THEN 0
                          ELSE f[Choice(s)] + h[s \ {Choice(s)}]]

LEMMA SumIs ==
  ASSUME NEW f, NEW S, \E h : IsSum(h, f, S)
  PROVE  \E h : IsSum(h, f, S) /\ SumFunctionOnSet(f, S) = h[S]
<1> DEFINE h == CHOOSE hh : IsSum(hh, f, S)
<1>1. IsSum(h, f, S)
  OBVIOUS
<1>2. SumFunctionOnSet(f, S) = h[S]
  BY Zenon DEF SumFunctionOnSet, FoldFunctionOnSet, MapThenFoldSet, IsSum, Choice
<1> HIDE DEF h
<1> QED BY <1>1, <1>2

(* Two such functions agree where both are defined. *)
LEMMA SumUnique ==
  ASSUME NEW f, NEW S, NEW T, IsFiniteSet(S), T \subseteq S,
         NEW g, IsSum(g, f, S), NEW h, IsSum(h, f, T)
  PROVE  \A s \in SUBSET T : g[s] = h[s]
<1> DEFINE Bad == {s \in SUBSET T : g[s] # h[s]}
<1> SUFFICES ASSUME Bad # {} PROVE FALSE
  OBVIOUS
<1>1. PICK s \in Bad : \A u \in Bad : u \subseteq s => u = s
  <2>1. Bad \subseteq SUBSET S
    OBVIOUS
  <2> HIDE DEF Bad
  <2> QED BY <2>1, MinimalSubset
<1>2. s # {}
  BY <1>1 DEF IsSum
<1> DEFINE u == s \ {Choice(s)}
<1>3. u \in SUBSET T /\ u \subseteq s /\ u # s
  BY <1>1, <1>2, ChoiceIn
<1>4. g[u] = h[u]
  BY <1>1, <1>3
<1>5. g[s] = f[Choice(s)] + g[u] /\ h[s] = f[Choice(s)] + h[u]
  BY <1>1, <1>2 DEF IsSum
<1> QED BY <1>1, <1>4, <1>5

(* The function exists: in a smallest set where it did not, it would be    *)
(* the choice plus the sum of the rest.                                    *)
LEMMA SumExists ==
  ASSUME NEW f, NEW S, IsFiniteSet(S)
  PROVE  \E h : IsSum(h, f, S)
<1> DEFINE Sum(s) == SumFunctionOnSet(f, s)
           Bad == {s \in SUBSET S : ~ \E h : IsSum(h, f, s)}
<1> SUFFICES ASSUME Bad # {} PROVE FALSE
  OBVIOUS
<1>1. PICK s \in Bad : \A u \in Bad : u \subseteq s => u = s
  <2>1. Bad \subseteq SUBSET S
    OBVIOUS
  <2> HIDE DEF Bad
  <2> QED BY <2>1, MinimalSubset
<1>2. \A v \in SUBSET s : v # s => \E h : IsSum(h, f, v)
  BY <1>1
<1>3. \A v \in SUBSET s : v # s => \E h : IsSum(h, f, v) /\ Sum(v) = h[v]
  BY <1>2, SumIs
<1>4. \A v \in SUBSET s : IsFiniteSet(v)
  BY <1>1, FS_Subset
<1> HIDE DEF Sum, Bad
<1>5. \A v \in SUBSET s : v # s =>
        Sum(v) = IF v = {} THEN 0
                 ELSE f[Choice(v)] + Sum(v \ {Choice(v)})
  <2> SUFFICES ASSUME NEW v \in SUBSET s, v # s
               PROVE  Sum(v) = IF v = {} THEN 0
                               ELSE f[Choice(v)] + Sum(v \ {Choice(v)})
    OBVIOUS
  <2>1. PICK h : IsSum(h, f, v) /\ Sum(v) = h[v]
    BY <1>3
  <2>2. CASE v = {}
    BY <2>1, <2>2 DEF IsSum
  <2>3. CASE v # {}
    <3> DEFINE w == v \ {Choice(v)}
    <3>1. w \in SUBSET s /\ w # s /\ w \subseteq v
      BY <2>3, ChoiceIn
    <3>2. PICK g : IsSum(g, f, w) /\ Sum(w) = g[w]
      BY <1>3, <3>1
    <3>3. h[w] = g[w]
      BY <2>1, <3>1, <3>2, <1>4, SumUnique
    <3>4. h[v] = f[Choice(v)] + h[w]
      BY <2>1, <2>3 DEF IsSum
    <3> QED BY <2>1, <2>3, <3>2, <3>3, <3>4
  <2> QED BY <2>2, <2>3
<1> DEFINE H == [v \in SUBSET s |-> IF v = {} THEN 0
                                    ELSE f[Choice(v)] + Sum(v \ {Choice(v)})]
<1>6. \A v \in SUBSET s : v # {} =>
        H[v \ {Choice(v)}] = Sum(v \ {Choice(v)})
  BY <1>5, ChoiceIn
<1>7. IsSum(H, f, s)
  BY <1>6 DEF IsSum
<1> QED BY <1>1, <1>7 DEF Bad

(* The sum is the choice plus the sum of the rest. *)
LEMMA SumOfChoice ==
  ASSUME NEW f, NEW S, IsFiniteSet(S)
  PROVE  SumFunctionOnSet(f, S) =
           IF S = {} THEN 0
           ELSE f[Choice(S)] + SumFunctionOnSet(f, S \ {Choice(S)})
<1> DEFINE T == S \ {Choice(S)}
<1>1. PICK h : IsSum(h, f, S) /\ SumFunctionOnSet(f, S) = h[S]
  BY SumExists, SumIs
<1>2. IsFiniteSet(T)
  BY FS_Subset
<1>3. PICK g : IsSum(g, f, T) /\ SumFunctionOnSet(f, T) = g[T]
  <2> HIDE DEF T
  <2> QED BY <1>2, SumExists, SumIs
<1>4. g[T] = h[T]
  BY <1>1, <1>3, SumUnique
<1> QED BY <1>1, <1>3, <1>4 DEF IsSum

(* The sum of integers is an integer. *)
LEMMA SumInt ==
  ASSUME NEW S, IsFiniteSet(S), NEW f, \A x \in S : f[x] \in Int
  PROVE  SumFunctionOnSet(f, S) \in Int
<1> DEFINE Bad == {s \in SUBSET S : SumFunctionOnSet(f, s) \notin Int}
<1> SUFFICES ASSUME Bad # {} PROVE FALSE
  OBVIOUS
<1>1. PICK s \in Bad : \A u \in Bad : u \subseteq s => u = s
  <2>1. Bad \subseteq SUBSET S
    OBVIOUS
  <2> HIDE DEF Bad
  <2> QED BY <2>1, MinimalSubset
<1>2. IsFiniteSet(s)
  BY <1>1, FS_Subset
<1>3. SumFunctionOnSet(f, s) =
        IF s = {} THEN 0
        ELSE f[Choice(s)] + SumFunctionOnSet(f, s \ {Choice(s)})
  BY <1>2, SumOfChoice
<1>4. s # {}
  BY <1>1, <1>3
<1>5. Choice(s) \in s
  BY <1>4, ChoiceIn
<1>6. SumFunctionOnSet(f, s \ {Choice(s)}) \in Int
  BY <1>1, <1>5
<1> QED BY <1>1, <1>3, <1>4, <1>5, <1>6

(* Any element may be taken out first. *)
THEOREM SumTakesOut ==
  ASSUME NEW S, IsFiniteSet(S), NEW f, \A x \in S : f[x] \in Int, NEW x \in S
  PROVE  SumFunctionOnSet(f, S) = f[x] + SumFunctionOnSet(f, S \ {x})
<1> DEFINE Sum(s) == SumFunctionOnSet(f, s)
           Bad == {s \in SUBSET S :
                     \E y \in s : Sum(s) # f[y] + Sum(s \ {y})}
<1> SUFFICES ASSUME Bad # {} PROVE FALSE
  OBVIOUS
<1>1. PICK s \in Bad : \A u \in Bad : u \subseteq s => u = s
  <2>1. Bad \subseteq SUBSET S
    OBVIOUS
  <2> HIDE DEF Bad
  <2> QED BY <2>1, MinimalSubset
<1>2. PICK y \in s : Sum(s) # f[y] + Sum(s \ {y})
  BY <1>1
<1> DEFINE c == Choice(s)
<1>3. c \in s
  BY ChoiceIn
<1>4. \A u \in SUBSET S : IsFiniteSet(u) /\ Sum(u) \in Int
  <2> SUFFICES ASSUME NEW u \in SUBSET S PROVE IsFiniteSet(u) /\ Sum(u) \in Int
    OBVIOUS
  <2>1. IsFiniteSet(u)
    BY FS_Subset
  <2> QED BY <2>1, SumInt
<1>5. Sum(s) = f[c] + Sum(s \ {c})
  BY <1>1, <1>3, <1>4, SumOfChoice
<1> HIDE DEF Sum, c
<1>6. y # c
  BY <1>2, <1>5
<1>7. Sum(s \ {c}) = f[y] + Sum((s \ {c}) \ {y})
  <2>1. s \ {c} \in SUBSET S /\ s \ {c} \subseteq s /\ s \ {c} # s
    BY <1>1, <1>3
  <2>2. s \ {c} \notin Bad
    <3> HIDE DEF Bad
    <3> QED BY <1>1, <2>1
  <2> QED BY <2>1, <2>2, <1>6
<1>8. Sum(s \ {y}) = f[c] + Sum((s \ {y}) \ {c})
  <2>1. s \ {y} \in SUBSET S /\ s \ {y} \subseteq s /\ s \ {y} # s
    BY <1>1
  <2>2. s \ {y} \notin Bad
    <3> HIDE DEF Bad
    <3> QED BY <1>1, <2>1
  <2> QED BY <2>1, <2>2, <1>3, <1>6
<1> DEFINE rest == Sum((s \ {y}) \ {c})
<1>9. Sum((s \ {c}) \ {y}) = rest
  <2>1. (s \ {c}) \ {y} = (s \ {y}) \ {c}
    OBVIOUS
  <2> QED BY <2>1, Zenon
<1>10. /\ f[c] \in Int /\ f[y] \in Int
       /\ rest \in Int
  BY <1>1, <1>3, <1>4
<1>11. Sum(s \ {c}) = f[y] + rest /\ Sum(s \ {y}) = f[c] + rest
  BY <1>7, <1>8, <1>9, Zenon
<1>12. Sum(s) = f[y] + Sum(s \ {y})
  <2> HIDE DEF rest
  <2> QED BY <1>5, <1>10, <1>11
<1> QED BY <1>2, <1>12

(* The elements at[0], at[1], ... of f are the differences between the      *)
(* consecutive elements of P.                                              *)
Telescopes(n, f, at, P) ==
  /\ \A m \in 0 .. n : P[m] \in Int
  /\ \A m \in 0 .. n - 1 : f[at[m]] = P[m + 1] - P[m]
  /\ \A m, k \in 0 .. n - 1 : m # k => at[m] # at[k]

(***************************************************************************)
(* A sum of differences: when the element at[m] is the difference between  *)
(* P[m + 1] and P[m], the first n elements add up to P[n] - P[0].          *)
(***************************************************************************)
THEOREM SumOfDifferences ==
  ASSUME NEW n \in Nat, NEW f, NEW at, NEW P, Telescopes(n, f, at, P)
  PROVE  SumFunctionOnSet(f, {at[m] : m \in 0 .. n - 1}) = P[n] - P[0]
<1> USE DEF Telescopes
<1> DEFINE First(k) == {at[m] : m \in 0 .. k - 1}
           Sum(k) == SumFunctionOnSet(f, First(k))
           T == {k \in Nat : k <= n => /\ IsFiniteSet(First(k))
                                      /\ Sum(k) = P[k] - P[0]}
<1>1. 0 \in T
  <2>1. First(0) = {}
    OBVIOUS
  <2>2. IsFiniteSet(First(0)) /\ Sum(0) = 0
    BY <2>1, SumOfChoice, FS_EmptySet
  <2> QED BY <2>2
<1>2. ASSUME NEW k \in Nat, k \in T PROVE k + 1 \in T
  <2> SUFFICES ASSUME k + 1 <= n
               PROVE  /\ IsFiniteSet(First(k + 1))
                      /\ Sum(k + 1) = P[k + 1] - P[0]
    OBVIOUS
  <2>1. IsFiniteSet(First(k + 1))
    <3>1. First(k + 1) = First(k) \cup {at[k]}
      OBVIOUS
    <3>2. IsFiniteSet(First(k))
      BY <1>2
    <3> HIDE DEF First
    <3> QED BY <3>1, <3>2, FS_AddElement
  <2>2. \A e \in First(k + 1) : f[e] \in Int
    OBVIOUS
  <2>3. at[k] \in First(k + 1)
    OBVIOUS
  <2>4. First(k + 1) \ {at[k]} = First(k)
    OBVIOUS
  <2>5. Sum(k + 1) = f[at[k]] + SumFunctionOnSet(f, First(k + 1) \ {at[k]})
    <3> HIDE DEF First
    <3> QED BY <2>1, <2>2, <2>3, SumTakesOut
  <2>6. Sum(k + 1) = f[at[k]] + Sum(k)
    BY <2>4, <2>5, Zenon
  <2>7. Sum(k) = P[k] - P[0] /\ f[at[k]] = P[k + 1] - P[k]
    BY <1>2
  <2>8. P[k] \in Int /\ P[k + 1] \in Int /\ P[0] \in Int
    OBVIOUS
  <2> HIDE DEF Sum
  <2> QED BY <2>1, <2>6, <2>7, <2>8
<1>3. n \in T
  <2> HIDE DEF T
  <2> QED BY <1>1, <1>2, NaturalsOf
<1> QED BY <1>3

--------------------------------------------------------------------------------
(* Powers of two. *)

(* A power as an operator of its own, unfolded only where its argument is  *)
(* a numeral.                                                              *)
Two(n) == 2^n

(* The powers that a word of 32 bits has. *)
LEMMA Powers ==
  /\ Two(0) = 1 /\ Two(1) = 2 /\ Two(2) = 4 /\ Two(3) = 8
  /\ Two(4) = 16 /\ Two(5) = 32 /\ Two(6) = 64 /\ Two(7) = 128
  /\ Two(8) = 256 /\ Two(9) = 512 /\ Two(10) = 1024 /\ Two(11) = 2048
  /\ Two(12) = 4096 /\ Two(13) = 8192 /\ Two(14) = 16384 /\ Two(15) = 32768
  /\ Two(16) = 65536 /\ Two(17) = 131072 /\ Two(18) = 262144 /\ Two(19) = 524288
  /\ Two(20) = 1048576 /\ Two(21) = 2097152 /\ Two(22) = 4194304 /\ Two(23) = 8388608
  /\ Two(24) = 16777216 /\ Two(25) = 33554432 /\ Two(26) = 67108864 /\ Two(27) = 134217728
  /\ Two(28) = 268435456 /\ Two(29) = 536870912 /\ Two(30) = 1073741824 /\ Two(31) = 2147483648
  /\ Two(32) = 4294967296
BY DEF Two

(* Each is twice the one before. *)
LEMMA Doubling ==
  /\ \A n \in 0..32 : Two(n) \in Nat /\ Two(n) >= 1
  /\ \A n \in 0..31 : Two(n + 1) = 2 * Two(n)
<1>1. \A n \in 0..32 : Two(n) \in Nat /\ Two(n) >= 1
  BY Powers, SMTT(60)
<1>2. \A n \in 0..31 : Two(n + 1) = 2 * Two(n)
  BY Powers, SMTT(60)
<1> QED BY <1>1, <1>2
================================================================================
