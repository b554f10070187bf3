------------------------ MODULE CTUCompressorProofs ------------------------
(***************************************************************************)
(* Theorems about the CTU compressor (H265CTUCompressor.tla), for every    *)
(* size of the tile and whatever parts the search tries and gives up: the  *)
(* activations of xCompressLumaCU are nested, CompressChromaCU stays in    *)
(* the CTU, and the reconstruction that UpdateBuffers writes over the      *)
(* source is the decoder's, sample by sample.                              *)
(*                                                                         *)
(* The reconstruction and the decoder's picture hold the same block right  *)
(* after a CU is coded.  What has to be shown is that the blocks coded last *)
(* cover the CTU: the recursion over the quadtree (LumaDone) and the walk  *)
(* of the counter of 4x4 blocks over what the recursion left (ChromaDone). *)
(*                                                                         *)
(* The second part is about references: each luma and each chroma block is *)
(* predicted from the samples that a decoder has at that moment, and each  *)
(* mode is coded against the candidates that a decoder derives.            *)
(* The availability arrays say of five zones what the decoding order says  *)
(* of every sample (the geometry of Z); the samples in the arrays of the   *)
(* CTU and in the border buffers are the decoder's where they are          *)
(* available (RefInv); and the substitution of missing samples zone by     *)
(* zone is the standard's search for the nearest sample (Substituted).     *)
(***************************************************************************)
EXTENDS H265CTUCompressor, InductionLemmas, TLAPS

Sizes == {1, 2, 4, 8}

(* What an activation of xCompressLumaCU keeps.                            *)
Activation == [x : PUs, y : PUs, size : Sizes, part : 0 .. 3,
               valid : Seq(BOOLEAN), cand : Seq(Seq(Int))]

Searching == {"TestModes", "CodeCU", "PartDone"}
CTUCoded  == {"EncodeCTU", "UpdateBuffers"}

Grid(array, rows, columns) ==
  DOMAIN array = rows /\ \A r \in rows : DOMAIN array[r] = columns

(* The buffers that the argument reads or writes keep their dimensions.    *)
BuffersOK ==
  /\ neighMode \in [0 .. N + 1 -> [0 .. N + 1 -> Seq(Int)]]
  /\ Grid(infoL, 0 .. N, 0 .. N)
  /\ DOMAIN rec = Planes /\ DOMAIN pic = Planes /\ DOMAIN frame = Planes
  /\ \A p \in Planes :
       /\ Grid(rec[p], PUs, -1 .. N - 1)
       /\ Grid(pic[p], 0 .. Height - 1, 0 .. Width - 1)
       /\ Grid(frame[p], 0 .. Height - 1, 0 .. Width - 1)

SamePlace(c, d) == c.x = d.x /\ c.y = d.y /\ c.size = d.size
Inside(c, d) == /\ d.x <= c.x /\ c.x + c.size <= d.x + d.size
                /\ d.y <= c.y /\ c.y + c.size <= d.y + d.size

(* The activations: from the CTU down, each for the part that its caller   *)
(* is trying.                                                              *)
StackOK ==
  /\ stack \in Seq(Activation)
  /\ stack # <<>> <=> pc \in Searching
  /\ stack # <<>> => SamePlace(stack[1], NewCU(0, 0, N))
  /\ \A k \in DOMAIN stack :
       /\ stack[k].x % stack[k].size = 0 /\ stack[k].y % stack[k].size = 0
       /\ k > 1 => /\ stack[k - 1].size > 1
                   /\ SamePlace(stack[k], Part(stack[k - 1], stack[k - 1].part))
       /\ \A m \in 1 .. k : Inside(stack[k], stack[m])
  /\ pc = "PartDone" => cu.size > 1
  /\ pc = "TestModes" => cu.part = 0

(* The size of the CU that wrote the info of a PU, and of the chroma block *)
(* that stands for it.                                                     *)
SizeAt(x, y) == infoL[y + 1][x + 1].cu[3]
ChromaSize(x, y) == IF SizeAt(x, y) = 1 THEN 2 ELSE SizeAt(x, y)

InSquare(x, y, c) == InBlock(x, c.x, c.size) /\ InBlock(y, c.y, c.size)
SameBlock(x, y, u, v, s) == x \div s = u \div s /\ y \div s = v \div s

Kept(p, x, y) == rec[p][y][x] = pic[p][OffsetY + y][OffsetX + x]

(* The place of c is coded: it has the decoder's samples, and the info of  *)
(* its PUs is that of CUs aligned to their size (four of the smallest make *)
(* one of the next size).                                                  *)
LumaDone(c) ==
  \A x, y \in PUs : InSquare(x, y, c) =>
    /\ Kept("Y", x, y)
    /\ SizeAt(x, y) \in Sizes /\ SizeAt(x, y) <= c.size
    /\ \A u, v \in PUs :
         InSquare(u, v, c) /\ SameBlock(x, y, u, v, ChromaSize(x, y))
           => SizeAt(u, v) = SizeAt(x, y)

(* The parts tried before the current one of each activation, the current  *)
(* one when it has returned, and the CTU when the search is over.          *)
Tried(c) ==
  \/ \E k \in DOMAIN stack : \E j \in 0 .. 3 :
       j < stack[k].part /\ c = Part(stack[k], j)
  \/ pc = "PartDone" /\ c = Part(cu, cu.part)
  \/ pc \in {"CompressChromaCU"} \cup CTUCoded /\ c = NewCU(0, 0, N)

SearchOK == \A c \in Activation : Tried(c) => LumaDone(c)

Column(tot) == GetDispFrom4x4s(tot)[1]
Row(tot)    == GetDispFrom4x4s(tot)[2]

(* The chroma blocks before the counter are coded, and the counter is at   *)
(* the first 4x4 block of the next.                                        *)
ChromaDone(upTo) == \A t \in 0 .. upTo - 1 : Kept("C", Column(t), Row(t))

ChromaOK ==
  /\ tot4x4s \in 0 .. N * N - 1
  /\ pc = "CompressChromaCU" =>
       LET s == ChromaSize(Column(tot4x4s), Row(tot4x4s))
       IN  tot4x4s % (s * s) = 0 /\ ChromaDone(tot4x4s)
  /\ pc # "CompressChromaCU" => tot4x4s = 0
  /\ pc \in CTUCoded => ChromaDone(N * N)

(* The CTU of a sample of the tile.                                        *)
CTUOf(r, c) == (r \div N) * TileWidth + c \div N

FrameOK ==
  \A p \in Planes : \A r \in 0 .. Height - 1 : \A c \in 0 .. Width - 1 :
    frame[p][r][c] = IF CTUOf(r, c) < ctu \/ pc = "Done" THEN pic[p][r][c] ELSE Source

CountersOK ==
  /\ pc \in {"InitBuffersNewTile", "PrepareCTU", "CompressChromaCU", "Done"}
            \cup Searching \cup CTUCoded
  /\ ctu \in 0 .. TileWidth * TileHeight - 1
  /\ trials \in 0 .. MaxTrials

CTUInv == CountersOK /\ BuffersOK /\ StackOK /\ SearchOK /\ ChromaOK /\ FrameOK

-----------------------------------------------------------------------------
(* The place of the CTU in the tile.                                       *)

LEMMA DivMod ==
  ASSUME NEW a \in Nat, NEW b \in Nat \ {0}
  PROVE  /\ a \div b \in Nat /\ a % b \in 0 .. b - 1
         /\ a = (a \div b) * b + (a % b)
  OBVIOUS

(* Quotients are ordered as the multiples below them. *)
LEMMA QuotientBound ==
  ASSUME NEW q \in Nat, NEW r \in Nat, NEW b \in Nat \ {0}, NEW m \in Nat,
         q * b + r < m * b
  PROVE  q < m
<1> SUFFICES ASSUME q >= m PROVE FALSE
  OBVIOUS
<1>1. q * b >= m * b
  <2>1. PICK d \in Nat : q = m + d
    <3>1. q - m \in Nat /\ q = m + (q - m)
      OBVIOUS
    <3>2. QED BY <3>1
  <2>2. q * b = m * b + d * b /\ d * b >= 0
    BY <2>1
  <2>3. QED BY <2>2
<1>2. QED BY <1>1

LEMMA SameQuotient ==
  ASSUME NEW b \in Nat \ {0}, NEW q1 \in Nat, NEW r1 \in 0 .. b - 1,
         NEW q2 \in Nat, NEW r2 \in 0 .. b - 1, q1 * b + r1 = q2 * b + r2
  PROVE  q1 = q2 /\ r1 = r2
<1>1. (q1 * b + r1) \div b = q1 /\ (q1 * b + r1) % b = r1
  OBVIOUS
<1>2. (q2 * b + r2) \div b = q2 /\ (q2 * b + r2) % b = r2
  OBVIOUS
<1>3. QED BY <1>1, <1>2

LEMMA Offsets ==
  ASSUME CountersOK
  PROVE  /\ cx \in 0 .. TileWidth - 1 /\ cy \in 0 .. TileHeight - 1
         /\ ctu = cy * TileWidth + cx
         /\ OffsetX = 8 * cx /\ OffsetY = 8 * cy
         /\ Width = 8 * TileWidth /\ Height = 8 * TileHeight
<1> USE CTUAssumption
<1>1. ctu \in Nat /\ TileWidth \in Nat \ {0} /\ TileHeight \in Nat \ {0}
      /\ ctu < TileHeight * TileWidth
  <2>1. TileWidth * TileHeight = TileHeight * TileWidth /\ TileWidth * TileHeight \in Nat
    OBVIOUS
  <2>2. QED BY <2>1 DEF CountersOK
<1>2. cx \in 0 .. TileWidth - 1 /\ cy \in Nat /\ ctu = cy * TileWidth + cx
  BY <1>1, DivMod DEF cx, cy
<1>3. cy < TileHeight
  BY <1>1, <1>2, QuotientBound
<1>4. QED
  BY <1>1, <1>2, <1>3 DEF OffsetX, OffsetY, Width, Height, N, TOT_PUS_LINE

(* A sample is in the CTU that is being coded exactly when UpdateBuffers   *)
(* replaces it, and in no CTU beyond the last.                             *)
LEMMA CTUOfSample ==
  ASSUME CountersOK, NEW r \in 0 .. Height - 1, NEW c \in 0 .. Width - 1
  PROVE  /\ CTUOf(r, c) \in 0 .. TileWidth * TileHeight - 1
         /\ CTUOf(r, c) = ctu <=> Replaced(r, c)
<1> USE CTUAssumption
<1>1. /\ cx \in 0 .. TileWidth - 1 /\ cy \in 0 .. TileHeight - 1
      /\ ctu = cy * TileWidth + cx /\ OffsetX = 8 * cx /\ OffsetY = 8 * cy
      /\ Width = 8 * TileWidth /\ Height = 8 * TileHeight
  BY Offsets
<1>2. r \div 8 \in 0 .. TileHeight - 1 /\ c \div 8 \in 0 .. TileWidth - 1
  BY <1>1
<1> DEFINE q == r \div 8
           m == c \div 8
<1>3. q \in 0 .. TileHeight - 1 /\ m \in 0 .. TileWidth - 1
  BY <1>2
<1>4. CTUOf(r, c) = q * TileWidth + m
  BY DEF CTUOf, N, TOT_PUS_LINE
<1>5. Replaced(r, c) <=> q = cy /\ m = cx
  BY <1>1 DEF Replaced, InBlock, N, TOT_PUS_LINE
<1> HIDE DEF q, m
<1>6. CTUOf(r, c) = ctu <=> Replaced(r, c)
  BY <1>1, <1>3, <1>4, <1>5, SameQuotient
<1>7. q * TileWidth + m \in 0 .. TileWidth * TileHeight - 1
  <2>1. q * TileWidth \in Nat /\ q * TileWidth <= (TileHeight - 1) * TileWidth
    <3>1. PICK d \in Nat : TileHeight - 1 = q + d
      <4>1. TileHeight - 1 - q \in Nat /\ TileHeight - 1 = q + (TileHeight - 1 - q)
        BY <1>3
      <4>2. QED BY <4>1
    <3>2. (TileHeight - 1) * TileWidth = q * TileWidth + d * TileWidth
          /\ d * TileWidth \in Nat /\ q * TileWidth \in Nat
      BY <1>3, <3>1
    <3>3. QED BY <3>2
  <2>2. (TileHeight - 1) * TileWidth = TileWidth * TileHeight - TileWidth
    OBVIOUS
  <2>3. QED BY <1>3, <2>1, <2>2
<1>8. QED BY <1>4, <1>6, <1>7

-----------------------------------------------------------------------------
(* Arrays and sequences.                                                   *)

LEMMA FillIs ==
  ASSUME NEW array, NEW R, NEW C, Grid(array, R, C),
         NEW x, NEW y, NEW s, NEW v
  PROVE  /\ Grid(Fill(array, x, y, s, v), R, C)
         /\ \A r \in R : \A c \in C :
              Fill(array, x, y, s, v)[r][c] =
                IF InBlock(r, y, s) /\ InBlock(c, x, s) THEN v ELSE array[r][c]
  BY DEF Grid, Fill

LEMMA StackParts ==
  ASSUME NEW S, NEW s \in Seq(S), s # <<>>
  PROVE  /\ Len(s) \in Nat \ {0} /\ Last(s) = s[Len(s)] /\ Last(s) \in S
         /\ Front(s) \in Seq(S) /\ Len(Front(s)) = Len(s) - 1
         /\ \A k \in 1 .. Len(s) - 1 : Front(s)[k] = s[k]
<1>1. Len(s) \in Nat \ {0}
  OBVIOUS
<1>2. Front(s) = [k \in 1 .. Len(s) - 1 |-> s[k]]
  BY <1>1 DEF Front
<1>3. QED
  BY <1>1, <1>2 DEF Last

(* The innermost activation replaced by e, and by e and one more.          *)
WithLast(s, e)    == Front(s) \o <<e>>
WithCall(s, e, c) == Append(WithLast(s, e), c)

LEMMA StackReplace ==
  ASSUME NEW s \in Seq(Activation), s # <<>>, NEW e \in Activation
  PROVE  /\ WithLast(s, e) \in Seq(Activation) /\ Len(WithLast(s, e)) = Len(s)
         /\ \A k \in 1 .. Len(s) - 1 : WithLast(s, e)[k] = s[k]
         /\ WithLast(s, e)[Len(s)] = e
<1>1. /\ Len(s) \in Nat \ {0} /\ Front(s) \in Seq(Activation) /\ Len(Front(s)) = Len(s) - 1
      /\ \A k \in 1 .. Len(s) - 1 : Front(s)[k] = s[k]
  BY StackParts
<1>2. \A f \in Seq(Activation) : /\ f \o <<e>> \in Seq(Activation) /\ Len(f \o <<e>>) = Len(f) + 1
                        /\ \A k \in 1 .. Len(f) : (f \o <<e>>)[k] = f[k]
                        /\ (f \o <<e>>)[Len(f) + 1] = e
  OBVIOUS
<1>3. QED
  BY <1>1, <1>2 DEF WithLast

LEMMA StackCall ==
  ASSUME NEW s \in Seq(Activation), s # <<>>, NEW e \in Activation, NEW c \in Activation
  PROVE  /\ WithCall(s, e, c) \in Seq(Activation) /\ Len(WithCall(s, e, c)) = Len(s) + 1
         /\ \A k \in 1 .. Len(s) - 1 : WithCall(s, e, c)[k] = s[k]
         /\ WithCall(s, e, c)[Len(s)] = e /\ WithCall(s, e, c)[Len(s) + 1] = c
<1> DEFINE f == WithLast(s, e)
<1>1. /\ Len(s) \in Nat \ {0} /\ f \in Seq(Activation) /\ Len(f) = Len(s)
      /\ \A k \in 1 .. Len(s) - 1 : f[k] = s[k]
      /\ f[Len(s)] = e
  BY StackReplace, StackParts
<1> HIDE DEF f
<1>2. /\ Append(f, c) \in Seq(Activation) /\ Len(Append(f, c)) = Len(f) + 1
      /\ \A k \in 1 .. Len(f) : Append(f, c)[k] = f[k]
      /\ Append(f, c)[Len(f) + 1] = c
  BY <1>1
<1>3. QED
  BY <1>1, <1>2 DEF f, WithCall

-----------------------------------------------------------------------------
(* The quadtree.                                                           *)

Aligned(c) == c.x % c.size = 0 /\ c.y % c.size = 0

LEMMA PartIs ==
  ASSUME NEW c, NEW k
  PROVE  /\ Part(c, k).x = c.x + (c.size \div 2) * (k % 2)
         /\ Part(c, k).y = c.y + (c.size \div 2) * (k \div 2)
         /\ Part(c, k).size = c.size \div 2
         /\ Part(c, k).part = 0
         /\ Part(c, k).valid = <<>> /\ Part(c, k).cand = <<>>
  BY DEF Part, NewCU

LEMMA PartOffsets ==
  ASSUME NEW k \in 0 .. 3, NEW h \in {1, 2, 4}
  PROVE  /\ h * (k % 2) = IF k \in {0, 2} THEN 0 ELSE h
         /\ h * (k \div 2) = IF k \in {0, 1} THEN 0 ELSE h
<1>1. k % 2 = (IF k \in {0, 2} THEN 0 ELSE 1) /\ k \div 2 = (IF k \in {0, 1} THEN 0 ELSE 1)
  OBVIOUS
<1>2. QED BY <1>1

LEMMA PartPlace ==
  ASSUME NEW c \in Activation, c.size > 1, NEW k \in 0 .. 3
  PROVE  /\ Part(c, k).size \in {1, 2, 4} /\ c.size = 2 * Part(c, k).size
         /\ Part(c, k).x = c.x + (IF k \in {0, 2} THEN 0 ELSE Part(c, k).size)
         /\ Part(c, k).y = c.y + (IF k \in {0, 1} THEN 0 ELSE Part(c, k).size)
<1> DEFINE h == c.size \div 2
<1>1. c.size \in {2, 4, 8}
  BY DEF Activation, Sizes
<1>2. h \in {1, 2, 4} /\ c.size = 2 * h
  BY <1>1
<1>3. /\ Part(c, k).size = h
      /\ Part(c, k).x = c.x + h * (k % 2) /\ Part(c, k).y = c.y + h * (k \div 2)
  BY PartIs
<1> HIDE DEF h
<1>4. /\ h * (k % 2) = IF k \in {0, 2} THEN 0 ELSE h
      /\ h * (k \div 2) = IF k \in {0, 1} THEN 0 ELSE h
  BY <1>2, PartOffsets
<1>5. QED
  BY <1>2, <1>3, <1>4

(* A part of an aligned CU is an aligned CU inside it. *)
LEMMA PartInside ==
  ASSUME NEW c \in Activation, c.size > 1, Aligned(c), NEW k \in 0 .. 3
  PROVE  /\ Part(c, k) \in Activation
         /\ Aligned(Part(c, k)) /\ Inside(Part(c, k), c)
<1> DEFINE d == Part(c, k)
<1>1. /\ d.size \in {1, 2, 4} /\ c.size = 2 * d.size
      /\ d.x = c.x + (IF k \in {0, 2} THEN 0 ELSE d.size)
      /\ d.y = c.y + (IF k \in {0, 1} THEN 0 ELSE d.size)
  BY PartPlace
<1>2. c.x \in 0 .. 7 /\ c.y \in 0 .. 7 /\ c.x % c.size = 0 /\ c.y % c.size = 0
  BY DEF Activation, Aligned, PUs, N, TOT_PUS_LINE
<1>3. d.x \in 0 .. 7 /\ d.y \in 0 .. 7 /\ d.x % d.size = 0 /\ d.y % d.size = 0
  <2>1. CASE d.size = 1
    BY <1>1, <1>2, <2>1
  <2>2. CASE d.size = 2
    BY <1>1, <1>2, <2>2
  <2>3. CASE d.size = 4
    BY <1>1, <1>2, <2>3
  <2>4. QED BY <1>1, <2>1, <2>2, <2>3
<1>4. d \in Activation
  <2>1. d.x \in PUs /\ d.y \in PUs /\ d.size \in Sizes
    BY <1>1, <1>3 DEF PUs, Sizes, N, TOT_PUS_LINE
  <2>2. QED
    BY <2>1 DEF Part, NewCU, Activation
<1>5. Inside(d, c)
  BY <1>1, <1>2, <1>3 DEF Inside
<1>6. QED
  BY <1>3, <1>4, <1>5 DEF Aligned

(* Two parts of a CU have no PU in common. *)
LEMMA PartsDisjoint ==
  ASSUME NEW c \in Activation, c.size > 1, NEW j \in 0 .. 3, NEW k \in 0 .. 3, j # k,
         NEW x \in PUs, NEW y \in PUs, InSquare(x, y, Part(c, j)), InSquare(x, y, Part(c, k))
  PROVE  FALSE
<1>1. \A i \in 0 .. 3 :
        /\ Part(c, i).size \in {1, 2, 4} /\ c.size = 2 * Part(c, i).size
        /\ Part(c, i).x = c.x + (IF i \in {0, 2} THEN 0 ELSE Part(c, i).size)
        /\ Part(c, i).y = c.y + (IF i \in {0, 1} THEN 0 ELSE Part(c, i).size)
  BY PartPlace
<1>2. c.x \in 0 .. 7 /\ c.y \in 0 .. 7 /\ x \in 0 .. 7 /\ y \in 0 .. 7
  BY DEF Activation, PUs, N, TOT_PUS_LINE
<1>3. QED
  BY <1>1, <1>2 DEF InSquare, InBlock

(* The four parts of a CU cover it. *)
LEMMA PartsCover ==
  ASSUME NEW c \in Activation, c.size > 1,
         NEW x \in PUs, NEW y \in PUs, InSquare(x, y, c)
  PROVE  \E k \in 0 .. 3 : InSquare(x, y, Part(c, k))
<1>1. \A i \in 0 .. 3 :
        /\ Part(c, i).size \in {1, 2, 4} /\ c.size = 2 * Part(c, i).size
        /\ Part(c, i).x = c.x + (IF i \in {0, 2} THEN 0 ELSE Part(c, i).size)
        /\ Part(c, i).y = c.y + (IF i \in {0, 1} THEN 0 ELSE Part(c, i).size)
  BY PartPlace
<1>2. c.x \in 0 .. 7 /\ c.y \in 0 .. 7 /\ x \in 0 .. 7 /\ y \in 0 .. 7
  BY DEF Activation, PUs, N, TOT_PUS_LINE
<1> DEFINE h == Part(c, 0).size
<1>3. h \in {1, 2, 4} /\ c.size = 2 * h /\ \A i \in 0 .. 3 : Part(c, i).size = h
  BY <1>1
<1> HIDE DEF h
<1>4. CASE x < c.x + h /\ y < c.y + h
  <2>1. InSquare(x, y, Part(c, 0))
    BY <1>1, <1>2, <1>3, <1>4 DEF InSquare, InBlock
  <2>2. QED BY <2>1
<1>5. CASE x >= c.x + h /\ y < c.y + h
  <2>1. InSquare(x, y, Part(c, 1))
    BY <1>1, <1>2, <1>3, <1>5 DEF InSquare, InBlock
  <2>2. QED BY <2>1
<1>6. CASE x < c.x + h /\ y >= c.y + h
  <2>1. InSquare(x, y, Part(c, 2))
    BY <1>1, <1>2, <1>3, <1>6 DEF InSquare, InBlock
  <2>2. QED BY <2>1
<1>7. CASE x >= c.x + h /\ y >= c.y + h
  <2>1. InSquare(x, y, Part(c, 3))
    BY <1>1, <1>2, <1>3, <1>7 DEF InSquare, InBlock
  <2>2. QED BY <2>1
<1>8. QED BY <1>2, <1>3, <1>4, <1>5, <1>6, <1>7

(* What is inside a square is inside every square around it. *)
LEMMA InsideSquare ==
  ASSUME NEW c \in Activation, NEW d \in Activation, Inside(c, d),
         NEW x \in PUs, NEW y \in PUs, InSquare(x, y, c)
  PROVE  InSquare(x, y, d)
<1>1. /\ c.x \in Int /\ c.y \in Int /\ c.size \in Int /\ x \in Int
      /\ d.x \in Int /\ d.y \in Int /\ d.size \in Int /\ y \in Int
  BY DEF Activation, Sizes, PUs, N, TOT_PUS_LINE
<1>2. QED
  BY <1>1 DEF Inside, InSquare, InBlock

-----------------------------------------------------------------------------
(* The walk over the 4x4 blocks.                                           *)

LEMMA Disp ==
  ASSUME NEW t \in 0 .. 63
  PROVE  /\ Column(t) = (t % 2) + 2 * ((t \div 4) % 2) + 4 * ((t \div 16) % 2)
         /\ Row(t) = ((t \div 2) % 2) + 2 * ((t \div 8) % 2) + 4 * ((t \div 32) % 2)
         /\ Column(t) \in PUs /\ Row(t) \in PUs
<1>1. 2 ^ 0 = 1 /\ 2 ^ 1 = 2 /\ 2 ^ 2 = 4 /\ 2 ^ 3 = 8 /\ 2 ^ 4 = 16 /\ 2 ^ 5 = 32
  OBVIOUS
<1>2. Column(t) = (t % 2) + 2 * ((t \div 4) % 2) + 4 * ((t \div 16) % 2)
  BY <1>1 DEF Column, GetDispFrom4x4s
<1>3. Row(t) = ((t \div 2) % 2) + 2 * ((t \div 8) % 2) + 4 * ((t \div 32) % 2)
  BY <1>1 DEF Row, GetDispFrom4x4s
<1>4. QED
  BY <1>2, <1>3 DEF PUs, N, TOT_PUS_LINE

(* The counts of one aligned group of blocks are the PUs of one square. *)
LEMMA DispGroup ==
  ASSUME NEW t \in 0 .. 63, NEW u \in 0 .. 63, NEW s \in {2, 4, 8}
  PROVE  (t \div (s * s) = u \div (s * s)) <=>
         SameBlock(Column(t), Row(t), Column(u), Row(u), s)
<1>1. \A v \in 0 .. 63 :
         /\ Column(v) = (v % 2) + 2 * ((v \div 4) % 2) + 4 * ((v \div 16) % 2)
         /\ Row(v) = ((v \div 2) % 2) + 2 * ((v \div 8) % 2) + 4 * ((v \div 32) % 2)
  BY Disp
<1>2. CASE s = 2
  BY <1>1, <1>2 DEF SameBlock
<1>3. CASE s = 4
  BY <1>1, <1>3 DEF SameBlock
<1>4. CASE s = 8
  BY <1>1, <1>4 DEF SameBlock
<1>5. QED BY <1>2, <1>3, <1>4

(* Every PU has a count. *)
LEMMA DispOnto ==
  ASSUME NEW x \in PUs, NEW y \in PUs
  PROVE  \E t \in 0 .. 63 : Column(t) = x /\ Row(t) = y
<1> DEFINE t == (x % 2) + 2 * (y % 2) + 4 * ((x \div 2) % 2) + 8 * ((y \div 2) % 2)
                 + 16 * (x \div 4) + 32 * (y \div 4)
<1>1. x \in 0 .. 7 /\ y \in 0 .. 7
  BY DEF PUs, N, TOT_PUS_LINE
<1>2. t \in 0 .. 63
  BY <1>1
<1>3. /\ t % 2 = x % 2 /\ (t \div 4) % 2 = (x \div 2) % 2 /\ (t \div 16) % 2 = x \div 4
      /\ (t \div 2) % 2 = y % 2 /\ (t \div 8) % 2 = (y \div 2) % 2
      /\ (t \div 32) % 2 = y \div 4
  BY <1>1
<1>4. Column(t) = x /\ Row(t) = y
  BY <1>1, <1>2, <1>3, Disp
<1>5. QED BY <1>2, <1>4

-----------------------------------------------------------------------------
(* What is coded stays coded.                                              *)

LEMMA LumaSamePlace ==
  ASSUME NEW c, NEW d, SamePlace(c, d), LumaDone(c)
  PROVE  LumaDone(d)
<1>1. \A x, y \in PUs : InSquare(x, y, c) <=> InSquare(x, y, d)
  BY DEF SamePlace, InSquare, InBlock
<1>2. c.size = d.size
  BY DEF SamePlace
<1>3. QED
  BY <1>1, <1>2 DEF LumaDone

LEMMA LumaUnchanged ==
  ASSUME NEW c, LumaDone(c), UNCHANGED <<ctu, infoL>>,
         rec'["Y"] = rec["Y"], pic'["Y"] = pic["Y"]
  PROVE  LumaDone(c)'
<1>1. OffsetX' = OffsetX /\ OffsetY' = OffsetY
  BY DEF OffsetX, OffsetY, cx, cy
<1>2. \A x, y : SizeAt(x, y)' = SizeAt(x, y) /\ ChromaSize(x, y)' = ChromaSize(x, y)
  BY DEF SizeAt, ChromaSize
<1>3. \A x, y : Kept("Y", x, y)' <=> Kept("Y", x, y)
  BY <1>1 DEF Kept
<1>4. QED
  BY <1>2, <1>3 DEF LumaDone

(* A group of PUs of an aligned CU's size or less does not leave the CU.   *)
LEMMA SameBlockInside ==
  ASSUME NEW c \in Activation, Aligned(c), NEW s \in {1, 2, 4, 8}, s <= c.size,
         NEW x \in PUs, NEW y \in PUs, NEW u \in PUs, NEW v \in PUs,
         InSquare(x, y, c), SameBlock(x, y, u, v, s)
  PROVE  InSquare(u, v, c)
<1>1. /\ c.x \in 0 .. 7 /\ c.y \in 0 .. 7 /\ c.size \in {1, 2, 4, 8}
      /\ c.x % c.size = 0 /\ c.y % c.size = 0
      /\ x \in 0 .. 7 /\ y \in 0 .. 7 /\ u \in 0 .. 7 /\ v \in 0 .. 7
      /\ x \div s = u \div s /\ y \div s = v \div s
      /\ c.x <= x /\ x < c.x + c.size /\ c.y <= y /\ y < c.y + c.size
  BY DEF Activation, Aligned, PUs, N, TOT_PUS_LINE, Sizes, InSquare, InBlock, SameBlock
<1>2. \A a \in 0 .. 7, b \in 0 .. 7, d \in 0 .. 7, z \in {1, 2, 4, 8} :
        /\ a % z = 0 /\ s <= z /\ b \div s = d \div s /\ a <= b /\ b < a + z
        => a <= d /\ d < a + z
  <2>1. CASE s = 1
    BY <2>1
  <2>2. CASE s = 2
    BY <2>2
  <2>3. CASE s = 4
    BY <2>3
  <2>4. CASE s = 8
    BY <2>4
  <2>5. QED BY <2>1, <2>2, <2>3, <2>4
<1>3. QED
  BY <1>1, <1>2 DEF InSquare, InBlock

(* Four coded parts make a coded CU. *)
LEMMA JoinParts ==
  ASSUME NEW c \in Activation, c.size > 1, Aligned(c),
         \A k \in 0 .. 3 : LumaDone(Part(c, k))
  PROVE  LumaDone(c)
<1> DEFINE h == Part(c, 0).size
<1>1. h \in {1, 2, 4} /\ c.size = 2 * h /\ \A k \in 0 .. 3 : Part(c, k).size = h
  BY PartPlace, PartIs
<1>2. \A k \in 0 .. 3 : Part(c, k) \in Activation /\ Aligned(Part(c, k))
  BY PartInside
<1> HIDE DEF h
<1> SUFFICES ASSUME NEW x \in PUs, NEW y \in PUs, InSquare(x, y, c)
             PROVE  /\ Kept("Y", x, y)
                    /\ SizeAt(x, y) \in Sizes /\ SizeAt(x, y) <= c.size
                    /\ \A u, v \in PUs :
                         InSquare(u, v, c) /\ SameBlock(x, y, u, v, ChromaSize(x, y))
                           => SizeAt(u, v) = SizeAt(x, y)
  BY DEF LumaDone
<1>3. PICK k \in 0 .. 3 : InSquare(x, y, Part(c, k))
  BY PartsCover
<1>4. /\ Kept("Y", x, y)
      /\ SizeAt(x, y) \in Sizes /\ SizeAt(x, y) <= h
      /\ \A u, v \in PUs :
           InSquare(u, v, Part(c, k)) /\ SameBlock(x, y, u, v, ChromaSize(x, y))
             => SizeAt(u, v) = SizeAt(x, y)
  BY <1>1, <1>3 DEF LumaDone
<1>5. SizeAt(x, y) <= c.size
  BY <1>1, <1>4 DEF Sizes
<1>6. ASSUME NEW u \in PUs, NEW v \in PUs, InSquare(u, v, c),
             SameBlock(x, y, u, v, ChromaSize(x, y))
      PROVE  SizeAt(u, v) = SizeAt(x, y)
  <2>1. CASE h = 1
    <3>1. PICK j \in 0 .. 3 : InSquare(u, v, Part(c, j))
      BY <1>6, PartsCover
    <3>2. SizeAt(u, v) \in Sizes /\ SizeAt(u, v) <= 1
      BY <1>1, <2>1, <3>1 DEF LumaDone
    <3>3. QED BY <1>4, <2>1, <3>2 DEF Sizes
  <2>2. CASE h # 1
    <3>1. ChromaSize(x, y) \in {1, 2, 4, 8} /\ ChromaSize(x, y) <= h
      BY <1>1, <1>4, <2>2 DEF Sizes, ChromaSize
    <3>2. InSquare(u, v, Part(c, k))
      BY <1>1, <1>2, <1>3, <1>6, <3>1, SameBlockInside
    <3>3. QED BY <1>4, <1>6, <3>2
  <2>3. QED BY <2>1, <2>2
<1>7. QED BY <1>4, <1>5, <1>6

-----------------------------------------------------------------------------
(* The activations.                                                        *)

LEMMA StackFacts ==
  ASSUME StackOK, pc \in Searching
  PROVE  /\ stack \in Seq(Activation) /\ stack # <<>> /\ Len(stack) \in Nat \ {0}
         /\ DOMAIN stack = 1 .. Len(stack)
         /\ cu = stack[Len(stack)] /\ cu \in Activation /\ Aligned(cu)
<1>1. stack \in Seq(Activation) /\ stack # <<>>
  BY DEF StackOK
<1>2. Len(stack) \in Nat \ {0} /\ cu = stack[Len(stack)] /\ cu \in Activation
      /\ DOMAIN stack = 1 .. Len(stack)
  BY <1>1, StackParts DEF cu
<1>3. Aligned(cu)
  BY <1>2 DEF StackOK, Aligned
<1>4. QED BY <1>1, <1>2, <1>3

LEMMA InsideOrder ==
  ASSUME NEW a \in Activation, NEW b \in Activation, NEW c \in Activation
  PROVE  Inside(a, a) /\ (Inside(a, b) /\ Inside(b, c) => Inside(a, c))
<1>1. \A z \in Activation : z.x \in Int /\ z.y \in Int /\ z.size \in Int
  BY DEF Activation, PUs, N, TOT_PUS_LINE, Sizes
<1>2. QED BY <1>1 DEF Inside

(* xCompressLumaCU calls itself for a part. *)
LEMMA CallKeepsStack ==
  ASSUME StackOK, pc \in Searching, cu.size > 1,
         NEW e \in Activation, SamePlace(e, cu),
         pc' = "TestModes",
         stack' \in Seq(Activation), Len(stack') = Len(stack) + 1,
         \A k \in 1 .. Len(stack) - 1 : stack'[k] = stack[k],
         stack'[Len(stack)] = e, stack'[Len(stack) + 1] = Part(cu, e.part)
  PROVE  StackOK'
<1> DEFINE n == Len(stack)
           d == Part(cu, e.part)
<1>1. /\ stack \in Seq(Activation) /\ stack # <<>> /\ n \in Nat \ {0}
      /\ DOMAIN stack = 1 .. n /\ cu = stack[n] /\ cu \in Activation /\ Aligned(cu)
  BY StackFacts
<1>2. e.part \in 0 .. 3
  BY DEF Activation
<1>3. d \in Activation /\ Aligned(d) /\ Inside(d, cu) /\ d.part = 0
  BY <1>1, <1>2, PartInside, PartIs
<1>4. /\ stack' \in Seq(Activation) /\ Len(stack') = n + 1
      /\ \A k \in 1 .. n - 1 : stack'[k] = stack[k]
      /\ stack'[n] = e /\ stack'[n + 1] = d
  OBVIOUS
<1>5. DOMAIN stack' = 1 .. n + 1
  BY <1>4
<1>6. d = Part(e, e.part)
  BY DEF SamePlace, Part
<1>7. \A k \in 1 .. n : SamePlace(stack'[k], stack[k])
  BY <1>1, <1>4 DEF SamePlace
<1> HIDE DEF d
<1>8. SamePlace(stack'[1], NewCU(0, 0, N))
  BY <1>1, <1>7 DEF StackOK, SamePlace
<1>9. \A k \in 1 .. n + 1 : stack'[k] \in Activation
  BY <1>4, <1>5
<1>10. \A k \in 1 .. n : \A m \in 1 .. k : Inside(stack'[k], stack'[m])
  <2> SUFFICES ASSUME NEW k \in 1 .. n, NEW m \in 1 .. k
               PROVE  Inside(stack'[k], stack'[m])
    OBVIOUS
  <2>1. m \in 1 .. n
    BY <1>1
  <2>2. Inside(stack[k], stack[m])
    BY <1>1 DEF StackOK
  <2>3. QED
    BY <1>7, <2>1, <2>2 DEF SamePlace, Inside
<1>11. \A m \in 1 .. n : Inside(d, stack'[m])
  <2> SUFFICES ASSUME NEW m \in 1 .. n PROVE Inside(d, stack'[m])
    OBVIOUS
  <2>1. SamePlace(stack'[n], cu) /\ Inside(stack'[n], stack'[m])
    BY <1>1, <1>7, <1>10
  <2>2. Inside(d, stack'[n])
    BY <1>3, <2>1 DEF SamePlace, Inside
  <2>3. stack'[m] \in Activation /\ stack'[n] \in Activation
    BY <1>1, <1>9
  <2>4. QED
    BY <1>3, <2>1, <2>2, <2>3, InsideOrder
<1>12. \A k \in 1 .. n + 1 : \A m \in 1 .. k : Inside(stack'[k], stack'[m])
  <2> SUFFICES ASSUME NEW k \in 1 .. n + 1, NEW m \in 1 .. k
               PROVE  Inside(stack'[k], stack'[m])
    OBVIOUS
  <2>1. CASE k \in 1 .. n
    BY <1>10, <2>1
  <2>2. CASE k = n + 1 /\ m \in 1 .. n
    BY <1>4, <1>11, <2>2
  <2>3. CASE k = n + 1 /\ m = n + 1
    BY <1>3, <1>4, <2>3, InsideOrder
  <2>4. QED BY <1>1, <2>1, <2>2, <2>3
<1>13. \A k \in 1 .. n + 1 :
         /\ Aligned(stack'[k])
         /\ k > 1 => /\ stack'[k - 1].size > 1
                     /\ SamePlace(stack'[k], Part(stack'[k - 1], stack'[k - 1].part))
  <2> SUFFICES ASSUME NEW k \in 1 .. n + 1
               PROVE  /\ Aligned(stack'[k])
                      /\ k > 1 => /\ stack'[k - 1].size > 1
                                  /\ SamePlace(stack'[k], Part(stack'[k - 1], stack'[k - 1].part))
    OBVIOUS
  <2>1. CASE k = n + 1
    BY <1>1, <1>3, <1>4, <1>6, <2>1 DEF SamePlace, Aligned
  <2>2. CASE k \in 1 .. n
    <3>1. Aligned(stack'[k])
      BY <1>1, <1>7, <2>2 DEF StackOK, SamePlace, Aligned
    <3>2. ASSUME k > 1
          PROVE  stack'[k - 1].size > 1
                 /\ SamePlace(stack'[k], Part(stack'[k - 1], stack'[k - 1].part))
      <4>1. k - 1 \in 1 .. n - 1 /\ stack'[k - 1] = stack[k - 1]
        BY <1>1, <1>4, <2>2, <3>2
      <4>2. stack[k - 1].size > 1 /\ SamePlace(stack[k], Part(stack[k - 1], stack[k - 1].part))
        BY <1>1, <2>2, <3>2 DEF StackOK
      <4>3. QED
        BY <1>7, <2>2, <4>1, <4>2 DEF SamePlace
    <3>3. QED BY <3>1, <3>2
  <2>3. QED BY <1>1, <2>1, <2>2
<1>14. cu' = d /\ d.part = 0
  BY <1>1, <1>3, <1>4 DEF cu, Last
<1>15. stack' # <<>> /\ pc' \in Searching /\ pc' # "PartDone"
  BY <1>1, <1>4 DEF Searching
<1>16. QED
  BY <1>4, <1>5, <1>8, <1>12, <1>13, <1>14, <1>15 DEF StackOK, Aligned

(* An activation returns to the one that called it. *)
LEMMA ReturnKeepsStack ==
  ASSUME StackOK, pc \in Searching, stack' = Front(stack),
         pc' = IF Len(stack) = 1 THEN "CompressChromaCU" ELSE "PartDone"
  PROVE  StackOK'
<1> DEFINE n == Len(stack)
<1>1. /\ stack \in Seq(Activation) /\ stack # <<>> /\ n \in Nat \ {0}
      /\ DOMAIN stack = 1 .. n
  BY StackFacts
<1>2. /\ stack' \in Seq(Activation) /\ Len(stack') = n - 1
      /\ \A k \in 1 .. n - 1 : stack'[k] = stack[k]
  BY <1>1, StackParts
<1>3. DOMAIN stack' = 1 .. n - 1
  BY <1>2
<1>4. stack' # <<>> <=> n # 1
  BY <1>1, <1>2
<1>5. pc' \in Searching <=> n # 1
  BY DEF Searching
<1>6. stack' # <<>> => SamePlace(stack'[1], NewCU(0, 0, N))
  BY <1>1, <1>2, <1>4 DEF StackOK
<1>7. \A k \in 1 .. n - 1 :
        /\ Aligned(stack'[k])
        /\ k > 1 => /\ stack'[k - 1].size > 1
                    /\ SamePlace(stack'[k], Part(stack'[k - 1], stack'[k - 1].part))
        /\ \A m \in 1 .. k : Inside(stack'[k], stack'[m])
  <2> SUFFICES ASSUME NEW k \in 1 .. n - 1
               PROVE  /\ Aligned(stack'[k])
                      /\ k > 1 => /\ stack'[k - 1].size > 1
                                  /\ SamePlace(stack'[k], Part(stack'[k - 1], stack'[k - 1].part))
                      /\ \A m \in 1 .. k : Inside(stack'[k], stack'[m])
    OBVIOUS
  <2>1. stack'[k] = stack[k] /\ (k > 1 => stack'[k - 1] = stack[k - 1])
        /\ \A m \in 1 .. k : stack'[m] = stack[m]
    BY <1>1, <1>2
  <2>2. QED
    BY <1>1, <2>1 DEF StackOK, Aligned
<1>8. pc' = "PartDone" => cu'.size > 1
  <2> SUFFICES ASSUME n # 1 PROVE cu'.size > 1
    OBVIOUS
  <2>1. cu' = stack[n - 1]
    BY <1>1, <1>2 DEF cu, Last
  <2>2. stack[n - 1].size > 1
    BY <1>1 DEF StackOK
  <2>3. QED BY <2>1, <2>2
<1>9. pc' # "TestModes"
  OBVIOUS
<1>10. QED
  BY <1>2, <1>3, <1>4, <1>5, <1>6, <1>7, <1>8, <1>9 DEF StackOK, Aligned

(* A call tries no other part than its caller's, which is coded if it is   *)
(* not the first call.                                                     *)
LEMMA CallKeepsSearch ==
  ASSUME StackOK, SearchOK, pc \in Searching, UNCHANGED <<ctu, infoL, rec, pic>>,
         NEW e \in Activation, SamePlace(e, cu),
         e.part = cu.part \/ (pc = "PartDone" /\ e.part = cu.part + 1),
         pc' = "TestModes",
         stack' \in Seq(Activation), Len(stack') = Len(stack) + 1,
         \A k \in 1 .. Len(stack) - 1 : stack'[k] = stack[k],
         stack'[Len(stack)] = e, stack'[Len(stack) + 1].part = 0
  PROVE  SearchOK'
<1> DEFINE n == Len(stack)
<1>1. n \in Nat \ {0} /\ DOMAIN stack = 1 .. n /\ cu = stack[n] /\ cu \in Activation
  BY StackFacts
<1>2. DOMAIN stack' = 1 .. n + 1
  OBVIOUS
<1> SUFFICES ASSUME NEW c \in Activation, Tried(c)' PROVE LumaDone(c)'
  BY DEF SearchOK
<1>3. PICK k \in 1 .. n + 1 : \E j \in 0 .. 3 :
        j < stack'[k].part /\ c = Part(stack'[k], j)
  <2>1. pc' # "PartDone" /\ pc' \notin {"CompressChromaCU"} \cup CTUCoded
    BY DEF CTUCoded
  <2>2. QED BY <1>2, <2>1 DEF Tried
<1>4. PICK j \in 0 .. 3 : j < stack'[k].part /\ c = Part(stack'[k], j)
  BY <1>3
<1>5. Tried(c)
  <2>1. CASE k \in 1 .. n - 1
    <3>1. stack'[k] = stack[k] /\ k \in DOMAIN stack
      BY <1>1, <2>1
    <3>2. QED BY <1>4, <3>1 DEF Tried
  <2>2. CASE k = n
    <3>1. j < e.part /\ c = Part(cu, j)
      BY <1>4, <2>2 DEF SamePlace, Part
    <3>2. cu.part \in 0 .. 3
      BY <1>1 DEF Activation
    <3>3. CASE j < cu.part
      BY <1>1, <3>1, <3>3 DEF Tried
    <3>4. CASE ~(j < cu.part)
      BY <3>1, <3>2, <3>4 DEF Tried
    <3>5. QED BY <3>3, <3>4
  <2>3. CASE k = n + 1
    BY <1>4, <2>3
  <2>4. n \in Nat
    BY <1>1
  <2>5. k \in 1 .. n - 1 \/ k = n \/ k = n + 1
    BY <2>4
  <2>6. QED BY <2>1, <2>2, <2>3, <2>5
<1>6. rec'["Y"] = rec["Y"] /\ pic'["Y"] = pic["Y"] /\ UNCHANGED <<ctu, infoL>>
  OBVIOUS
<1>7. QED
  BY <1>5, <1>6, LumaUnchanged DEF SearchOK

(* When an activation returns with its CU coded, and the parts its callers *)
(* had coded before are still so, everything tried is coded.               *)
LEMMA ReturnKeepsSearch ==
  ASSUME StackOK, pc \in Searching, stack' = Front(stack),
         pc' = IF Len(stack) = 1 THEN "CompressChromaCU" ELSE "PartDone",
         NEW d \in Activation, d = cu, LumaDone(d)',
         \A k \in 1 .. Len(stack) - 1 : \A j \in 0 .. 3 : \A c \in Activation :
           j < stack[k].part /\ c = Part(stack[k], j) => LumaDone(c)'
  PROVE  SearchOK'
<1> DEFINE n == Len(stack)
<1>1. /\ stack \in Seq(Activation) /\ stack # <<>> /\ n \in Nat \ {0}
      /\ DOMAIN stack = 1 .. n /\ cu = stack[n]
  BY StackFacts
<1>2. /\ stack' \in Seq(Activation) /\ Len(stack') = n - 1
      /\ \A k \in 1 .. n - 1 : stack'[k] = stack[k]
  BY <1>1, StackParts
<1>3. DOMAIN stack' = 1 .. n - 1
  BY <1>2
<1>4. \A a, b : SamePlace(a, b) /\ LumaDone(a)' => LumaDone(b)'
  <2> SUFFICES ASSUME NEW a, NEW b, SamePlace(a, b), LumaDone(a)' PROVE LumaDone(b)'
    OBVIOUS
  <2>1. \A x, y \in PUs : InSquare(x, y, a) <=> InSquare(x, y, b)
    BY DEF SamePlace, InSquare, InBlock
  <2>2. a.size = b.size
    BY DEF SamePlace
  <2>3. QED BY <2>1, <2>2 DEF LumaDone
<1> SUFFICES ASSUME NEW c \in Activation, Tried(c)' PROVE LumaDone(c)'
  BY DEF SearchOK
<1>5. CASE \E k \in 1 .. n - 1 : \E j \in 0 .. 3 :
             j < stack'[k].part /\ c = Part(stack'[k], j)
  BY <1>2, <1>5
<1>6. CASE pc' = "PartDone" /\ c = Part(cu', cu'.part)
  <2>1. n # 1
    BY <1>6
  <2>2. cu' = stack[n - 1]
    BY <1>1, <1>2, <2>1 DEF cu, Last
  <2>3. SamePlace(d, c)
    BY <1>1, <1>6, <2>1, <2>2 DEF StackOK
  <2>4. QED BY <1>4, <2>3
<1>7. CASE pc' \in {"CompressChromaCU"} \cup CTUCoded /\ c = NewCU(0, 0, N)
  <2>1. n = 1
    BY <1>7 DEF CTUCoded
  <2>2. SamePlace(d, c)
    BY <1>1, <1>7, <2>1 DEF StackOK
  <2>3. QED BY <1>4, <2>2
<1>8. QED
  BY <1>3, <1>5, <1>6, <1>7 DEF Tried

-----------------------------------------------------------------------------
(* The parts of the invariant that a step leaves alone.                    *)

LEMMA BuffersSame ==
  ASSUME BuffersOK, UNCHANGED <<neighMode, infoL, rec, pic, frame>>
  PROVE  BuffersOK'
<1>1. /\ neighMode' = neighMode /\ infoL' = infoL /\ rec' = rec /\ pic' = pic
      /\ frame' = frame
  OBVIOUS
<1>2. QED
  BY <1>1 DEF BuffersOK, Height, Width, Grid

LEMMA FrameSame ==
  ASSUME FrameOK, UNCHANGED <<ctu, frame, pic>>, pc' # "Done", pc # "Done"
  PROVE  FrameOK'
  BY DEF FrameOK, CTUOf, Height, Width

LEMMA CountersSame ==
  ASSUME CountersOK, UNCHANGED <<ctu, trials>>,
         pc' \in {"InitBuffersNewTile", "PrepareCTU", "CompressChromaCU", "Done"}
                  \cup Searching \cup CTUCoded
  PROVE  CountersOK'
  BY DEF CountersOK

(* The chroma pass starts with the first block. *)
LEMMA ChromaStarts ==
  ASSUME ChromaOK, SearchOK', UNCHANGED tot4x4s,
         pc \in Searching, pc' \in Searching \cup {"CompressChromaCU"}
  PROVE  ChromaOK'
<1>1. tot4x4s = 0 /\ tot4x4s' = 0
  BY DEF ChromaOK, Searching
<1>2. pc' \notin CTUCoded
  BY DEF CTUCoded, Searching
<1>3. 0 \in 0 .. N * N - 1
  BY DEF N, TOT_PUS_LINE
<1>4. ASSUME pc' = "CompressChromaCU"
      PROVE  ChromaSize(Column(0), Row(0))' \in {2, 4, 8}
  <2> DEFINE top == NewCU(0, 0, N)
  <2>1. top \in Activation
    BY DEF NewCU, Activation, PUs, N, TOT_PUS_LINE, Sizes
  <2>2. LumaDone(top)'
    BY <1>4, <2>1 DEF SearchOK, Tried
  <2>3. Column(0) \in PUs /\ Row(0) \in PUs
    BY Disp
  <2>4. \A x, y \in PUs : InSquare(x, y, top)
    BY DEF InSquare, InBlock, NewCU, PUs, N, TOT_PUS_LINE
  <2>5. \A x, y \in PUs : SizeAt(x, y)' \in Sizes
    BY <2>2, <2>4 DEF LumaDone
  <2>6. \A x, y \in PUs : ChromaSize(x, y)' \in {2, 4, 8}
    BY <2>5 DEF ChromaSize, Sizes
  <2>7. QED BY <2>3, <2>6 DEF ChromaSize
<1>5. \A s \in {2, 4, 8} : 0 % (s * s) = 0
  OBVIOUS
<1>6. ChromaDone(0)'
  BY DEF ChromaDone
<1>7. QED
  BY <1>1, <1>2, <1>3, <1>4, <1>5, <1>6 DEF ChromaOK

-----------------------------------------------------------------------------
(* One lemma per action.                                                   *)

LEMMA InitOK == Init => CTUInv
<1> SUFFICES ASSUME Init PROVE CTUInv
  OBVIOUS
<1> USE CTUAssumption
<1>1. pc = "InitBuffersNewTile" /\ ctu = 0 /\ stack = <<>> /\ tot4x4s = 0 /\ trials = 0
  BY DEF Init
<1>2. CountersOK
  <2>1. TileWidth * TileHeight \in Nat \ {0}
    OBVIOUS
  <2>2. QED BY <1>1, <2>1 DEF CountersOK
<1>3. BuffersOK
  <2>1. neighMode \in [0 .. N + 1 -> [0 .. N + 1 -> Seq(Int)]]
    <3>1. Stale \in Seq(Int)
      BY DEF Stale
    <3>2. neighMode = [r \in 0 .. N + 1 |-> [c \in 0 .. N + 1 |-> Stale]]
      BY DEF Init
    <3>3. QED BY <3>1, <3>2
  <2>2. Grid(infoL, 0 .. N, 0 .. N)
    BY DEF Init, Grid
  <2>3. DOMAIN rec = Planes /\ \A p \in Planes : Grid(rec[p], PUs, -1 .. N - 1)
    BY DEF Init, Grid
  <2>4. DOMAIN pic = Planes /\ \A p \in Planes : Grid(pic[p], 0 .. Height - 1, 0 .. Width - 1)
    BY DEF Init, Grid, Picture
  <2>5. DOMAIN frame = Planes /\ \A p \in Planes : Grid(frame[p], 0 .. Height - 1, 0 .. Width - 1)
    BY DEF Init, Grid, Picture
  <2>6. QED BY <2>1, <2>2, <2>3, <2>4, <2>5 DEF BuffersOK
<1>4. StackOK
  <2>1. stack \in Seq(Activation) /\ DOMAIN stack = {}
    BY <1>1
  <2>2. QED BY <1>1, <2>1 DEF StackOK, Searching
<1>5. SearchOK
  <2>1. DOMAIN stack = {}
    BY <1>1
  <2>2. QED BY <1>1, <2>1 DEF SearchOK, Tried, CTUCoded
<1>6. ChromaOK
  BY <1>1 DEF ChromaOK, CTUCoded, N, TOT_PUS_LINE
<1>7. FrameOK
  <2> SUFFICES ASSUME NEW p \in Planes, NEW r \in 0 .. Height - 1, NEW c \in 0 .. Width - 1
               PROVE  /\ frame[p][r][c] = Source
                      /\ ~(CTUOf(r, c) < ctu) /\ pc # "Done"
    BY DEF FrameOK
  <2>1. CTUOf(r, c) \in 0 .. TileWidth * TileHeight - 1
    BY <1>2, CTUOfSample
  <2>2. frame[p][r][c] = Source
    BY DEF Init, Picture
  <2>3. QED BY <1>1, <2>1, <2>2
<1>8. QED
  BY <1>2, <1>3, <1>4, <1>5, <1>6, <1>7 DEF CTUInv

LEMMA InitBuffersNewTileOK == CTUInv /\ InitBuffersNewTile => CTUInv'
<1> SUFFICES ASSUME CTUInv, InitBuffersNewTile PROVE CTUInv'
  OBVIOUS
<1> USE DEF CTUInv
<1>1. /\ pc = "InitBuffersNewTile" /\ pc' = "PrepareCTU"
      /\ UNCHANGED <<ctu, stack, tot4x4s, rec, pic, frame, trials>>
  BY DEF InitBuffersNewTile
<1>2. BuffersOK'
  <2>1. neighMode' \in [0 .. N + 1 -> [0 .. N + 1 -> Seq(Int)]]
    <3>1. INVALID_MODE \in Seq(Int)
      BY DEF INVALID_MODE
    <3>2. neighMode' = [r \in 0 .. N + 1 |-> [c \in 0 .. N + 1 |-> INVALID_MODE]]
      BY DEF InitBuffersNewTile
    <3>3. QED BY <3>1, <3>2
  <2>2. Grid(infoL', 0 .. N, 0 .. N)
    BY DEF InitBuffersNewTile, Grid
  <2>3. QED BY <1>1, <2>1, <2>2 DEF BuffersOK, Height, Width, Grid
<1>3. CountersOK'
  BY <1>1, CountersSame
<1>4. stack = <<>> /\ DOMAIN stack = {}
  BY <1>1 DEF StackOK, Searching
<1>5. StackOK'
  BY <1>1, <1>4 DEF StackOK, Searching
<1>6. SearchOK'
  BY <1>1, <1>4 DEF SearchOK, Tried, CTUCoded
<1>7. ChromaOK'
  BY <1>1 DEF ChromaOK, CTUCoded
<1>8. FrameOK'
  BY <1>1, FrameSame
<1>9. QED
  BY <1>2, <1>3, <1>5, <1>6, <1>7, <1>8

LEMMA PrepareCTUOK == CTUInv /\ PrepareCTU => CTUInv'
<1> SUFFICES ASSUME CTUInv, PrepareCTU PROVE CTUInv'
  OBVIOUS
<1> USE DEF CTUInv
<1> DEFINE top == NewCU(0, 0, N)
<1>1. /\ pc = "PrepareCTU" /\ pc' = "TestModes" /\ stack' = <<top>>
      /\ UNCHANGED <<ctu, tot4x4s, rec, pic, frame, trials>>
  BY DEF PrepareCTU
<1>2. BuffersOK'
  <2>1. neighMode' \in [0 .. N + 1 -> [0 .. N + 1 -> Seq(Int)]]
    <3>1. INVALID_MODE \in Seq(Int) /\ VALID_MODE \in Seq(Int)
      BY DEF INVALID_MODE, VALID_MODE
    <3> DEFINE above(c) == IF c = 0 THEN cx > 0 /\ cy > 0
                           ELSE IF c = N + 1 THEN cx < TileWidth - 1 /\ cy > 0
                           ELSE cy > 0
    <3>2. neighMode' =
            [r \in 0 .. N + 1 |-> [c \in 0 .. N + 1 |->
               IF r = 0 /\ (cx = 0 \/ c \in {0, N + 1})
                 THEN IF above(c) THEN VALID_MODE ELSE INVALID_MODE
               ELSE IF cx = 0 THEN INVALID_MODE ELSE neighMode[r][c]]]
      BY DEF PrepareCTU
    <3>3. neighMode \in [0 .. N + 1 -> [0 .. N + 1 -> Seq(Int)]]
      BY DEF BuffersOK
    <3> HIDE DEF above
    <3>4. QED BY <3>1, <3>2, <3>3
  <2>2. Grid(infoL', 0 .. N, 0 .. N)
    <3>1. infoL' = [infoL EXCEPT ![0] = [c \in 0 .. N |->
                      IF c = 0 THEN infoL[0][0] ELSE topInfoL[OffsetX + c - 1]]]
      BY DEF PrepareCTU
    <3>2. Grid(infoL, 0 .. N, 0 .. N)
      BY DEF BuffersOK
    <3>3. QED BY <3>1, <3>2 DEF Grid
  <2>3. QED BY <1>1, <2>1, <2>2 DEF BuffersOK, Height, Width, Grid
<1>3. CountersOK'
  BY <1>1, CountersSame DEF Searching
<1>4. /\ top \in Activation /\ top.part = 0 /\ Aligned(top)
      /\ top.x = 0 /\ top.y = 0 /\ top.size = 8
  BY DEF NewCU, Activation, Aligned, PUs, N, TOT_PUS_LINE, Sizes
<1> HIDE DEF top
<1>5. stack' \in Seq(Activation) /\ stack' # <<>> /\ DOMAIN stack' = {1} /\ stack'[1] = top
  BY <1>1, <1>4
<1>6. StackOK'
  <2>1. Inside(top, top) /\ SamePlace(top, top)
    BY <1>4, InsideOrder DEF SamePlace
  <2>2. Len(stack') = 1 /\ cu' = top
    BY <1>1 DEF cu, Last
  <2>3. QED
    BY <1>1, <1>4, <1>5, <2>1, <2>2 DEF StackOK, Searching, Aligned, top
<1>7. SearchOK'
  BY <1>1, <1>4, <1>5 DEF SearchOK, Tried, CTUCoded
<1>8. ChromaOK'
  BY <1>1 DEF ChromaOK, CTUCoded
<1>9. FrameOK'
  BY <1>1, FrameSame
<1>10. QED
  BY <1>2, <1>3, <1>6, <1>7, <1>8, <1>9

LEMMA CandidatesOK ==
  ASSUME BuffersOK, cu \in Activation
  PROVE  GetCandModeListIntra(cu.x, cu.y) \in Seq(Seq(Int))
<1>1. cu.x \in 0 .. 7 /\ cu.y \in 0 .. 7
  BY DEF Activation, PUs, N, TOT_PUS_LINE
<1>2. \A r, c \in 0 .. 9 : neighMode[r][c] \in Seq(Int)
  <2>1. N + 1 = 9
    BY DEF N, TOT_PUS_LINE
  <2>2. neighMode \in [0 .. 9 -> [0 .. 9 -> Seq(Int)]]
    BY <2>1 DEF BuffersOK
  <2>3. QED BY <2>2
<1>3. DC_MODE \in Seq(Int)
  BY DEF DC_MODE
<1>4. cu.y + 1 \in 0 .. 9 /\ cu.x + 1 \in 0 .. 9 /\ cu.x \in 0 .. 9 /\ cu.y \in 0 .. 9
  BY <1>1
<1> DEFINE left == IF neighMode[cu.y + 1][cu.x] = INVALID_MODE THEN DC_MODE
                   ELSE neighMode[cu.y + 1][cu.x]
           above == IF neighMode[cu.y][cu.x + 1] = INVALID_MODE \/ cu.y = 0 THEN DC_MODE
                    ELSE neighMode[cu.y][cu.x + 1]
<1>5. left \in Seq(Int) /\ above \in Seq(Int)
  BY <1>2, <1>3, <1>4
<1>6. GetCandModeListIntra(cu.x, cu.y) = <<left, above>>
  BY DEF GetCandModeListIntra
<1> HIDE DEF left, above
<1>7. QED BY <1>5, <1>6

LEMMA TestModesOK == CTUInv /\ TestModes => CTUInv'
<1> SUFFICES ASSUME CTUInv, TestModes PROVE CTUInv'
  OBVIOUS
<1> USE DEF CTUInv
<1>1. /\ pc = "TestModes" /\ pc \in Searching /\ pc # "Done"
      /\ UNCHANGED <<ctu, tot4x4s, neighMode, infoL, rec, pic, frame, trials>>
  BY DEF TestModes, Searching
<1> DEFINE n == Len(stack)
<1>2. /\ stack \in Seq(Activation) /\ stack # <<>> /\ n \in Nat \ {0}
      /\ DOMAIN stack = 1 .. n /\ cu = stack[n] /\ cu \in Activation
  BY <1>1, StackFacts
<1>3. CheckNeighAvail(cu.x, cu.y, cu.size) \in Seq(BOOLEAN)
  BY DEF CheckNeighAvail
<1>4. GetCandModeListIntra(cu.x, cu.y) \in Seq(Seq(Int))
  BY <1>2, CandidatesOK
<1>5. PICK e : e = [cu EXCEPT !.valid = CheckNeighAvail(cu.x, cu.y, cu.size),
                              !.cand = GetCandModeListIntra(cu.x, cu.y)]
  OBVIOUS
<1>6. e \in Activation /\ SamePlace(e, cu) /\ e.part = cu.part
  BY <1>2, <1>3, <1>4, <1>5 DEF Activation, SamePlace
<1>7. cu.part = 0
  BY <1>1 DEF StackOK
<1>8. CASE cu.size > 1
  <2> DEFINE d == Part(cu, 0)
  <2>1. /\ stack' = WithCall(stack, e, d) /\ pc' = "TestModes"
    BY <1>1, <1>5, <1>8 DEF TestModes, WithCall, WithLast
  <2>2. d \in Activation /\ d.part = 0
    BY <1>1, <1>2, <1>8, StackFacts, PartInside, PartIs
  <2> HIDE DEF d
  <2>3. /\ stack' \in Seq(Activation) /\ Len(stack') = n + 1
        /\ \A k \in 1 .. n - 1 : stack'[k] = stack[k]
        /\ stack'[n] = e /\ stack'[n + 1] = d
    <3>1. \A c \in Activation :
            /\ WithCall(stack, e, c) \in Seq(Activation) /\ Len(WithCall(stack, e, c)) = n + 1
            /\ \A k \in 1 .. n - 1 : WithCall(stack, e, c)[k] = stack[k]
            /\ WithCall(stack, e, c)[n] = e /\ WithCall(stack, e, c)[n + 1] = c
      BY <1>2, <1>6, StackCall
    <3>2. QED BY <2>1, <2>2, <3>1
  <2>4. d = Part(cu, e.part)
    BY <1>6, <1>7 DEF d
  <2>5. StackOK'
    BY <1>1, <1>6, <1>8, <2>1, <2>3, <2>4, CallKeepsStack
  <2>6. SearchOK'
    BY <1>1, <1>6, <2>1, <2>2, <2>3, CallKeepsSearch
  <2>7. BuffersOK' /\ FrameOK' /\ CountersOK'
    BY <1>1, <2>1, BuffersSame, FrameSame, CountersSame
  <2>8. ChromaOK'
    BY <1>1, <2>1 DEF ChromaOK, CTUCoded
  <2>9. QED BY <2>5, <2>6, <2>7, <2>8
<1>9. CASE ~(cu.size > 1)
  <2>1. stack' = WithLast(stack, e) /\ pc' = "CodeCU"
    BY <1>1, <1>5, <1>9 DEF TestModes, WithLast
  <2>2. /\ stack' \in Seq(Activation) /\ Len(stack') = n
        /\ \A k \in 1 .. n - 1 : stack'[k] = stack[k]
        /\ stack'[n] = e
    BY <1>2, <1>6, <2>1, StackReplace
  <2>3. DOMAIN stack' = 1 .. n
    BY <2>2
  <2>4. \A k \in 1 .. n : SamePlace(stack'[k], stack[k]) /\ stack'[k].part = stack[k].part
    BY <1>2, <1>6, <2>2 DEF SamePlace
  <2>5. \A k \in 1 .. n : \A j : Part(stack'[k], j) = Part(stack[k], j)
    BY <2>4 DEF SamePlace, Part
  <2>6. StackOK'
    <3>1. SamePlace(stack'[1], NewCU(0, 0, N))
      BY <1>2, <2>4 DEF StackOK, SamePlace
    <3>2. ASSUME NEW k \in 1 .. n
          PROVE  /\ Aligned(stack'[k])
                 /\ k > 1 => /\ stack'[k - 1].size > 1
                             /\ SamePlace(stack'[k], Part(stack'[k - 1], stack'[k - 1].part))
                 /\ \A m \in 1 .. k : Inside(stack'[k], stack'[m])
      <4>1. Aligned(stack'[k])
        BY <1>2, <2>4 DEF StackOK, SamePlace, Aligned
      <4>2. ASSUME k > 1
            PROVE  /\ stack'[k - 1].size > 1
                   /\ SamePlace(stack'[k], Part(stack'[k - 1], stack'[k - 1].part))
        <5>1. k - 1 \in 1 .. n
          BY <1>2, <4>2
        <5>2. stack[k - 1].size > 1 /\ SamePlace(stack[k], Part(stack[k - 1], stack[k - 1].part))
          BY <1>2, <4>2 DEF StackOK
        <5>3. Part(stack'[k - 1], stack'[k - 1].part) = Part(stack[k - 1], stack[k - 1].part)
          BY <2>4, <2>5, <5>1
        <5>4. SamePlace(stack'[k], stack[k]) /\ SamePlace(stack'[k - 1], stack[k - 1])
          BY <2>4, <5>1
        <5>5. QED BY <5>2, <5>3, <5>4 DEF SamePlace
      <4>3. ASSUME NEW m \in 1 .. k PROVE Inside(stack'[k], stack'[m])
        <5>1. m \in 1 .. n
          BY <1>2
        <5>2. Inside(stack[k], stack[m])
          BY <1>2 DEF StackOK
        <5>3. QED BY <2>4, <5>1, <5>2 DEF SamePlace, Inside
      <4>4. QED BY <4>1, <4>2, <4>3
    <3>3. stack' # <<>> /\ pc' \in Searching /\ pc' # "PartDone" /\ pc' # "TestModes"
      BY <1>2, <2>1, <2>2 DEF Searching
    <3>4. QED
      BY <2>2, <2>3, <3>1, <3>2, <3>3 DEF StackOK, Aligned
  <2>7. SearchOK'
    <3> SUFFICES ASSUME NEW c \in Activation, Tried(c)' PROVE LumaDone(c)'
      BY DEF SearchOK
    <3>1. \E k \in 1 .. n : \E j \in 0 .. 3 :
            j < stack'[k].part /\ c = Part(stack'[k], j)
      BY <2>1, <2>3 DEF Tried, CTUCoded
    <3>2. Tried(c)
      BY <1>2, <2>4, <2>5, <3>1 DEF Tried
    <3>3. rec'["Y"] = rec["Y"] /\ pic'["Y"] = pic["Y"] /\ UNCHANGED <<ctu, infoL>>
      BY <1>1
    <3>4. QED BY <3>2, <3>3, LumaUnchanged DEF SearchOK
  <2>8. BuffersOK' /\ FrameOK' /\ CountersOK'
    BY <1>1, <2>1, BuffersSame, FrameSame, CountersSame DEF Searching
  <2>9. ChromaOK'
    BY <1>1, <2>1 DEF ChromaOK, CTUCoded
  <2>10. QED BY <2>6, <2>7, <2>8, <2>9
<1>10. QED BY <1>8, <1>9

LEMMA SplitIsBadOK == CTUInv /\ SplitIsBad => CTUInv'
<1> SUFFICES ASSUME CTUInv, SplitIsBad PROVE CTUInv'
  OBVIOUS
<1> USE DEF CTUInv
<1>1. /\ pc = "PartDone" /\ pc' = "CodeCU"
      /\ UNCHANGED <<ctu, stack, tot4x4s, neighMode, infoL, rec, pic, frame>>
  BY DEF SplitIsBad
<1>2. CountersOK'
  <2>1. trials' = trials \/ trials' = trials + 1
    BY DEF SplitIsBad
  <2>2. trials \in 0 .. MaxTrials /\ MaxTrials \in Nat
    BY CTUAssumption DEF CountersOK
  <2>3. trials' \in 0 .. MaxTrials
    BY <2>1, <2>2 DEF SplitIsBad
  <2>4. QED BY <1>1, <2>3 DEF CountersOK, Searching
<1>3. StackOK'
  BY <1>1 DEF StackOK, Searching
<1>4. SearchOK'
  <2> SUFFICES ASSUME NEW c \in Activation, Tried(c)' PROVE LumaDone(c)'
    BY DEF SearchOK
  <2>1. Tried(c)
    BY <1>1 DEF Tried, CTUCoded
  <2>2. rec'["Y"] = rec["Y"] /\ pic'["Y"] = pic["Y"] /\ UNCHANGED <<ctu, infoL>>
    BY <1>1
  <2>3. QED BY <2>1, <2>2, LumaUnchanged DEF SearchOK
<1>5. ChromaOK'
  BY <1>1 DEF ChromaOK, CTUCoded
<1>6. QED
  BY <1>1, <1>2, <1>3, <1>4, <1>5, BuffersSame, FrameSame

LEMMA NextPartOK == CTUInv /\ NextPart => CTUInv'
<1> SUFFICES ASSUME CTUInv, NextPart PROVE CTUInv'
  OBVIOUS
<1> USE DEF CTUInv
<1>1. /\ pc = "PartDone" /\ pc \in Searching /\ pc' = "TestModes" /\ cu.part < 3
      /\ UNCHANGED <<ctu, tot4x4s, neighMode, infoL, rec, pic, frame>>
  BY DEF NextPart, Searching
<1> DEFINE n == Len(stack)
<1>2. /\ stack \in Seq(Activation) /\ stack # <<>> /\ n \in Nat \ {0}
      /\ cu = stack[n] /\ cu \in Activation /\ Aligned(cu)
  BY <1>1, StackFacts
<1>3. cu.size > 1
  BY <1>1 DEF StackOK
<1>4. PICK e : e = [cu EXCEPT !.part = cu.part + 1]
  OBVIOUS
<1>5. e \in Activation /\ SamePlace(e, cu) /\ e.part = cu.part + 1
  <2>1. cu.part + 1 \in 0 .. 3
    BY <1>1, <1>2 DEF Activation
  <2>2. QED
    BY <1>2, <1>4, <2>1 DEF Activation, SamePlace
<1> DEFINE d == Part(cu, e.part)
<1>6. stack' = WithCall(stack, e, d)
  BY <1>4, <1>5 DEF NextPart, WithCall, WithLast
<1>7. e.part \in 0 .. 3
  BY <1>5 DEF Activation
<1>8. d \in Activation /\ d.part = 0
  BY <1>2, <1>3, <1>7, PartInside, PartIs
<1> HIDE DEF d
<1>9. /\ stack' \in Seq(Activation) /\ Len(stack') = n + 1
      /\ \A k \in 1 .. n - 1 : stack'[k] = stack[k]
      /\ stack'[n] = e /\ stack'[n + 1] = d
  <2>1. \A c \in Activation :
          /\ WithCall(stack, e, c) \in Seq(Activation) /\ Len(WithCall(stack, e, c)) = n + 1
          /\ \A k \in 1 .. n - 1 : WithCall(stack, e, c)[k] = stack[k]
          /\ WithCall(stack, e, c)[n] = e /\ WithCall(stack, e, c)[n + 1] = c
    BY <1>2, <1>5, StackCall
  <2>2. QED BY <1>6, <1>8, <2>1
<1>10. StackOK'
  BY <1>1, <1>3, <1>5, <1>9, CallKeepsStack DEF d
<1>11. SearchOK'
  BY <1>1, <1>5, <1>8, <1>9, CallKeepsSearch
<1>12. CountersOK'
  <2>1. trials' = trials \/ trials' = trials + 1
    BY DEF NextPart
  <2>2. trials \in 0 .. MaxTrials /\ MaxTrials \in Nat
    BY CTUAssumption DEF CountersOK
  <2>3. trials' \in 0 .. MaxTrials
    BY <2>1, <2>2 DEF NextPart
  <2>4. QED BY <1>1, <2>3 DEF CountersOK, Searching
<1>13. ChromaOK'
  BY <1>1 DEF ChromaOK, CTUCoded
<1>14. QED
  BY <1>1, <1>10, <1>11, <1>12, <1>13, BuffersSame, FrameSame

LEMMA SplitIsGoodOK == CTUInv /\ SplitIsGood => CTUInv'
<1> SUFFICES ASSUME CTUInv, SplitIsGood PROVE CTUInv'
  OBVIOUS
<1> USE DEF CTUInv
<1>1. /\ pc = "PartDone" /\ pc \in Searching /\ cu.part = 3 /\ stack' = Front(stack)
      /\ pc' = (IF Len(stack) = 1 THEN "CompressChromaCU" ELSE "PartDone")
      /\ UNCHANGED <<ctu, tot4x4s, neighMode, infoL, rec, pic, frame, trials>>
  BY DEF SplitIsGood, Searching
<1>2. pc' \in {"CompressChromaCU", "PartDone"}
  BY <1>1
<1> DEFINE n == Len(stack)
<1>3. n \in Nat \ {0} /\ DOMAIN stack = 1 .. n /\ cu = stack[n] /\ cu \in Activation
      /\ Aligned(cu)
  BY <1>1, StackFacts
<1>4. cu.size > 1
  BY <1>1 DEF StackOK
<1>5. StackOK'
  BY <1>1, ReturnKeepsStack
<1>6. \A c : LumaDone(c) => LumaDone(c)'
  BY <1>1, LumaUnchanged
<1>7. PICK d \in Activation : d = cu
  BY <1>3
<1>8. \A j \in 0 .. 3 : LumaDone(Part(d, j))
  <2> SUFFICES ASSUME NEW j \in 0 .. 3 PROVE LumaDone(Part(d, j))
    OBVIOUS
  <2>1. Part(d, j) \in Activation
    BY <1>3, <1>4, <1>7, PartInside
  <2>2. Tried(Part(d, j))
    BY <1>1, <1>3, <1>7 DEF Tried
  <2>3. QED BY <2>1, <2>2 DEF SearchOK
<1>9. LumaDone(d)
  BY <1>3, <1>4, <1>7, <1>8, JoinParts
<1>10. \A k \in 1 .. n - 1 : \A j \in 0 .. 3 : \A c \in Activation :
         j < stack[k].part /\ c = Part(stack[k], j) => LumaDone(c)
  BY <1>3 DEF SearchOK, Tried
<1>11. SearchOK'
  BY <1>1, <1>6, <1>7, <1>9, <1>10, ReturnKeepsSearch
<1>12. ChromaOK'
  BY <1>1, <1>2, <1>11, ChromaStarts DEF Searching
<1>13. CountersOK' /\ FrameOK' /\ BuffersOK'
  BY <1>1, <1>2, CountersSame, FrameSame, BuffersSame DEF Searching
<1>14. QED
  BY <1>5, <1>11, <1>12, <1>13

LEMMA EncodeCTUOK == CTUInv /\ EncodeCTU => CTUInv'
<1> SUFFICES ASSUME CTUInv, EncodeCTU PROVE CTUInv'
  OBVIOUS
<1> USE DEF CTUInv
<1>1. /\ pc = "EncodeCTU" /\ pc' = "UpdateBuffers"
      /\ UNCHANGED <<ctu, stack, tot4x4s, neighMode, infoL, rec, pic, frame, trials>>
  BY DEF EncodeCTU
<1>2. StackOK'
  BY <1>1 DEF StackOK, Searching
<1>3. SearchOK'
  <2> SUFFICES ASSUME NEW c \in Activation, Tried(c)' PROVE LumaDone(c)'
    BY DEF SearchOK
  <2>1. Tried(c)
    BY <1>1 DEF Tried, CTUCoded
  <2>2. rec'["Y"] = rec["Y"] /\ pic'["Y"] = pic["Y"] /\ UNCHANGED <<ctu, infoL>>
    BY <1>1
  <2>3. QED BY <2>1, <2>2, LumaUnchanged DEF SearchOK
<1>4. ChromaOK'
  <2>1. ChromaDone(N * N)
    BY <1>1 DEF ChromaOK, CTUCoded
  <2>2. ChromaDone(N * N)'
    BY <1>1, <2>1 DEF ChromaDone, Kept, OffsetX, OffsetY, cx, cy
  <2>3. QED BY <1>1, <2>2 DEF ChromaOK
<1>5. QED
  BY <1>1, <1>2, <1>3, <1>4, BuffersSame, FrameSame, CountersSame DEF CTUCoded

(* What a block of the CTU's PUs covers of the decoder's picture. *)
LEMMA PictureCell ==
  ASSUME CountersOK, NEW x \in PUs, NEW y \in PUs
  PROVE  OffsetX + x \in 0 .. Width - 1 /\ OffsetY + y \in 0 .. Height - 1
<1>1. x \in 0 .. 7 /\ y \in 0 .. 7
  BY DEF PUs, N, TOT_PUS_LINE
<1>2. QED
  BY <1>1, Offsets, CTUAssumption

LEMMA CodeCUOK == CTUInv /\ CodeCU => CTUInv'
<1> SUFFICES ASSUME CTUInv, CodeCU PROVE CTUInv'
  OBVIOUS
<1> USE DEF CTUInv
<1>1. /\ pc = "CodeCU" /\ pc \in Searching /\ stack' = Front(stack)
      /\ pc' = (IF Len(stack) = 1 THEN "CompressChromaCU" ELSE "PartDone")
      /\ UNCHANGED <<ctu, tot4x4s, frame, trials>>
  BY DEF CodeCU, Searching
<1>2. pc' \in {"CompressChromaCU", "PartDone"}
  BY <1>1
<1> DEFINE n == Len(stack)
<1>3. n \in Nat \ {0} /\ DOMAIN stack = 1 .. n /\ cu = stack[n] /\ cu \in Activation
      /\ Aligned(cu)
  BY <1>1, StackFacts
<1>4. PICK d \in Activation : d = cu
  BY <1>3
<1>5. d.x \in 0 .. 7 /\ d.y \in 0 .. 7 /\ d.size \in {1, 2, 4, 8}
  BY DEF Activation, PUs, Sizes, N, TOT_PUS_LINE
<1>6. OffsetX \in Nat /\ OffsetY \in Nat
  BY Offsets
<1>7. OffsetX' = OffsetX /\ OffsetY' = OffsetY /\ Width' = Width /\ Height' = Height
  BY <1>1 DEF OffsetX, OffsetY, cx, cy, Width, Height
<1>8. PICK tag : tag = <<OffsetX + d.x, OffsetY + d.y, d.size>>
  OBVIOUS
<1>9. tag \in Seq(Int) /\ tag[1] = OffsetX + d.x /\ tag[2] = OffsetY + d.y /\ tag[3] = d.size
  BY <1>5, <1>6, <1>8
<1>10. /\ rec' = [rec EXCEPT !["Y"] = Fill(rec["Y"], d.x, d.y, d.size, tag)]
       /\ infoL' = Fill(infoL, d.x + 1, d.y + 1, d.size, [cu |-> tag, valid |-> d.valid])
       /\ neighMode' = Fill(neighMode, d.x + 1, d.y + 1, d.size, tag)
       /\ pic' = [pic EXCEPT !["Y"] = Fill(pic["Y"], OffsetX + d.x, OffsetY + d.y, d.size, tag)]
  BY <1>4, <1>8, <1>9 DEF CodeCU, Tag
<1>11. "Y" \in Planes
  BY DEF Planes
<1>12. /\ Grid(rec'["Y"], PUs, -1 .. N - 1)
       /\ \A y \in PUs : \A x \in -1 .. N - 1 :
            rec'["Y"][y][x] = IF InBlock(y, d.y, d.size) /\ InBlock(x, d.x, d.size)
                                THEN tag ELSE rec["Y"][y][x]
  <2>1. rec'["Y"] = Fill(rec["Y"], d.x, d.y, d.size, tag)
    BY <1>10, <1>11 DEF BuffersOK
  <2>2. Grid(rec["Y"], PUs, -1 .. N - 1)
    BY <1>11 DEF BuffersOK
  <2> DEFINE filled == Fill(rec["Y"], d.x, d.y, d.size, tag)
  <2>3. Grid(filled, PUs, -1 .. N - 1)
    BY <2>2, FillIs
  <2>4. \A y \in PUs : \A x \in -1 .. N - 1 :
          filled[y][x] = IF InBlock(y, d.y, d.size) /\ InBlock(x, d.x, d.size)
                           THEN tag ELSE rec["Y"][y][x]
    BY <2>2 DEF Grid, Fill
  <2>5. rec'["Y"] = filled
    BY <2>1
  <2> HIDE DEF filled
  <2>6. QED BY <2>3, <2>4, <2>5
<1>13. /\ Grid(pic'["Y"], 0 .. Height - 1, 0 .. Width - 1)
       /\ \A r \in 0 .. Height - 1 : \A c \in 0 .. Width - 1 :
            pic'["Y"][r][c] =
              IF InBlock(r, OffsetY + d.y, d.size) /\ InBlock(c, OffsetX + d.x, d.size)
                THEN tag ELSE pic["Y"][r][c]
  <2>1. pic'["Y"] = Fill(pic["Y"], OffsetX + d.x, OffsetY + d.y, d.size, tag)
    BY <1>10, <1>11 DEF BuffersOK
  <2>2. Grid(pic["Y"], 0 .. Height - 1, 0 .. Width - 1)
    BY <1>11 DEF BuffersOK
  <2> DEFINE filled == Fill(pic["Y"], OffsetX + d.x, OffsetY + d.y, d.size, tag)
  <2>3. Grid(filled, 0 .. Height - 1, 0 .. Width - 1)
    BY <2>2, FillIs
  <2>4. \A r \in 0 .. Height - 1 : \A c \in 0 .. Width - 1 :
          filled[r][c] =
            IF InBlock(r, OffsetY + d.y, d.size) /\ InBlock(c, OffsetX + d.x, d.size)
              THEN tag ELSE pic["Y"][r][c]
    BY <2>2 DEF Grid, Fill
  <2>5. pic'["Y"] = filled
    BY <2>1
  <2> HIDE DEF filled
  <2>6. QED BY <2>3, <2>4, <2>5
<1>14. /\ Grid(infoL', 0 .. N, 0 .. N)
       /\ \A r \in 0 .. N : \A c \in 0 .. N :
            infoL'[r][c] = IF InBlock(r, d.y + 1, d.size) /\ InBlock(c, d.x + 1, d.size)
                             THEN [cu |-> tag, valid |-> d.valid] ELSE infoL[r][c]
  <2>1. Grid(infoL, 0 .. N, 0 .. N)
    BY DEF BuffersOK
  <2>2. QED BY <1>10, <2>1 DEF Grid, Fill
<1>15. /\ rec'["C"] = rec["C"] /\ pic'["C"] = pic["C"]
       /\ DOMAIN rec' = Planes /\ DOMAIN pic' = Planes
  BY <1>10 DEF BuffersOK, Planes
<1>16. BuffersOK'
  <2>1. neighMode' \in [0 .. N + 1 -> [0 .. N + 1 -> Seq(Int)]]
    <3>1. neighMode \in [0 .. N + 1 -> [0 .. N + 1 -> Seq(Int)]]
      BY DEF BuffersOK
    <3>2. neighMode' = [r \in 0 .. N + 1 |-> [c \in 0 .. N + 1 |->
                          IF InBlock(r, d.y + 1, d.size) /\ InBlock(c, d.x + 1, d.size)
                            THEN tag ELSE neighMode[r][c]]]
      BY <1>10, <3>1 DEF Fill
    <3>3. QED BY <1>9, <3>1, <3>2
  <2>2. \A p \in Planes : p = "Y" \/ p = "C"
    BY DEF Planes
  <2>3. ASSUME NEW p \in Planes
        PROVE  /\ Grid(rec'[p], PUs, -1 .. N - 1)
               /\ Grid(pic'[p], 0 .. Height - 1, 0 .. Width - 1)
               /\ Grid(frame'[p], 0 .. Height - 1, 0 .. Width - 1)
    <3>1. CASE p = "Y"
      BY <1>1, <1>12, <1>13, <3>1 DEF BuffersOK
    <3>2. CASE p = "C"
      BY <1>1, <1>15, <3>2 DEF BuffersOK
    <3>3. QED BY <2>2, <3>1, <3>2
  <2>4. DOMAIN frame' = Planes
    BY <1>1 DEF BuffersOK
  <2>5. QED BY <1>7, <1>14, <1>15, <2>1, <2>3, <2>4 DEF BuffersOK
<1>17. ASSUME NEW x \in PUs, NEW y \in PUs
       PROVE  /\ rec'["Y"][y][x] = IF InSquare(x, y, d) THEN tag ELSE rec["Y"][y][x]
              /\ pic'["Y"][OffsetY + y][OffsetX + x] =
                   IF InSquare(x, y, d) THEN tag ELSE pic["Y"][OffsetY + y][OffsetX + x]
              /\ SizeAt(x, y)' = IF InSquare(x, y, d) THEN d.size ELSE SizeAt(x, y)
  <2>1. x \in 0 .. 7 /\ y \in 0 .. 7 /\ x \in -1 .. N - 1
    BY DEF PUs, N, TOT_PUS_LINE
  <2>2. OffsetX + x \in 0 .. Width - 1 /\ OffsetY + y \in 0 .. Height - 1
    BY PictureCell
  <2>3. /\ InBlock(OffsetX + x, OffsetX + d.x, d.size) <=> InBlock(x, d.x, d.size)
        /\ InBlock(OffsetY + y, OffsetY + d.y, d.size) <=> InBlock(y, d.y, d.size)
        /\ InBlock(x + 1, d.x + 1, d.size) <=> InBlock(x, d.x, d.size)
        /\ InBlock(y + 1, d.y + 1, d.size) <=> InBlock(y, d.y, d.size)
    BY <1>5, <1>6, <2>1 DEF InBlock
  <2>4. x + 1 \in 0 .. N /\ y + 1 \in 0 .. N
    BY <2>1 DEF N, TOT_PUS_LINE
  <2>5. rec'["Y"][y][x] = IF InSquare(x, y, d) THEN tag ELSE rec["Y"][y][x]
    BY <1>12, <2>1 DEF InSquare
  <2>6. pic'["Y"][OffsetY + y][OffsetX + x] =
          IF InSquare(x, y, d) THEN tag ELSE pic["Y"][OffsetY + y][OffsetX + x]
    BY <1>13, <2>2, <2>3 DEF InSquare
  <2>7. infoL'[y + 1][x + 1] = IF InSquare(x, y, d) THEN [cu |-> tag, valid |-> d.valid]
                               ELSE infoL[y + 1][x + 1]
    BY <1>14, <2>3, <2>4 DEF InSquare
  <2>8. SizeAt(x, y)' = IF InSquare(x, y, d) THEN d.size ELSE SizeAt(x, y)
    BY <1>9, <2>7 DEF SizeAt
  <2>9. QED BY <2>5, <2>6, <2>8
<1>18. \A x, y \in PUs :
         /\ Kept("Y", x, y) \/ InSquare(x, y, d) => Kept("Y", x, y)'
         /\ SizeAt(x, y)' = IF InSquare(x, y, d) THEN d.size ELSE SizeAt(x, y)
         /\ ~InSquare(x, y, d) => ChromaSize(x, y)' = ChromaSize(x, y)
  BY <1>7, <1>17 DEF Kept, ChromaSize
<1>19. LumaDone(d)'
  <2>1. d.size \in Sizes /\ d.size <= d.size
    BY <1>5 DEF Sizes
  <2>2. QED BY <1>18, <2>1 DEF LumaDone
<1>20. ASSUME NEW c \in Activation, LumaDone(c),
              \A x, y \in PUs : ~(InSquare(x, y, c) /\ InSquare(x, y, d))
       PROVE  LumaDone(c)'
  BY <1>18, <1>20 DEF LumaDone
<1>21. ASSUME NEW k \in 1 .. n - 1, NEW j \in 0 .. 3, NEW c \in Activation,
              j < stack[k].part, c = Part(stack[k], j)
       PROVE  LumaDone(c)'
  <2>1. LumaDone(c)
    BY <1>3, <1>21 DEF SearchOK, Tried
  <2>2. k \in DOMAIN stack /\ k + 1 \in DOMAIN stack /\ n \in DOMAIN stack /\ k + 1 \in 1 .. n
    BY <1>3
  <2> DEFINE up == stack[k]
             next == Part(up, up.part)
  <2>3. up \in Activation /\ up.part \in 0 .. 3 /\ stack[k + 1] \in Activation
    <3>1. \A m \in DOMAIN stack : stack[m] \in Activation
      BY <1>1, StackFacts
    <3>2. \A z \in Activation : z.part \in 0 .. 3
      BY DEF Activation
    <3>3. QED BY <2>2, <3>1, <3>2
  <2>4. /\ up.size > 1 /\ Aligned(up) /\ SamePlace(stack[k + 1], next)
        /\ Inside(stack[n], stack[k + 1])
    <3>1. \A m \in DOMAIN stack : m > 1 =>
            /\ stack[m - 1].size > 1
            /\ SamePlace(stack[m], Part(stack[m - 1], stack[m - 1].part))
      BY DEF StackOK
    <3>2. k + 1 > 1 /\ (k + 1) - 1 = k
      OBVIOUS
    <3>3. up.size > 1 /\ SamePlace(stack[k + 1], next)
      BY <2>2, <3>1, <3>2
    <3>4. Aligned(up) /\ Inside(stack[n], stack[k + 1])
      BY <2>2 DEF StackOK, Aligned
    <3>5. QED BY <3>3, <3>4
  <2>5. Inside(d, stack[k + 1])
    BY <1>3, <1>4, <2>4
  <2>6. ASSUME NEW x \in PUs, NEW y \in PUs, InSquare(x, y, c), InSquare(x, y, d)
        PROVE  FALSE
    <3>1. InSquare(x, y, stack[k + 1])
      BY <2>3, <2>5, <2>6, InsideSquare
    <3>2. InSquare(x, y, next)
      BY <2>4, <3>1 DEF SamePlace, InSquare
    <3>3. j # up.part
      BY <1>21, <2>3
    <3>4. QED
      BY <1>21, <2>3, <2>4, <2>6, <3>2, <3>3, PartsDisjoint
  <2>7. QED BY <1>20, <2>1, <2>6
<1>22. StackOK'
  BY <1>1, ReturnKeepsStack
<1>23. SearchOK'
  BY <1>1, <1>4, <1>19, <1>21, ReturnKeepsSearch
<1>24. ChromaOK'
  BY <1>1, <1>2, <1>23, ChromaStarts DEF Searching
<1>25. FrameOK'
  <2>1. pc # "Done" /\ pc' # "Done"
    BY <1>1, <1>2
  <2> SUFFICES ASSUME NEW p \in Planes, NEW r \in 0 .. Height - 1, NEW c \in 0 .. Width - 1
               PROVE  frame'[p][r][c] = IF CTUOf(r, c) < ctu THEN pic'[p][r][c] ELSE Source
    BY <1>1, <1>7, <2>1 DEF FrameOK, CTUOf
  <2>2. frame'[p][r][c] = IF CTUOf(r, c) < ctu THEN pic[p][r][c] ELSE Source
    BY <1>1, <2>1 DEF FrameOK
  <2>3. ASSUME CTUOf(r, c) < ctu PROVE pic'[p][r][c] = pic[p][r][c]
    <3>1. ~Replaced(r, c)
      BY <2>3, CTUOfSample DEF CountersOK
    <3>2. ~(InBlock(r, OffsetY + d.y, d.size) /\ InBlock(c, OffsetX + d.x, d.size))
      <4>1. d.x + d.size <= 8 /\ d.y + d.size <= 8
        BY <1>3, <1>4, <1>5 DEF Aligned
      <4>2. QED
        BY <1>5, <1>6, <3>1, <4>1 DEF Replaced, InBlock, N, TOT_PUS_LINE
    <3>3. p = "Y" \/ p = "C"
      BY DEF Planes
    <3>4. QED
      BY <1>13, <1>15, <3>2, <3>3
  <2>4. QED BY <2>2, <2>3
<1>26. CountersOK'
  BY <1>1, <1>2, CountersSame DEF Searching
<1>27. QED
  BY <1>16, <1>22, <1>23, <1>24, <1>25, <1>26

(* The blocks counted from an aligned count on are those of one square.    *)
LEMMA DispSquare ==
  ASSUME NEW t \in 0 .. 63, NEW s \in {2, 4, 8}, t % (s * s) = 0
  PROVE  /\ t + s * s \in 1 .. 64
         /\ \A u \in t .. t + s * s - 1 :
              InBlock(Column(u), Column(t), s) /\ InBlock(Row(u), Row(t), s)
<1>1. \A v \in 0 .. 63 :
         /\ Column(v) = (v % 2) + 2 * ((v \div 4) % 2) + 4 * ((v \div 16) % 2)
         /\ Row(v) = ((v \div 2) % 2) + 2 * ((v \div 8) % 2) + 4 * ((v \div 32) % 2)
  BY Disp
<1>2. CASE s = 2
  BY <1>1, <1>2 DEF InBlock
<1>3. CASE s = 4
  BY <1>1, <1>3 DEF InBlock
<1>4. CASE s = 8
  <2>1. t = 0
    BY <1>4
  <2>2. QED BY <1>1, <1>4, <2>1 DEF InBlock
<1>5. QED BY <1>2, <1>3, <1>4

(* A block that does not start a square of size z shares the square with    *)
(* the smaller block that ends before it.                                  *)
LEMMA DispNext ==
  ASSUME NEW t \in 0 .. 63, NEW s \in {2, 4, 8}, t % (s * s) = 0,
         NEW z \in {2, 4, 8}, (t + s * s) % (z * z) # 0
  PROVE  z # s /\ t \div (z * z) = (t + s * s) \div (z * z)
<1>1. CASE s = 2
  BY <1>1
<1>2. CASE s = 4
  BY <1>2
<1>3. CASE s = 8
  BY <1>3
<1>4. QED BY <1>1, <1>2, <1>3

LEMMA CompressChromaCUOK == CTUInv /\ CompressChromaCU => CTUInv'
<1> SUFFICES ASSUME CTUInv, CompressChromaCU PROVE CTUInv'
  OBVIOUS
<1> USE DEF CTUInv
<1> DEFINE x == GetDispFrom4x4s(tot4x4s)[1]
           y == GetDispFrom4x4s(tot4x4s)[2]
           sizeL == infoL[y + 1][x + 1].cu[3]
           s == IF sizeL = 1 THEN 2 ELSE sizeL
           mode == neighMode[y + 1][x + 1]
           next == tot4x4s + s * s
<1>0. x = Column(tot4x4s) /\ y = Row(tot4x4s) /\ s = ChromaSize(x, y)
  BY DEF Column, Row, ChromaSize, SizeAt
<1>1. /\ pc = "CompressChromaCU" /\ tot4x4s \in 0 .. 63
      /\ UNCHANGED <<ctu, stack, neighMode, infoL, frame, trials>>
  <2>1. /\ pc = "CompressChromaCU"
        /\ UNCHANGED <<ctu, stack, neighMode, infoL, topInfoL, tempPred, syntax, frame, trials>>
    BY Zenon DEF CompressChromaCU
  <2>2. tot4x4s \in 0 .. 63
    BY DEF ChromaOK, N, TOT_PUS_LINE
  <2>3. QED BY <2>1, <2>2
<1>2. /\ rec' = [rec EXCEPT !["C"] = Fill(rec["C"], x, y, s, mode)]
      /\ pic' = [pic EXCEPT !["C"] = Fill(pic["C"], OffsetX + x, OffsetY + y, s, mode)]
  BY Zenon DEF CompressChromaCU
<1>3. IF next < 64 THEN tot4x4s' = next /\ pc' = pc ELSE tot4x4s' = 0 /\ pc' = "EncodeCTU"
  <2>1. IF next < N * N THEN tot4x4s' = next /\ UNCHANGED <<pc, refTop, savedLT>>
                        ELSE tot4x4s' = 0 /\ FinishCTU /\ pc' = "EncodeCTU"
    BY Zenon DEF CompressChromaCU
  <2>2. N * N = 64
    BY DEF N, TOT_PUS_LINE
  <2> HIDE DEF next
  <2>3. QED BY <2>1, <2>2
<1>4. tot4x4s % (s * s) = 0 /\ ChromaDone(tot4x4s)
  BY <1>0, <1>1 DEF ChromaOK
<1> DEFINE top == NewCU(0, 0, N)
<1>5. /\ top \in Activation /\ LumaDone(top)
      /\ \A a, b \in PUs : InSquare(a, b, top)
  <2>1. top \in Activation
    BY DEF NewCU, Activation, PUs, N, TOT_PUS_LINE, Sizes
  <2>2. LumaDone(top)
    BY <1>1, <2>1 DEF SearchOK, Tried
  <2>3. \A a, b \in PUs : InSquare(a, b, top)
    BY DEF InSquare, InBlock, NewCU, PUs, N, TOT_PUS_LINE
  <2>4. QED BY <2>1, <2>2, <2>3
<1>6. \A a, b \in PUs :
        /\ SizeAt(a, b) \in Sizes /\ ChromaSize(a, b) \in {2, 4, 8}
        /\ \A u, v \in PUs : SameBlock(a, b, u, v, ChromaSize(a, b))
             => SizeAt(u, v) = SizeAt(a, b) /\ ChromaSize(u, v) = ChromaSize(a, b)
  BY <1>5 DEF LumaDone, ChromaSize, Sizes
<1>7. x \in PUs /\ y \in PUs
  BY <1>0, <1>1, Disp
<1>8. s \in {2, 4, 8}
  BY <1>0, <1>6, <1>7
<1>9. next \in 1 .. 64
  BY <1>0, <1>1, <1>4, <1>8, DispSquare
<1>10. OffsetX \in Nat /\ OffsetY \in Nat
  BY Offsets
<1>11. OffsetX' = OffsetX /\ OffsetY' = OffsetY /\ Width' = Width /\ Height' = Height
  BY <1>1 DEF OffsetX, OffsetY, cx, cy, Width, Height
<1>12. /\ rec'["Y"] = rec["Y"] /\ pic'["Y"] = pic["Y"]
       /\ DOMAIN rec' = Planes /\ DOMAIN pic' = Planes
       /\ rec'["C"] = Fill(rec["C"], x, y, s, mode)
       /\ pic'["C"] = Fill(pic["C"], OffsetX + x, OffsetY + y, s, mode)
  BY <1>2 DEF BuffersOK, Planes
<1>13. Grid(rec["C"], PUs, -1 .. N - 1) /\ Grid(pic["C"], 0 .. Height - 1, 0 .. Width - 1)
  BY DEF BuffersOK, Planes
<1> HIDE DEF s, mode, x, y
<1>14. Grid(rec'["C"], PUs, -1 .. N - 1) /\ Grid(pic'["C"], 0 .. Height - 1, 0 .. Width - 1)
  <2>1. Grid(Fill(rec["C"], x, y, s, mode), PUs, -1 .. N - 1)
    BY <1>13, FillIs
  <2>2. Grid(Fill(pic["C"], OffsetX + x, OffsetY + y, s, mode), 0 .. Height - 1, 0 .. Width - 1)
    BY <1>13, FillIs
  <2>3. QED BY <1>12, <2>1, <2>2
<1>15. \A b \in PUs : \A a \in -1 .. N - 1 :
         rec'["C"][b][a] = IF InBlock(b, y, s) /\ InBlock(a, x, s) THEN mode ELSE rec["C"][b][a]
  <2>1. \A b \in PUs : \A a \in -1 .. N - 1 :
          Fill(rec["C"], x, y, s, mode)[b][a] =
            IF InBlock(b, y, s) /\ InBlock(a, x, s) THEN mode ELSE rec["C"][b][a]
    BY <1>13 DEF Grid, Fill
  <2>2. QED BY <1>12, <2>1
<1>16. \A r \in 0 .. Height - 1 : \A c \in 0 .. Width - 1 :
         pic'["C"][r][c] =
           IF InBlock(r, OffsetY + y, s) /\ InBlock(c, OffsetX + x, s) THEN mode
           ELSE pic["C"][r][c]
  <2>1. \A r \in 0 .. Height - 1 : \A c \in 0 .. Width - 1 :
          Fill(pic["C"], OffsetX + x, OffsetY + y, s, mode)[r][c] =
            IF InBlock(r, OffsetY + y, s) /\ InBlock(c, OffsetX + x, s) THEN mode
            ELSE pic["C"][r][c]
    BY <1>13 DEF Grid, Fill
  <2>2. QED BY <1>12, <2>1
<1>17. BuffersOK'
  <2>1. \A p \in Planes : p = "Y" \/ p = "C"
    BY DEF Planes
  <2>2. ASSUME NEW p \in Planes
        PROVE  /\ Grid(rec'[p], PUs, -1 .. N - 1)
               /\ Grid(pic'[p], 0 .. Height - 1, 0 .. Width - 1)
               /\ Grid(frame'[p], 0 .. Height - 1, 0 .. Width - 1)
    <3>1. CASE p = "Y"
      BY <1>1, <1>12, <3>1 DEF BuffersOK
    <3>2. CASE p = "C"
      BY <1>1, <1>14, <3>2 DEF BuffersOK
    <3>3. QED BY <2>1, <3>1, <3>2
  <2>3. neighMode' \in [0 .. N + 1 -> [0 .. N + 1 -> Seq(Int)]] /\ DOMAIN frame' = Planes
        /\ Grid(infoL', 0 .. N, 0 .. N)
    BY <1>1 DEF BuffersOK
  <2>4. QED BY <1>11, <1>12, <2>2, <2>3 DEF BuffersOK
<1>18. \A a, b \in PUs :
         Kept("C", a, b) \/ (InBlock(b, y, s) /\ InBlock(a, x, s)) => Kept("C", a, b)'
  <2> SUFFICES ASSUME NEW a \in PUs, NEW b \in PUs,
                      Kept("C", a, b) \/ (InBlock(b, y, s) /\ InBlock(a, x, s))
               PROVE  rec'["C"][b][a] = pic'["C"][OffsetY + b][OffsetX + a]
    BY <1>11 DEF Kept
  <2>1. OffsetX + a \in 0 .. Width - 1 /\ OffsetY + b \in 0 .. Height - 1
    BY PictureCell
  <2>2. a \in 0 .. 7 /\ b \in 0 .. 7 /\ x \in 0 .. 7 /\ y \in 0 .. 7 /\ a \in -1 .. N - 1
    BY <1>7 DEF PUs, N, TOT_PUS_LINE
  <2>3. /\ InBlock(OffsetX + a, OffsetX + x, s) <=> InBlock(a, x, s)
        /\ InBlock(OffsetY + b, OffsetY + y, s) <=> InBlock(b, y, s)
    BY <1>8, <1>10, <2>2 DEF InBlock
  <2>4. QED
    BY <1>15, <1>16, <2>1, <2>2, <2>3 DEF Kept
<1>19. ASSUME NEW t \in 0 .. next - 1
       PROVE  Kept("C", Column(t), Row(t))'
  <2>1. t \in 0 .. 63 /\ Column(t) \in PUs /\ Row(t) \in PUs
    BY <1>9, Disp
  <2>2. CASE t < tot4x4s
    <3>1. Kept("C", Column(t), Row(t))
      BY <1>1, <1>4, <2>1, <2>2 DEF ChromaDone
    <3>2. QED BY <1>18, <2>1, <3>1
  <2>3. CASE ~(t < tot4x4s)
    <3>1. t \in tot4x4s .. tot4x4s + s * s - 1
      <4>1. s * s \in Nat /\ tot4x4s \in Nat /\ t \in Nat /\ t <= next - 1 /\ t >= tot4x4s
        BY <1>1, <1>8, <1>9, <2>1, <2>3
      <4>2. QED BY <4>1
    <3>2. InBlock(Column(t), x, s) /\ InBlock(Row(t), y, s)
      <4>1. \A u \in tot4x4s .. tot4x4s + s * s - 1 :
              /\ InBlock(Column(u), Column(tot4x4s), s)
              /\ InBlock(Row(u), Row(tot4x4s), s)
        BY <1>1, <1>4, <1>8, DispSquare
      <4>2. QED BY <1>0, <3>1, <4>1
    <3>3. QED BY <1>18, <2>1, <3>2
  <2>4. QED BY <2>2, <2>3
<1>20. ChromaOK'
  <2>1. CASE next < 64
    <3> DEFINE u == Column(next)
               v == Row(next)
               z == ChromaSize(u, v)
    <3>1. tot4x4s' = next /\ pc' = "CompressChromaCU"
      BY <1>1, <1>3, <2>1
    <3>2. next \in 0 .. 63 /\ u \in PUs /\ v \in PUs
      BY <1>9, <2>1, Disp
    <3>3. z \in {2, 4, 8}
      BY <1>6, <3>2
    <3>4. next % (z * z) = 0
      <4> SUFFICES ASSUME next % (z * z) # 0 PROVE FALSE
        OBVIOUS
      <4>1. z # s /\ tot4x4s \div (z * z) = next \div (z * z)
        BY <1>1, <1>4, <1>8, <3>3, DispNext
      <4>2. SameBlock(x, y, u, v, z)
        BY <1>0, <1>1, <3>2, <3>3, <4>1, DispGroup
      <4>3. SameBlock(u, v, x, y, z)
        BY <4>2 DEF SameBlock
      <4>4. ChromaSize(x, y) = z
        BY <1>6, <1>7, <3>2, <4>3
      <4>5. QED BY <1>0, <4>1, <4>4
    <3>5. \A a, b : ChromaSize(a, b)' = ChromaSize(a, b)
      BY <1>1 DEF ChromaSize, SizeAt
    <3>6. ChromaDone(tot4x4s)'
      BY <1>19, <3>1 DEF ChromaDone
    <3>7. LET w == ChromaSize(Column(tot4x4s), Row(tot4x4s))
          IN  (tot4x4s % (w * w) = 0)'
      BY <1>1, <3>1, <3>4 DEF ChromaSize, SizeAt
    <3>8. QED
      BY <3>1, <3>2, <3>6, <3>7 DEF ChromaOK, CTUCoded, N, TOT_PUS_LINE
  <2>2. CASE ~(next < 64)
    <3>1. next = 64 /\ tot4x4s' = 0 /\ pc' = "EncodeCTU"
      BY <1>3, <1>9, <2>2
    <3>2. ChromaDone(64)'
      BY <1>19, <3>1 DEF ChromaDone
    <3>3. N * N = 64
      BY DEF N, TOT_PUS_LINE
    <3>4. QED BY <3>1, <3>2, <3>3 DEF ChromaOK
  <2>3. QED BY <2>1, <2>2
<1>21. pc' \in {"CompressChromaCU", "EncodeCTU"}
  BY <1>1, <1>3
<1>22. StackOK'
  BY <1>1, <1>21 DEF StackOK, Searching
<1>23. SearchOK'
  <2> SUFFICES ASSUME NEW c \in Activation, Tried(c)' PROVE LumaDone(c)'
    BY DEF SearchOK
  <2>1. Tried(c)
    BY <1>1, <1>21 DEF Tried, CTUCoded
  <2>2. QED BY <1>1, <1>12, <2>1, LumaUnchanged DEF SearchOK
<1>24. FrameOK'
  <2>1. pc # "Done" /\ pc' # "Done"
    BY <1>1, <1>21
  <2> SUFFICES ASSUME NEW p \in Planes, NEW r \in 0 .. Height - 1, NEW c \in 0 .. Width - 1
               PROVE  frame'[p][r][c] = IF CTUOf(r, c) < ctu THEN pic'[p][r][c] ELSE Source
    BY <1>1, <1>11, <2>1 DEF FrameOK, CTUOf
  <2>2. frame'[p][r][c] = IF CTUOf(r, c) < ctu THEN pic[p][r][c] ELSE Source
    BY <1>1, <2>1 DEF FrameOK
  <2>3. ASSUME CTUOf(r, c) < ctu PROVE pic'[p][r][c] = pic[p][r][c]
    <3>1. ~Replaced(r, c)
      BY <2>3, CTUOfSample DEF CountersOK
    <3>2. ~(InBlock(r, OffsetY + y, s) /\ InBlock(c, OffsetX + x, s))
      <4>1. x + s <= 8 /\ y + s <= 8
        <5>1. x % s = 0 /\ y % s = 0
          <6>1. x = (tot4x4s % 2) + 2 * ((tot4x4s \div 4) % 2) + 4 * ((tot4x4s \div 16) % 2)
            BY <1>0, <1>1, Disp
          <6>2. y = ((tot4x4s \div 2) % 2) + 2 * ((tot4x4s \div 8) % 2) + 4 * ((tot4x4s \div 32) % 2)
            BY <1>0, <1>1, Disp
          <6>3. CASE s = 2
            BY <1>1, <1>4, <6>1, <6>2, <6>3
          <6>4. CASE s = 4
            BY <1>1, <1>4, <6>1, <6>2, <6>4
          <6>5. CASE s = 8
            <7>1. tot4x4s = 0
              BY <1>1, <1>4, <6>5
            <7>2. QED BY <6>1, <6>2, <6>5, <7>1
          <6>6. QED BY <1>8, <6>3, <6>4, <6>5
        <5>2. x \in 0 .. 7 /\ y \in 0 .. 7
          BY <1>7 DEF PUs, N, TOT_PUS_LINE
        <5>3. QED BY <1>8, <5>1, <5>2
      <4>2. x \in 0 .. 7 /\ y \in 0 .. 7
        BY <1>7 DEF PUs, N, TOT_PUS_LINE
      <4>3. QED
        BY <1>8, <1>10, <3>1, <4>1, <4>2 DEF Replaced, InBlock, N, TOT_PUS_LINE
    <3>3. p = "Y" \/ p = "C"
      BY DEF Planes
    <3>4. QED
      BY <1>12, <1>16, <3>2, <3>3
  <2>4. QED BY <2>2, <2>3
<1>25. CountersOK'
  BY <1>1, <1>21, CountersSame DEF CTUCoded
<1>26. QED
  BY <1>17, <1>20, <1>22, <1>23, <1>24, <1>25

LEMMA UpdateBuffersOK == CTUInv /\ UpdateBuffers => CTUInv'
<1> SUFFICES ASSUME CTUInv, UpdateBuffers PROVE CTUInv'
  OBVIOUS
<1> USE DEF CTUInv
<1> USE CTUAssumption
<1>1. /\ pc = "UpdateBuffers" /\ UNCHANGED <<stack, tot4x4s, pic, trials>>
      /\ rec' = [p \in Planes |-> [r \in PUs |-> [rec[p][r] EXCEPT ![-1] = rec[p][r][N - 1]]]]
      /\ frame' = [p \in Planes |-> [r \in DOMAIN frame[p] |-> [c \in DOMAIN frame[p][r] |->
                     IF Replaced(r, c)
                       THEN rec[p][r - OffsetY][c - OffsetX] ELSE frame[p][r][c]]]]
  BY DEF UpdateBuffers
<1>2. IF IsLastTileCTU THEN pc' = "Done" /\ ctu' = ctu
                       ELSE pc' = "PrepareCTU" /\ ctu' = ctu + 1
  BY DEF UpdateBuffers
<1>3. pc' \in {"Done", "PrepareCTU"}
  BY <1>2
<1>4. stack = <<>> /\ DOMAIN stack = {} /\ tot4x4s = 0
  BY <1>1 DEF StackOK, ChromaOK, Searching
<1>5. CountersOK'
  <2>1. ctu \in 0 .. TileWidth * TileHeight - 1 /\ TileWidth * TileHeight \in Nat
    BY DEF CountersOK
  <2>2. ctu' \in 0 .. TileWidth * TileHeight - 1
    BY <1>2, <2>1 DEF IsLastTileCTU
  <2>3. QED BY <1>1, <1>3, <2>2 DEF CountersOK
<1>6. BuffersOK'
  <2>1. neighMode' \in [0 .. N + 1 -> [0 .. N + 1 -> Seq(Int)]]
    <3>1. neighMode' = [r \in 0 .. N + 1 |-> [c \in 0 .. N + 1 |->
                     IF r \in 1 .. N /\ c = 0 THEN neighMode[r][N]
                     ELSE IF r \in 1 .. N /\ c \in 1 .. N THEN INVALID_MODE
                     ELSE neighMode[r][c]]]
      BY DEF UpdateBuffers
    <3>2. neighMode \in [0 .. N + 1 -> [0 .. N + 1 -> Seq(Int)]]
      BY DEF BuffersOK
    <3>3. INVALID_MODE \in Seq(Int) /\ N \in 0 .. N + 1
      BY DEF INVALID_MODE, N, TOT_PUS_LINE
    <3>4. QED BY <3>1, <3>2, <3>3
  <2>2. Grid(infoL', 0 .. N, 0 .. N)
    BY DEF UpdateBuffers, Grid
  <2>3. DOMAIN rec' = Planes /\ \A p \in Planes : Grid(rec'[p], PUs, -1 .. N - 1)
    <3>1. \A p \in Planes : \A r \in PUs : DOMAIN rec[p][r] = -1 .. N - 1
      BY DEF BuffersOK, Grid
    <3>2. QED BY <1>1, <3>1 DEF Grid
  <2>4. DOMAIN frame' = Planes /\ \A p \in Planes : Grid(frame'[p], 0 .. Height - 1, 0 .. Width - 1)
    <3>1. \A p \in Planes : /\ DOMAIN frame[p] = 0 .. Height - 1
                            /\ \A r \in 0 .. Height - 1 : DOMAIN frame[p][r] = 0 .. Width - 1
      BY DEF BuffersOK, Grid
    <3>2. QED BY <1>1, <3>1 DEF Grid
  <2>5. Height' = Height /\ Width' = Width
    BY DEF Height, Width
  <2>6. DOMAIN pic' = Planes /\ \A p \in Planes : Grid(pic'[p], 0 .. Height - 1, 0 .. Width - 1)
    BY <1>1 DEF BuffersOK
  <2>7. QED BY <2>1, <2>2, <2>3, <2>4, <2>5, <2>6 DEF BuffersOK
<1>7. StackOK'
  BY <1>1, <1>3, <1>4 DEF StackOK, Searching
<1>8. SearchOK'
  BY <1>1, <1>3, <1>4 DEF SearchOK, Tried, CTUCoded
<1>9. ChromaOK'
  BY <1>1, <1>3, <1>4 DEF ChromaOK, CTUCoded, N, TOT_PUS_LINE
<1>10. \A p \in Planes : \A a, b \in PUs : Kept(p, a, b)
  <2>1. \A a, b \in PUs : Kept("Y", a, b)
    <3> DEFINE top == NewCU(0, 0, N)
    <3>1. top \in Activation
      BY DEF NewCU, Activation, PUs, N, TOT_PUS_LINE, Sizes
    <3>2. LumaDone(top)
      BY <1>1, <3>1 DEF SearchOK, Tried, CTUCoded
    <3>3. \A a, b \in PUs : InSquare(a, b, top)
      BY DEF InSquare, InBlock, NewCU, PUs, N, TOT_PUS_LINE
    <3>4. QED BY <3>2, <3>3 DEF LumaDone
  <2>2. \A a, b \in PUs : Kept("C", a, b)
    <3>1. \A t \in 0 .. 63 : Kept("C", Column(t), Row(t))
      BY <1>1 DEF ChromaOK, ChromaDone, CTUCoded, N, TOT_PUS_LINE
    <3>2. QED BY <3>1, DispOnto
  <2>3. QED BY <2>1, <2>2 DEF Planes
<1>11. FrameOK'
  <2> SUFFICES ASSUME NEW p \in Planes, NEW r \in 0 .. Height - 1, NEW c \in 0 .. Width - 1
               PROVE  frame'[p][r][c] =
                        IF CTUOf(r, c) < ctu' \/ pc' = "Done" THEN pic[p][r][c] ELSE Source
    <3>1. pic' = pic
      BY <1>1
    <3>2. QED BY <3>1 DEF FrameOK
  <2>1. /\ DOMAIN frame[p] = 0 .. Height - 1 /\ DOMAIN frame[p][r] = 0 .. Width - 1
    BY DEF BuffersOK, Grid
  <2>2. frame'[p][r][c] = IF Replaced(r, c) THEN rec[p][r - OffsetY][c - OffsetX]
                          ELSE frame[p][r][c]
    BY <1>1, <2>1
  <2>3. frame[p][r][c] = IF CTUOf(r, c) < ctu THEN pic[p][r][c] ELSE Source
    BY <1>1 DEF FrameOK
  <2>4. CTUOf(r, c) \in 0 .. TileWidth * TileHeight - 1 /\ (CTUOf(r, c) = ctu <=> Replaced(r, c))
    BY CTUOfSample
  <2>5. ctu \in 0 .. TileWidth * TileHeight - 1 /\ TileWidth * TileHeight \in Nat
    BY DEF CountersOK
  <2>6. CASE Replaced(r, c)
    <3>1. r - OffsetY \in PUs /\ c - OffsetX \in PUs /\ OffsetX \in Nat /\ OffsetY \in Nat
      <4>1. OffsetX \in Nat /\ OffsetY \in Nat /\ Height \in Nat /\ Width \in Nat
        BY Offsets
      <4>2. r \in Nat /\ c \in Nat
        BY <4>1
      <4>3. QED BY <2>6, <4>1, <4>2 DEF Replaced, InBlock, PUs, N, TOT_PUS_LINE
    <3>2. rec[p][r - OffsetY][c - OffsetX] = pic[p][OffsetY + (r - OffsetY)][OffsetX + (c - OffsetX)]
      BY <1>10, <3>1 DEF Kept
    <3>3. OffsetY + (r - OffsetY) = r /\ OffsetX + (c - OffsetX) = c
      BY <3>1
    <3>4. CTUOf(r, c) < ctu' \/ pc' = "Done"
      BY <1>2, <2>4, <2>5, <2>6
    <3>5. QED BY <2>2, <2>6, <3>2, <3>3, <3>4
  <2>7. CASE ~Replaced(r, c)
    <3>1. (CTUOf(r, c) < ctu' \/ pc' = "Done") <=> CTUOf(r, c) < ctu
      BY <1>2, <2>4, <2>5, <2>7 DEF IsLastTileCTU
    <3>2. QED BY <2>2, <2>3, <2>7, <3>1
  <2>8. QED BY <2>6, <2>7
<1>12. QED
  BY <1>5, <1>6, <1>7, <1>8, <1>9, <1>11

-----------------------------------------------------------------------------
(* The theorems.                                                           *)

LEMMA StepOK == CTUInv /\ [Next]_vars => CTUInv'
<1> SUFFICES ASSUME CTUInv, [Next]_vars PROVE CTUInv'
  OBVIOUS
<1>1. CASE InitBuffersNewTile
  BY <1>1, InitBuffersNewTileOK
<1>2. CASE PrepareCTU
  BY <1>2, PrepareCTUOK
<1>3. CASE TestModes
  BY <1>3, TestModesOK
<1>4. CASE CodeCU
  BY <1>4, CodeCUOK
<1>5. CASE SplitIsBad
  BY <1>5, SplitIsBadOK
<1>6. CASE NextPart
  BY <1>6, NextPartOK
<1>7. CASE SplitIsGood
  BY <1>7, SplitIsGoodOK
<1>8. CASE CompressChromaCU
  BY <1>8, CompressChromaCUOK
<1>9. CASE EncodeCTU
  BY <1>9, EncodeCTUOK
<1>10. CASE UpdateBuffers
  BY <1>10, UpdateBuffersOK
<1>11. CASE UNCHANGED vars
  <2>1. /\ UNCHANGED <<pc, ctu, stack, tot4x4s, neighMode, infoL, rec, frame, pic, trials>>
    BY <1>11 DEF vars
  <2>2. CountersOK' /\ BuffersOK'
    BY <2>1, BuffersSame DEF CTUInv, CountersOK
  <2>3. StackOK'
    BY <2>1 DEF CTUInv, StackOK, cu
  <2>4. SearchOK'
    <3> SUFFICES ASSUME NEW c \in Activation, Tried(c)' PROVE LumaDone(c)'
      BY DEF SearchOK
    <3>1. Tried(c)
      BY <2>1 DEF Tried, cu
    <3>2. rec'["Y"] = rec["Y"] /\ pic'["Y"] = pic["Y"] /\ UNCHANGED <<ctu, infoL>>
      BY <2>1
    <3>3. QED BY <3>1, <3>2, LumaUnchanged DEF CTUInv, SearchOK
  <2>5. ChromaOK'
    <3>1. ChromaDone(tot4x4s)' <=> ChromaDone(tot4x4s)
      BY <2>1 DEF ChromaDone, Kept, OffsetX, OffsetY, cx, cy
    <3>2. ChromaDone(N * N)' <=> ChromaDone(N * N)
      BY <2>1 DEF ChromaDone, Kept, OffsetX, OffsetY, cx, cy
    <3>3. QED
      BY <2>1, <3>1, <3>2 DEF CTUInv, ChromaOK, ChromaSize, SizeAt
  <2>6. FrameOK'
    <3>1. frame' = frame /\ pic' = pic /\ ctu' = ctu /\ pc' = pc
      BY <2>1
    <3>2. QED BY <3>1 DEF CTUInv, FrameOK
  <2>7. QED BY <2>2, <2>3, <2>4, <2>5, <2>6 DEF CTUInv
<1>12. QED
  BY <1>1, <1>2, <1>3, <1>4, <1>5, <1>6, <1>7, <1>8, <1>9, <1>10, <1>11 DEF Next

(* Whatever the tile's size and the parts the search gave up: the           *)
(* activations are nested, what they have tried is coded with the decoder's *)
(* samples, the chroma pass has coded every block before its counter, and   *)
(* the frame holds the decoder's samples for the CTUs that are done.        *)
THEOREM CTUInvariant == Spec => []CTUInv
<1>1. Init => CTUInv
  BY InitOK
<1>2. CTUInv /\ [Next]_vars => CTUInv'
  BY StepOK
<1>3. QED BY <1>1, <1>2, PTL DEF Spec

(* The sizes of the activations are those of the recursion. *)
LEMMA StackSizes ==
  ASSUME StackOK
  PROVE  \A k \in DOMAIN stack : k \in 1 .. 4 /\ stack[k].size = N \div 2 ^ (k - 1)
<1>1. stack \in Seq(Activation)
  BY DEF StackOK
<1>2. Len(stack) \in Nat /\ DOMAIN stack = 1 .. Len(stack)
      /\ \A k \in DOMAIN stack : stack[k] \in Activation
  BY <1>1
<1>3. stack # <<>> => stack[1].size = 8
  BY DEF StackOK, SamePlace, NewCU, N, TOT_PUS_LINE
<1>4. \A k, m \in DOMAIN stack : k = m + 1 =>
        /\ stack[m].size > 1 /\ stack[k].size = stack[m].size \div 2
  <2> SUFFICES ASSUME NEW k \in DOMAIN stack, NEW m \in DOMAIN stack, k = m + 1
               PROVE  stack[m].size > 1 /\ stack[k].size = stack[m].size \div 2
    OBVIOUS
  <2>1. k > 1 /\ k - 1 = m
    BY <1>2
  <2>2. stack[k - 1].size > 1 /\ stack[k].size = stack[k - 1].size \div 2
    BY <2>1, PartIs DEF StackOK, SamePlace
  <2>3. QED BY <2>1, <2>2
<1>5. 1 \in DOMAIN stack => stack[1].size = 8
  BY <1>2, <1>3
<1>6. \A k, m \in Nat : k \in DOMAIN stack /\ 1 <= m /\ m <= k => m \in DOMAIN stack
  BY <1>2
<1>7. 2 \in DOMAIN stack => stack[2].size = 4
  <2>1. 2 \in DOMAIN stack => 1 \in DOMAIN stack /\ 2 = 1 + 1
    BY <1>6
  <2>2. QED BY <1>4, <1>5, <2>1
<1>8. 3 \in DOMAIN stack => stack[3].size = 2
  <2>1. 3 \in DOMAIN stack => 2 \in DOMAIN stack /\ 3 = 2 + 1
    BY <1>6
  <2>2. QED BY <1>4, <1>7, <2>1
<1>9. 4 \in DOMAIN stack => stack[4].size = 1
  <2>1. 4 \in DOMAIN stack => 3 \in DOMAIN stack /\ 4 = 3 + 1
    BY <1>6
  <2>2. QED BY <1>4, <1>8, <2>1
<1>10. 5 \notin DOMAIN stack
  <2>1. 5 \in DOMAIN stack => 4 \in DOMAIN stack /\ 5 = 4 + 1
    BY <1>6
  <2>2. QED BY <1>4, <1>9, <2>1
<1>11. \A k \in DOMAIN stack : k \in 1 .. 4
  BY <1>2, <1>10
<1>12. 8 \div 2 ^ 0 = 8 /\ 8 \div 2 ^ 1 = 4 /\ 8 \div 2 ^ 2 = 2 /\ 8 \div 2 ^ 3 = 1
  <2>1. 2 ^ 0 = 1 /\ 2 ^ 1 = 2 /\ 2 ^ 2 = 4 /\ 2 ^ 3 = 8
    OBVIOUS
  <2>2. QED BY <2>1
<1>13. ASSUME NEW k \in DOMAIN stack PROVE stack[k].size = N \div 2 ^ (k - 1)
  <2>1. CASE k = 1
    BY <1>5, <1>12, <2>1 DEF N, TOT_PUS_LINE
  <2>2. CASE k = 2
    BY <1>7, <1>12, <2>2 DEF N, TOT_PUS_LINE
  <2>3. CASE k = 3
    BY <1>8, <1>12, <2>3 DEF N, TOT_PUS_LINE
  <2>4. CASE k = 4
    BY <1>9, <1>12, <2>4 DEF N, TOT_PUS_LINE
  <2>5. QED BY <1>11, <2>1, <2>2, <2>3, <2>4
<1>14. QED BY <1>11, <1>13

(* The types of what controls the search and the chroma pass: xCompressLumaCU *)
(* never recurses beyond the 4x4 block, each activation is in the CU of its *)
(* caller, and CompressChromaCU's counter stays in the CTU.                 *)
THEOREM CTUTypes == Spec => []CTUTypeOK
<1>1. CTUInv => CTUTypeOK
  <2> SUFFICES ASSUME CTUInv PROVE CTUTypeOK
    OBVIOUS
  <2>1. CountersOK /\ StackOK /\ ChromaOK
    BY DEF CTUInv
  <2>2. stack \in Seq(Activation)
    BY <2>1 DEF StackOK
  <2>3. Len(stack) \in Nat /\ DOMAIN stack = 1 .. Len(stack)
    BY <2>2
  <2>4. ASSUME NEW k \in DOMAIN stack
        PROVE  /\ stack[k].size = N \div 2 ^ (k - 1)
               /\ stack[k].x \in PUs /\ stack[k].y \in PUs /\ stack[k].part \in 0 .. 3
               /\ k > 1 => stack[k].x \div stack[k - 1].size
                             = stack[k - 1].x \div stack[k - 1].size
    <3>1. stack[k] \in Activation
      BY <2>2
    <3>2. stack[k].x \in PUs /\ stack[k].y \in PUs /\ stack[k].part \in 0 .. 3
      BY <3>1 DEF Activation
    <3>3. ASSUME k > 1
          PROVE  stack[k].x \div stack[k - 1].size = stack[k - 1].x \div stack[k - 1].size
      <4>1. PICK a : a = stack[k - 1]
        OBVIOUS
      <4>2. PICK b : b = stack[k]
        OBVIOUS
      <4>3. k - 1 \in DOMAIN stack
        BY <2>3, <3>3
      <4>4. a \in Activation /\ b \in Activation /\ a.size > 1 /\ a.x % a.size = 0
            /\ SamePlace(b, Part(a, a.part))
        BY <2>1, <2>2, <3>1, <3>3, <4>1, <4>2, <4>3 DEF StackOK
      <4>5. a.part \in 0 .. 3
        BY <4>4 DEF Activation
      <4>6. /\ b.size \in {1, 2, 4} /\ a.size = 2 * b.size
            /\ b.x = a.x + (IF a.part \in {0, 2} THEN 0 ELSE b.size)
        BY <4>4, <4>5, PartPlace DEF SamePlace
      <4>7. a.x \in 0 .. 7
        BY <4>4 DEF Activation, PUs, N, TOT_PUS_LINE
      <4>8. b.x \div a.size = a.x \div a.size
        <5>1. CASE b.size = 1
          BY <4>4, <4>6, <4>7, <5>1
        <5>2. CASE b.size = 2
          BY <4>4, <4>6, <4>7, <5>2
        <5>3. CASE b.size = 4
          BY <4>4, <4>6, <4>7, <5>3
        <5>4. QED BY <4>6, <5>1, <5>2, <5>3
      <4>9. QED BY <4>1, <4>2, <4>8
    <3>4. QED BY <2>1, <3>2, <3>3, StackSizes
  <2>5. QED
    BY <2>1, <2>4 DEF CTUTypeOK, CountersOK, ChromaOK, Searching, CTUCoded
<1>2. QED BY <1>1, CTUInvariant, PTL

(* Between two CTUs, and when the tile is done, the YUV buffer that         *)
(* UpdateBuffers writes holds the decoder's samples for every CTU that is   *)
(* done, and the source for every other, in a tile of any size.             *)
THEOREM FrameIsTheDecoders == Spec => []FrameIsDecoders
<1>1. CTUInv => FrameIsDecoders
  BY DEF CTUInv, FrameOK, FrameIsDecoders, CTUOf
<1>2. QED BY <1>1, CTUInvariant, PTL

--------------------------------------------------------------------------------
(* The references. *)

(* The availability of the five zones of a block, by the decoding order.   *)
Avail(X, Y, s) ==
  <<Decoded(<<X - 1, Y + s>>, X, Y), Decoded(<<X - 1, Y>>, X, Y),
    Decoded(<<X - 1, Y - 1>>, X, Y), Decoded(<<X, Y - 1>>, X, Y),
    Decoded(<<X + s, Y - 1>>, X, Y)>>

Start(v, s) == v - (v % s)

(* The encoder's arrays have what the decoder has at a PU, and the         *)
(* availability of the CU that covers it.                                  *)
PUDone(x, y) ==
  /\ neighMode[y + 1][x + 1] = pic["Y"][OffsetY + y][OffsetX + x]
  /\ Kept("Y", x, y)
  /\ SizeAt(x, y) \in Sizes
  /\ LET s == SizeAt(x, y)
     IN  infoL[y + 1][x + 1].valid = Avail(OffsetX + Start(x, s), OffsetY + Start(y, s), s)

(* The PUs before Lo in decoding order are done, those from Hi on are not  *)
(* touched; a CU between them has parts to be coded over.                  *)
Lo == CASE pc = "TestModes" -> Z(cu.x, cu.y)
        [] pc = "CodeCU"    -> Z(cu.x, cu.y)
        [] pc = "PartDone"  -> Z(cu.x, cu.y) + (cu.part + 1) * ((cu.size \div 2) * (cu.size \div 2))
        [] pc = "PrepareCTU" -> 0
        [] OTHER -> N * N
Hi == IF pc = "CodeCU" THEN Z(cu.x, cu.y) + cu.size * cu.size ELSE Lo

InCTU == pc \notin {"InitBuffersNewTile", "PrepareCTU", "Done"}

SearchRefOK ==
  pc \notin {"InitBuffersNewTile", "Done"} =>
    \A x, y \in PUs :
      /\ Z(x, y) < Lo => PUDone(x, y)
      /\ Z(x, y) >= Hi => neighMode[y + 1][x + 1] = INVALID_MODE

(* The borders of the CTU's arrays. *)
LeftOK ==
  pc \notin {"InitBuffersNewTile", "Done"} =>
    /\ cx > 0 => \A y \in PUs :
         /\ neighMode[y + 1][0] = pic["Y"][OffsetY + y][OffsetX - 1]
         /\ \A p \in Planes : rec[p][y][-1] = pic[p][OffsetY + y][OffsetX - 1]
    /\ cx = 0 /\ pc # "PrepareCTU" => \A y \in PUs : neighMode[y + 1][0] = INVALID_MODE
    /\ \A c \in 0 .. N + 1 : neighMode[N + 1][c] = INVALID_MODE
    /\ \A r \in 1 .. N + 1 : neighMode[r][N + 1] = INVALID_MODE

AboveOK ==
  /\ InCTU =>
       /\ neighMode[0][0] # INVALID_MODE <=> cx > 0 /\ cy > 0
       /\ neighMode[0][N + 1] # INVALID_MODE <=> cx < TileWidth - 1 /\ cy > 0
  /\ InCTU \/ (pc = "PrepareCTU" /\ cx > 0) =>
       \A c \in 1 .. N : neighMode[0][c] # INVALID_MODE <=> cy > 0

(* The row above in the border buffer, which the row of this CTU replaces  *)
(* from the left, and the sample that is kept aside.                       *)
RowAbove(p, k) == refTop[p][k] = pic[p][OffsetY - 1][k - 1]
RowBelow(p, k) == refTop[p][k] = pic[p][OffsetY + N - 1][k - 1]

RefTopOK ==
  pc \notin {"InitBuffersNewTile", "Done"} => \A p \in Planes :
    /\ cy > 0 => \A k \in OffsetX + 1 .. Width : RowAbove(p, k)
    /\ \A k \in 1 .. OffsetX - 1 : RowBelow(p, k)
    /\ pc = "PrepareCTU" =>
         /\ cx > 0 => RowBelow(p, OffsetX)
         /\ cx > 0 /\ cy > 0 => savedLT[p] = pic[p][OffsetY - 1][OffsetX - 1]
    /\ pc \in Searching \cup {"CompressChromaCU"} =>
         /\ cx > 0 => savedLT[p] = pic[p][OffsetY + N - 1][OffsetX - 1]
         /\ cx > 0 /\ cy > 0 => RowAbove(p, OffsetX)
    /\ pc \in CTUCoded =>
         /\ cx > 0 => RowBelow(p, OffsetX)
         /\ cy > 0 => savedLT[p] = pic[p][OffsetY - 1][OffsetX + N - 1]

(* The decoder's picture holds tags and what the buffers began with. *)
PicOK == \A r \in 0 .. Height - 1 : \A c \in 0 .. Width - 1 : pic["Y"][r][c] # INVALID_MODE

(* What each activation found when it tested its modes. *)
Tested(c) ==
  LET X == OffsetX + c.x  Y == OffsetY + c.y
  IN  /\ tempPred[c.size] = DecoderReferences("Y", X, Y, c.size)
      /\ c.cand = DecoderCandidates(X, Y)
      /\ c.valid = Avail(X, Y, c.size)

TestedOK ==
  \A k \in DOMAIN stack : k < Len(stack) \/ pc \in {"CodeCU", "PartDone"} => Tested(stack[k])

ChromaRefOK ==
  refC.size > 0 => refC.ref = DecoderReferences("C", refC.x, refC.y, refC.size)

(* The first CTU follows the initialisation, and the buffers that the      *)
(* references go through keep their dimensions.                            *)
RefBuffersOK ==
  /\ pc = "InitBuffersNewTile" => ctu = 0
  /\ DOMAIN refTop = Planes /\ \A p \in Planes : DOMAIN refTop[p] = 0 .. Width + N
  /\ DOMAIN savedLT = Planes /\ DOMAIN tempPred = Sizes

RefInv ==
  /\ SearchRefOK /\ LeftOK /\ AboveOK /\ RefTopOK /\ PicOK /\ TestedOK /\ ChromaRefOK
  /\ RefBuffersOK

-----------------------------------------------------------------------------
(* The decoding order inside a CTU.                                        *)

LEMMA ZIs ==
  ASSUME NEW x \in PUs, NEW y \in PUs
  PROVE  /\ Z(x, y) = (x % 2) + 2 * (y % 2) + 4 * ((x \div 2) % 2) + 8 * ((y \div 2) % 2)
                      + 16 * ((x \div 4) % 2) + 32 * ((y \div 4) % 2)
         /\ Z(x, y) \in 0 .. 63
<1>1. 2 ^ 0 = 1 /\ 2 ^ 1 = 2 /\ 2 ^ 2 = 4
  OBVIOUS
<1>2. x \in 0 .. 7 /\ y \in 0 .. 7
  BY DEF PUs, N, TOT_PUS_LINE
<1>3. Z(x, y) = ((x \div 1) % 2) + 2 * ((y \div 1) % 2) + 4 * ((x \div 2) % 2)
                + 8 * ((y \div 2) % 2) + 16 * ((x \div 4) % 2) + 32 * ((y \div 4) % 2)
  BY <1>1 DEF Z
<1>4. x \div 1 = x /\ y \div 1 = y
  BY <1>2
<1> QED BY <1>2, <1>3, <1>4

(* The PUs of an aligned block are consecutive. *)
LEMMA ZBlock ==
  ASSUME NEW x \in PUs, NEW y \in PUs, NEW s \in Sizes, x % s = 0, y % s = 0,
         NEW u \in PUs, NEW v \in PUs
  PROVE  /\ Z(x, y) <= Z(u, v) /\ Z(u, v) < Z(x, y) + s * s
              <=> InBlock(u, x, s) /\ InBlock(v, y, s)
         /\ Z(x, y) % (s * s) = 0
<1>1. /\ x \in 0 .. 7 /\ y \in 0 .. 7 /\ u \in 0 .. 7 /\ v \in 0 .. 7
  BY DEF PUs, N, TOT_PUS_LINE
<1>2. /\ Z(x, y) = (x % 2) + 2 * (y % 2) + 4 * ((x \div 2) % 2) + 8 * ((y \div 2) % 2)
                   + 16 * ((x \div 4) % 2) + 32 * ((y \div 4) % 2)
      /\ Z(u, v) = (u % 2) + 2 * (v % 2) + 4 * ((u \div 2) % 2) + 8 * ((v \div 2) % 2)
                   + 16 * ((u \div 4) % 2) + 32 * ((v \div 4) % 2)
  BY ZIs
<1>3. CASE s = 1
  BY <1>1, <1>2, <1>3 DEF InBlock
<1>4. CASE s = 2
  BY <1>1, <1>2, <1>4 DEF InBlock
<1>5. CASE s = 4
  BY <1>1, <1>2, <1>5 DEF InBlock
<1>6. CASE s = 8
  BY <1>1, <1>2, <1>6 DEF InBlock
<1> QED BY <1>3, <1>4, <1>5, <1>6 DEF Sizes

(* The PUs of one block are all before or all after the PU at the corner   *)
(* of another block of its size.                                           *)
LEMMA ZOrder ==
  ASSUME NEW x \in PUs, NEW y \in PUs, NEW a \in PUs, NEW b \in PUs, NEW s \in Sizes,
         x % s = 0, y % s = 0, a % s = 0, b % s = 0,
         NEW u \in PUs, NEW v \in PUs, InBlock(u, a, s), InBlock(v, b, s)
  PROVE  Z(u, v) < Z(x, y) <=> Z(a, b) < Z(x, y)
<1> DEFINE z == Z(x, y)
           w == Z(a, b)
           t == Z(u, v)
<1>1. z \in 0 .. 63 /\ w \in 0 .. 63 /\ t \in 0 .. 63
  BY ZIs
<1>2. z % (s * s) = 0 /\ w % (s * s) = 0 /\ w <= t /\ t < w + s * s
  BY ZBlock
<1> HIDE DEF z, w, t
<1>3. t < z <=> w < z
  <2>1. CASE s = 1
    BY <1>1, <1>2, <2>1
  <2>2. CASE s = 2
    BY <1>1, <1>2, <2>2
  <2>3. CASE s = 4
    BY <1>1, <1>2, <2>3
  <2>4. CASE s = 8
    BY <1>1, <1>2, <2>4
  <2> QED BY <2>1, <2>2, <2>3, <2>4 DEF Sizes
<1> QED BY <1>3 DEF z, w, t

-----------------------------------------------------------------------------
(* The decoding order in the tile, seen from a CTU.                        *)

LEMMA OrderIs ==
  ASSUME NEW q \in Nat, NEW m \in Nat, NEW a \in PUs, NEW b \in PUs
  PROVE  Order(8 * m + a, 8 * q + b) = (q * TileWidth + m) * 64 + Z(a, b)
<1>1. a \in 0 .. 7 /\ b \in 0 .. 7
  BY DEF PUs, N, TOT_PUS_LINE
<1>2. /\ (8 * q + b) \div 8 = q /\ (8 * q + b) % 8 = b
      /\ (8 * m + a) \div 8 = m /\ (8 * m + a) % 8 = a
  BY <1>1
<1>3. Order(8 * m + a, 8 * q + b) = (q * TileWidth + m) * 8 * 8 + Z(a, b)
  BY <1>2 DEF Order, N, TOT_PUS_LINE
<1>4. (q * TileWidth + m) * 8 * 8 = (q * TileWidth + m) * 64
  <2>1. TileWidth \in Nat
    BY CTUAssumption
  <2>2. q * TileWidth \in Nat
    BY <2>1
  <2> QED BY <2>2
<1> QED BY <1>3, <1>4

(* What a block sees: the CTUs above it, the CTU to the left of it, and    *)
(* the PUs before it.                                                      *)
Sees(u, v, x, y) ==
  IF v < 0 THEN cy > 0 /\ OffsetX + u \in 0 .. Width - 1
  ELSE IF u < 0 THEN cx > 0 /\ v < 8
  ELSE u < 8 /\ v < 8 /\ Z(u, v) < Z(x, y)

LEMMA DecodedIs ==
  ASSUME CountersOK, NEW x \in PUs, NEW y \in PUs, NEW u \in -1 .. 15, NEW v \in -1 .. 15
  PROVE  Decoded(<<OffsetX + u, OffsetY + v>>, OffsetX + x, OffsetY + y)
           <=> Sees(u, v, x, y)
<1> DEFINE D == Decoded(<<OffsetX + u, OffsetY + v>>, OffsetX + x, OffsetY + y)
<1>1. /\ cx \in 0 .. TileWidth - 1 /\ cy \in 0 .. TileHeight - 1
      /\ OffsetX = 8 * cx /\ OffsetY = 8 * cy
      /\ Width = 8 * TileWidth /\ Height = 8 * TileHeight
      /\ TileWidth \in Nat \ {0} /\ TileHeight \in Nat \ {0}
  BY Offsets, CTUAssumption
<1>2. x \in 0 .. 7 /\ y \in 0 .. 7 /\ PUs = 0 .. 7
  BY DEF PUs, N, TOT_PUS_LINE
<1> DEFINE R(k) == (cy + k) * TileWidth
<1>3. R(0) \in Nat /\ R(-1) = R(0) - TileWidth /\ R(1) = R(0) + TileWidth
  BY <1>1
<1>4. Z(x, y) \in 0 .. 63 /\ \A a, b \in PUs : Z(a, b) \in 0 .. 63
  BY ZIs
<1>5. Order(OffsetX + x, OffsetY + y) = (R(0) + cx) * 64 + Z(x, y)
  BY <1>1, OrderIs
<1>6. D <=> /\ OffsetX + u \in 0 .. Width - 1 /\ OffsetY + v \in 0 .. Height - 1
            /\ Order(OffsetX + u, OffsetY + v) < (R(0) + cx) * 64 + Z(x, y)
  BY <1>5 DEF Decoded
<1>7. ASSUME NEW k \in -1 .. 1, NEW j \in -1 .. 1, u - 8 * j \in 0 .. 7, v - 8 * k \in 0 .. 7,
             cx + j \in Nat, cy + k \in Nat
      PROVE  /\ Order(OffsetX + u, OffsetY + v) = (R(k) + cx + j) * 64 + Z(u - 8 * j, v - 8 * k)
             /\ Z(u - 8 * j, v - 8 * k) \in 0 .. 63
  <2> DEFINE a == u - 8 * j
             b == v - 8 * k
             m == cx + j
             q == cy + k
  <2>1. a \in PUs /\ b \in PUs /\ m \in Nat /\ q \in Nat
    BY <1>2, <1>7
  <2>2. OffsetX + u = 8 * m + a /\ OffsetY + v = 8 * q + b
    BY <1>1
  <2>3. Order(8 * m + a, 8 * q + b) = (q * TileWidth + m) * 64 + Z(a, b)
    <3> HIDE DEF a, b, m, q
    <3> QED BY <2>1, OrderIs
  <2>4. (q * TileWidth + m) = R(k) + cx + j
    <3>1. R(k) \in Int
      BY <1>1
    <3> QED BY <1>1, <3>1
  <2>5. Z(a, b) \in 0 .. 63
    BY <2>1, <1>4
  <2> QED BY <2>2, <2>3, <2>4, <2>5
<1> HIDE DEF R, D
<1>8. CASE v < 0
  <2>1. CASE cy > 0 /\ OffsetX + u \in 0 .. Width - 1
    <3>1. PICK j \in -1 .. 1 : u - 8 * j \in 0 .. 7 /\ cx + j \in 0 .. TileWidth - 1
      <4>1. CASE u < 0
        BY <2>1, <1>1, <4>1, u - 8 * (-1) \in 0 .. 7, cx + (-1) \in 0 .. TileWidth - 1
      <4>2. CASE u \in 0 .. 7
        BY <2>1, <1>1, <4>2, u - 8 * 0 \in 0 .. 7, cx + 0 \in 0 .. TileWidth - 1
      <4>3. CASE u > 7
        BY <2>1, <1>1, <4>3, u - 8 * 1 \in 0 .. 7, cx + 1 \in 0 .. TileWidth - 1
      <4> QED BY <4>1, <4>2, <4>3
    <3>2. v - 8 * (-1) \in 0 .. 7 /\ cy + (-1) \in Nat
      BY <1>1, <1>8, <2>1
    <3>3. /\ Order(OffsetX + u, OffsetY + v) = (R(-1) + cx + j) * 64 + Z(u - 8 * j, v - 8 * (-1))
          /\ Z(u - 8 * j, v - 8 * (-1)) \in 0 .. 63
      BY <3>1, <3>2, <1>7
    <3>4. D
      BY <1>1, <1>3, <1>4, <1>6, <1>8, <2>1, <3>1, <3>3
    <3> QED BY <3>4, <1>8, <2>1 DEF Sees, D
  <2>2. CASE ~ (cy > 0 /\ OffsetX + u \in 0 .. Width - 1)
    <3>1. ~ D
      BY <1>1, <1>6, <1>8, <2>2
    <3> QED BY <3>1, <1>8, <2>2 DEF Sees, D
  <2> QED BY <2>1, <2>2
<1>9. CASE v \in 0 .. 7 /\ u < 0
  <2>1. CASE cx > 0
    <3>1. /\ Order(OffsetX + u, OffsetY + v) = (R(0) + cx + (-1)) * 64 + Z(u - 8 * (-1), v - 8 * 0)
          /\ Z(u - 8 * (-1), v - 8 * 0) \in 0 .. 63
      BY <1>1, <1>7, <1>9, <2>1, u - 8 * (-1) \in 0 .. 7, v - 8 * 0 \in 0 .. 7,
         cx + (-1) \in Nat, cy + 0 \in Nat
    <3>2. D
      BY <1>1, <1>3, <1>4, <1>6, <1>9, <2>1, <3>1
    <3> QED BY <3>2, <1>9, <2>1 DEF Sees, D
  <2>2. CASE ~ (cx > 0)
    <3>1. ~ D
      BY <1>1, <1>6, <1>9, <2>2
    <3> QED BY <3>1, <1>9, <2>2 DEF Sees, D
  <2> QED BY <2>1, <2>2
<1>10. CASE v \in 0 .. 7 /\ u \in 0 .. 7
  <2>1. Order(OffsetX + u, OffsetY + v) = (R(0) + cx) * 64 + Z(u, v)
    <3>1. u \in PUs /\ v \in PUs
      BY <1>2, <1>10
    <3>2. Order(8 * cx + u, 8 * cy + v) = (cy * TileWidth + cx) * 64 + Z(u, v)
      <4>1. cx \in Nat /\ cy \in Nat
        BY <1>1
      <4> QED BY <3>1, <4>1, OrderIs
    <3>3. cy + 0 = cy
      BY <1>1
    <3> QED BY <3>2, <3>3, <1>1 DEF R
  <2>2. Z(u, v) \in 0 .. 63
    BY <1>2, <1>4, <1>10
  <2>3. D <=> Z(u, v) < Z(x, y)
    BY <1>1, <1>3, <1>4, <1>6, <1>10, <2>1, <2>2
  <2> QED BY <2>3, <1>10 DEF Sees, D
<1>11. CASE v \in 0 .. 7 /\ u > 7
  <2>1. ~ Sees(u, v, x, y)
    BY <1>11 DEF Sees
  <2>2. ASSUME D PROVE FALSE
    <3>1. /\ Order(OffsetX + u, OffsetY + v) = (R(0) + cx + 1) * 64 + Z(u - 8 * 1, v - 8 * 0)
          /\ Z(u - 8 * 1, v - 8 * 0) \in 0 .. 63
      BY <1>1, <1>7, <1>11, u - 8 * 1 \in 0 .. 7, v - 8 * 0 \in 0 .. 7,
         cx + 1 \in Nat, cy + 0 \in Nat
    <3> QED BY <1>1, <1>3, <1>4, <1>6, <2>2, <3>1
  <2> QED BY <2>1, <2>2 DEF D
<1>12. CASE v > 7
  <2>1. ~ Sees(u, v, x, y)
    BY <1>12 DEF Sees
  <2>2. ASSUME D PROVE FALSE
    <3>1. OffsetX + u \in 0 .. Width - 1
      BY <1>6, <2>2
    <3>2. PICK j \in -1 .. 1 : u - 8 * j \in 0 .. 7 /\ cx + j \in 0 .. TileWidth - 1
      <4>1. CASE u < 0
        BY <3>1, <1>1, <4>1, u - 8 * (-1) \in 0 .. 7, cx + (-1) \in 0 .. TileWidth - 1
      <4>2. CASE u \in 0 .. 7
        BY <3>1, <1>1, <4>2, u - 8 * 0 \in 0 .. 7, cx + 0 \in 0 .. TileWidth - 1
      <4>3. CASE u > 7
        BY <3>1, <1>1, <4>3, u - 8 * 1 \in 0 .. 7, cx + 1 \in 0 .. TileWidth - 1
      <4> QED BY <4>1, <4>2, <4>3
    <3>3. /\ Order(OffsetX + u, OffsetY + v) = (R(1) + cx + j) * 64 + Z(u - 8 * j, v - 8 * 1)
          /\ Z(u - 8 * j, v - 8 * 1) \in 0 .. 63
      BY <1>1, <1>7, <1>12, <3>2, v - 8 * 1 \in 0 .. 7, cy + 1 \in Nat, cx + j \in Nat
    <3> QED BY <1>1, <1>3, <1>4, <1>6, <2>2, <3>2, <3>3
  <2> QED BY <2>1, <2>2 DEF D
<1>13. v < 0 \/ (v \in 0 .. 7 /\ u < 0) \/ (v \in 0 .. 7 /\ u \in 0 .. 7)
       \/ (v \in 0 .. 7 /\ u > 7) \/ v > 7
  OBVIOUS
<1> QED BY <1>8, <1>9, <1>10, <1>11, <1>12, <1>13

-----------------------------------------------------------------------------
(* The references of a decoder, in the picture P.                          *)

RefX(X, s, i) == IF i <= 2 * s THEN X - 1 ELSE X + i - 2 * s - 1
RefY(Y, s, i) == IF i <= 2 * s THEN Y + 2 * s - 1 - i ELSE Y - 1
Known(X, Y, s) == {i \in 0 .. 4 * s : Decoded(<<RefX(X, s, i), RefY(Y, s, i)>>, X, Y)}

(* The known sample j is what takes the place of sample i.                 *)
Nearest(known, i, j) ==
  /\ j \in known
  /\ \/ j <= i /\ \A k \in known : k <= i => k <= j
     \/ \A k \in known : i < k /\ j <= k

LEMMA NearestExists ==
  ASSUME NEW n \in Nat, NEW known, known \subseteq 0 .. n, known # {}, NEW i \in 0 .. n
  PROVE  \E j \in known : Nearest(known, i, j)
<1> DEFINE below == {k \in known : k <= i}
<1>1. CASE below # {}
  <2>1. below \subseteq Nat /\ \A k \in below : k <= n
    <3>1. \A k \in known : k \in Nat /\ k <= n
      OBVIOUS
    <3> QED BY <3>1
  <2> HIDE DEF below
  <2>2. PICK j \in below : \A k \in below : j >= k
    BY <1>1, <2>1, GreatestNatural
  <2> USE DEF below
  <2>3. j \in known /\ j <= i /\ \A k \in known : k <= i => k <= j
    BY <2>2
  <2> QED BY <2>3 DEF Nearest
<1>2. CASE below = {}
  <2>1. known \subseteq Nat
    OBVIOUS
  <2>2. PICK j \in known : \A k \in known : j <= k
    BY <2>1, LeastNatural
  <2>3. \A k \in known : i < k
    BY <1>2
  <2> QED BY <2>2, <2>3 DEF Nearest
<1> QED BY <1>1, <1>2

LEMMA MaxIs ==
  ASSUME NEW S, NEW j \in S, \A k \in S : k \in Int /\ j >= k
  PROVE  Max(S) = j
<1>1. \E m \in S : \A k \in S : m >= k
  OBVIOUS
<1>2. Max(S) \in S /\ \A k \in S : Max(S) >= k
  BY <1>1, Zenon DEF Max
<1> QED BY <1>2

LEMMA MinIs ==
  ASSUME NEW S, NEW j \in S, \A k \in S : k \in Int /\ j <= k
  PROVE  Min(S) = j
<1>1. \E m \in S : \A k \in S : m <= k
  OBVIOUS
<1>2. Min(S) \in S /\ \A k \in S : Min(S) <= k
  BY <1>1, Zenon DEF Min
<1> QED BY <1>2

(* The references in a picture P of the plane.                             *)
PictureReferences(P, X, Y, s) ==
  LET known == Known(X, Y, s)
      Near(i) == IF \E k \in known : k <= i THEN Max({k \in known : k <= i})
                                            ELSE Min(known)
  IN  [i \in 0 .. 4 * s |-> IF known = {} THEN Grey
                            ELSE P[RefY(Y, s, Near(i))][RefX(X, s, Near(i))]]

LEMMA PictureReferencesAre ==
  ASSUME NEW P, NEW X, NEW Y, NEW s \in Sizes, NEW i \in 0 .. 4 * s
  PROVE  /\ Known(X, Y, s) = {} => PictureReferences(P, X, Y, s)[i] = Grey
         /\ \A j : Nearest(Known(X, Y, s), i, j) =>
              PictureReferences(P, X, Y, s)[i] = P[RefY(Y, s, j)][RefX(X, s, j)]
<1> DEFINE known == Known(X, Y, s)
           Near == IF \E k \in known : k <= i THEN Max({k \in known : k <= i})
                                              ELSE Min(known)
<1>1. PictureReferences(P, X, Y, s)[i]
        = IF known = {} THEN Grey ELSE P[RefY(Y, s, Near)][RefX(X, s, Near)]
  BY DEF PictureReferences
<1>2. \A k \in known : k \in Int
  BY DEF Sizes, Known
<1> HIDE DEF known
<1>3. ASSUME NEW j, Nearest(known, i, j) PROVE Near = j
  <2>1. j \in known /\ j \in Int /\ i \in Int
    BY <1>2, <1>3 DEF Nearest
  <2>2. CASE j <= i /\ \A k \in known : k <= i => k <= j
    <3> DEFINE below == {k \in known : k <= i}
    <3>1. j \in below /\ \A k \in below : k \in Int /\ j >= k
      BY <1>2, <2>1, <2>2
    <3>2. Max(below) = j
      <4> HIDE DEF below
      <4> QED BY <3>1, MaxIs
    <3>3. \E k \in known : k <= i
      BY <2>1, <2>2
    <3> QED BY <3>2, <3>3
  <2>3. CASE \A k \in known : i < k /\ j <= k
    <3>1. ~ \E k \in known : k <= i
      BY <1>2, <2>1, <2>3
    <3>2. \A k \in known : k \in Int /\ j <= k
      BY <1>2, <2>3
    <3>3. Min(known) = j
      BY <2>1, <3>2, MinIs
    <3> QED BY <3>1, <3>3
  <2> QED BY <1>3, <2>2, <2>3 DEF Nearest
<1>4. ASSUME NEW j, Nearest(known, i, j)
      PROVE  PictureReferences(P, X, Y, s)[i] = P[RefY(Y, s, j)][RefX(X, s, j)]
  <2>1. Near = j /\ known # {}
    BY <1>3, <1>4 DEF Nearest
  <2> HIDE DEF Near
  <2> QED BY <1>1, <2>1
<1> HIDE DEF Near
<1> QED BY <1>1, <1>4 DEF known

LEMMA DecoderReferencesAre ==
  ASSUME NEW p, NEW X, NEW Y, NEW s
  PROVE  /\ DecoderReferences(p, X, Y, s) = PictureReferences(pic[p], X, Y, s)
         /\ DecoderReferences(p, X, Y, s)' = PictureReferences(pic'[p], X, Y, s)
<1> DEFINE At(i) == IF i <= 2 * s THEN <<X - 1, Y + 2 * s - 1 - i>>
                                  ELSE <<X + i - 2 * s - 1, Y - 1>>
<1>1. \A i : At(i) = <<RefX(X, s, i), RefY(Y, s, i)>>
  BY DEF RefX, RefY
<1>2. {i \in 0 .. 4 * s : Decoded(At(i), X, Y)} = Known(X, Y, s)
  <2> HIDE DEF At
  <2> QED BY <1>1 DEF Known
<1>3. \A i : At(i)[1] = RefX(X, s, i) /\ At(i)[2] = RefY(Y, s, i)
  <2> HIDE DEF At
  <2> QED BY <1>1
<1> DEFINE known == {i \in 0 .. 4 * s : Decoded(At(i), X, Y)}
           Near(i) == IF \E k \in known : k <= i THEN Max({k \in known : k <= i})
                                                 ELSE Min(known)
           D(P) == [i \in 0 .. 4 * s |-> IF known = {} THEN Grey
                                         ELSE P[At(Near(i))[2]][At(Near(i))[1]]]
<1>4. DecoderReferences(p, X, Y, s) = D(pic[p])
  BY DEF DecoderReferences
<1>5. DecoderReferences(p, X, Y, s)' = D(pic'[p])
  BY DEF DecoderReferences
<1>6. ASSUME NEW P PROVE D(P) = PictureReferences(P, X, Y, s)
  <2> HIDE DEF At
  <2> QED BY <1>2, <1>3 DEF PictureReferences
<1> HIDE DEF D
<1> QED BY <1>4, <1>5, <1>6

(* The references depend on nothing but what precedes the block.           *)
LEMMA DecoderReferencesSame ==
  ASSUME NEW p, NEW X, NEW Y, NEW s \in Sizes,
         \A at : Decoded(at, X, Y) => pic'[p][at[2]][at[1]] = pic[p][at[2]][at[1]]
  PROVE  DecoderReferences(p, X, Y, s)' = DecoderReferences(p, X, Y, s)
<1> DEFINE A == PictureReferences(pic[p], X, Y, s)
           B == PictureReferences(pic'[p], X, Y, s)
<1>1. \A i \in 0 .. 4 * s : A[i] = B[i]
  <2> TAKE i \in 0 .. 4 * s
  <2>1. CASE Known(X, Y, s) = {}
    BY <2>1, PictureReferencesAre
  <2>2. CASE Known(X, Y, s) # {}
    <3>1. Known(X, Y, s) \subseteq 0 .. 4 * s /\ 4 * s \in Nat
      BY DEF Known, Sizes
    <3>2. PICK j \in Known(X, Y, s) : Nearest(Known(X, Y, s), i, j)
      BY <2>2, <3>1, NearestExists
    <3>3. /\ A[i] = pic[p][RefY(Y, s, j)][RefX(X, s, j)]
          /\ B[i] = pic'[p][RefY(Y, s, j)][RefX(X, s, j)]
      BY <3>2, PictureReferencesAre
    <3>4. Decoded(<<RefX(X, s, j), RefY(Y, s, j)>>, X, Y)
      BY DEF Known
    <3>5. pic'[p][RefY(Y, s, j)][RefX(X, s, j)] = pic[p][RefY(Y, s, j)][RefX(X, s, j)]
      BY <3>4
    <3> QED BY <3>3, <3>5
  <2> QED BY <2>1, <2>2
<1>2. A = [i \in 0 .. 4 * s |-> A[i]] /\ B = [i \in 0 .. 4 * s |-> B[i]]
  BY DEF PictureReferences
<1>3. A = B
  <2> HIDE DEF A, B
  <2> QED BY <1>1, <1>2
<1> QED BY <1>3, DecoderReferencesAre

-----------------------------------------------------------------------------
(* SubstituteReference finds the nearest known sample.                     *)

ZoneOf(s, i) == IF i < s THEN 1 ELSE IF i < 2 * s THEN 2 ELSE IF i = 2 * s THEN 3
                ELSE IF i < 3 * s + 1 THEN 4 ELSE 5

InValid(valid, s) == {i \in 0 .. 4 * s : valid[ZoneOf(s, i)]}

LEMMA Zones ==
  ASSUME NEW s \in Sizes
  PROVE  /\ \A i \in 0 .. 4 * s : ZoneOf(s, i) \in 1 .. 5
         /\ \A z \in 1 .. 5 :
              /\ InitRefPointers(s)[z] \in 0 .. 4 * s
              /\ InitRefPointers(s)[z + 1] \in 1 .. 4 * s + 1
              /\ InitRefPointers(s)[z] < InitRefPointers(s)[z + 1]
              /\ \A i \in 0 .. 4 * s :
                   /\ InitRefPointers(s)[z] <= i /\ i < InitRefPointers(s)[z + 1]
                        <=> ZoneOf(s, i) = z
                   /\ i < InitRefPointers(s)[z] <=> ZoneOf(s, i) < z
<1> DEFINE o == InitRefPointers(s)
<1>1. s \in {1, 2, 4, 8}
  BY DEF Sizes
<1>2. /\ o[1] = 0 /\ o[2] = s /\ o[3] = 2 * s /\ o[4] = 2 * s + 1
      /\ o[5] = 3 * s + 1 /\ o[6] = 4 * s + 1
  BY DEF InitRefPointers
<1> HIDE DEF o
<1>3. \A i \in 0 .. 4 * s : ZoneOf(s, i) \in 1 .. 5
  BY <1>1 DEF ZoneOf
<1>4. ASSUME NEW z \in 1 .. 5
      PROVE  /\ o[z] \in 0 .. 4 * s /\ o[z + 1] \in 1 .. 4 * s + 1 /\ o[z] < o[z + 1]
             /\ \A i \in 0 .. 4 * s :
                  /\ o[z] <= i /\ i < o[z + 1] <=> ZoneOf(s, i) = z
                  /\ i < o[z] <=> ZoneOf(s, i) < z
  <2>1. CASE z = 1
    BY <1>1, <1>2, <2>1 DEF ZoneOf
  <2>2. CASE z = 2
    BY <1>1, <1>2, <2>2 DEF ZoneOf
  <2>3. CASE z = 3
    BY <1>1, <1>2, <2>3 DEF ZoneOf
  <2>4. CASE z = 4
    BY <1>1, <1>2, <2>4 DEF ZoneOf
  <2>5. CASE z = 5
    BY <1>1, <1>2, <2>5 DEF ZoneOf
  <2> QED BY <2>1, <2>2, <2>3, <2>4, <2>5
<1> QED BY <1>3, <1>4 DEF o

LEMMA NearestIsOne ==
  ASSUME NEW known, \A k \in known : k \in Int, NEW i \in Int,
         NEW j, Nearest(known, i, j), NEW m, Nearest(known, i, m)
  PROVE  j = m
<1>1. j \in known /\ m \in known /\ j \in Int /\ m \in Int
  BY DEF Nearest
<1> QED BY <1>1 DEF Nearest

LEMMA Substituted ==
  ASSUME NEW s \in Sizes, NEW raw, NEW valid, NEW z0 \in 1 .. 5, valid[z0]
  PROVE  /\ SubstituteReference(raw, valid, s)
              = [i \in 0 .. 4 * s |-> SubstituteReference(raw, valid, s)[i]]
         /\ \A i \in 0 .. 4 * s : \A j :
              Nearest(InValid(valid, s), i, j) => SubstituteReference(raw, valid, s)[i] = raw[j]
<1> DEFINE o == InitRefPointers(s)
           first == Min({z \in 1 .. 5 : valid[z]})
           Zone(i) == CHOOSE z \in 1 .. 5 : o[z] <= i /\ i < o[z + 1]
           F(sub) == [i \in 0 .. 4 * s |->
                        IF i < o[first] THEN raw[o[first]]
                        ELSE IF valid[Zone(i)] THEN raw[i]
                        ELSE sub[o[Zone(i)] - 1]]
           sub == CHOOSE f : f = F(f)
           known == InValid(valid, s)
           S == 0 .. 4 * s
<1>1. SubstituteReference(raw, valid, s) = sub
  BY Zenon DEF SubstituteReference
<1>2. 4 * s \in Nat /\ s \in Nat
  BY DEF Sizes
<1>3. /\ \A i \in S : ZoneOf(s, i) \in 1 .. 5
      /\ \A z \in 1 .. 5 :
           /\ o[z] \in S /\ o[z + 1] \in 1 .. 4 * s + 1 /\ o[z] < o[z + 1]
           /\ \A i \in S : /\ o[z] <= i /\ i < o[z + 1] <=> ZoneOf(s, i) = z
                           /\ i < o[z] <=> ZoneOf(s, i) < z
  BY Zones
<1>4. known \subseteq S /\ \A i \in S : i \in known <=> valid[ZoneOf(s, i)]
  BY DEF InValid
<1>5. /\ first \in 1 .. 5 /\ valid[first]
      /\ \A z \in 1 .. 5 : valid[z] => first <= z
  <2> DEFINE V == {z \in 1 .. 5 : valid[z]}
  <2>1. V \subseteq Nat /\ V # {}
    OBVIOUS
  <2>2. PICK z \in V : \A y \in V : z <= y
    <3> HIDE DEF V
    <3> QED BY <2>1, LeastNatural
  <2>3. \A y \in V : y \in Int
    OBVIOUS
  <2>4. first = z
    <3>1. Min(V) = z
      <4> HIDE DEF V
      <4> QED BY <2>2, <2>3, MinIs
    <3> QED BY <3>1
  <2> QED BY <2>2, <2>4
<1> HIDE DEF o, first, known
<1>6. \A i \in S : Zone(i) = ZoneOf(s, i)
  <2> TAKE i \in S
  <2>1. ZoneOf(s, i) \in 1 .. 5 /\ o[ZoneOf(s, i)] <= i /\ i < o[ZoneOf(s, i) + 1]
    BY <1>3
  <2>2. \A z \in 1 .. 5 : o[z] <= i /\ i < o[z + 1] => z = ZoneOf(s, i)
    BY <1>3
  <2> QED BY <2>1, <2>2
<1> HIDE DEF Zone
<1>7. o[first] \in known
  <2>1. o[first] \in S /\ ZoneOf(s, o[first]) = first
    BY <1>3, <1>5
  <2> QED BY <1>4, <1>5, <2>1
<1>8. \A k \in known : k \in S /\ k \in Int
  BY <1>2, <1>4
<1>9. ASSUME NEW i \in S, i < o[first]
      PROVE  Nearest(known, i, o[first])
  <2>1. \A k \in known : o[first] <= k
    <3> TAKE k \in known
    <3>1. k \in S /\ ZoneOf(s, k) \in 1 .. 5 /\ valid[ZoneOf(s, k)]
      BY <1>3, <1>4, <1>8
    <3>2. ~ (ZoneOf(s, k) < first)
      BY <1>5, <3>1
    <3>3. ~ (k < o[first])
      BY <1>3, <1>5, <3>1, <3>2
    <3> QED BY <1>3, <1>5, <1>8, <3>3
  <2>2. \A k \in known : i < k
    BY <1>3, <1>5, <1>8, <1>9, <2>1
  <2> QED BY <1>7, <2>1, <2>2 DEF Nearest
<1>10. ASSUME NEW i \in S, valid[ZoneOf(s, i)] PROVE Nearest(known, i, i)
  BY <1>4, <1>8, <1>10 DEF Nearest
<1>11. ASSUME NEW i \in S, ~ (i < o[first]), ~ valid[ZoneOf(s, i)]
       PROVE  /\ o[ZoneOf(s, i)] - 1 \in S /\ o[ZoneOf(s, i)] - 1 < i
              /\ \A j : Nearest(known, o[ZoneOf(s, i)] - 1, j) => Nearest(known, i, j)
  <2> DEFINE w == ZoneOf(s, i)
             e == o[w] - 1
  <2>1. w \in 1 .. 5 /\ o[w] <= i /\ o[w] \in S /\ i < o[w + 1]
    BY <1>3
  <2>2. ~ (w < first) /\ w # first
    BY <1>3, <1>5, <1>11
  <2>3. o[first] <= e /\ e \in S /\ e < i
    <3>1. first < w
      BY <1>5, <2>1, <2>2
    <3>2. ZoneOf(s, o[first]) = first /\ o[first] \in S
      BY <1>3, <1>5
    <3>3. o[first] < o[w]
      BY <1>3, <2>1, <3>1, <3>2
    <3> QED BY <1>2, <2>1, <3>2, <3>3
  <2>4. \A k \in known : k <= i => k <= e
    <3> TAKE k \in known
    <3> HAVE k <= i
    <3>1. k \in S /\ ZoneOf(s, k) # w
      BY <1>4, <1>11
    <3>2. ~ (o[w] <= k)
      <4>1. o[w + 1] \in Int
        BY <1>3, <2>1
      <4>2. o[w] <= k => k < o[w + 1]
        BY <1>8, <2>1, <4>1
      <4> QED BY <1>3, <2>1, <3>1, <4>2
    <3> QED BY <1>8, <2>1, <3>2
  <2> HIDE DEF e, w
  <2>5. ASSUME NEW j, Nearest(known, e, j) PROVE Nearest(known, i, j)
    <3>1. j \in known /\ j \in Int /\ e \in Int /\ i \in Int
      BY <1>8, <2>3, <2>5 DEF Nearest
    <3>2. j <= e /\ \A k \in known : k <= e => k <= j
      <4>1. o[first] \in known /\ o[first] \in Int /\ o[first] <= e
        BY <1>7, <1>8, <2>3
      <4>2. ~ (e < o[first])
        BY <3>1, <4>1
      <4> QED BY <2>5, <4>1, <4>2 DEF Nearest
    <3>3. j <= i /\ \A k \in known : k <= i => k <= j
      BY <1>8, <2>3, <2>4, <3>1, <3>2
    <3> QED BY <3>1, <3>3 DEF Nearest
  <2> QED BY <2>3, <2>5 DEF e, w
<1> DEFINE near == [i \in S |-> CHOOSE j \in known : Nearest(known, i, j)]
           f == [i \in S |-> raw[near[i]]]
<1>12. ASSUME NEW i \in S, NEW j, Nearest(known, i, j) PROVE f[i] = raw[j]
  <2>1. j \in known
    BY <1>12 DEF Nearest
  <2>2. Nearest(known, i, near[i])
    BY <1>12, <2>1
  <2>3. near[i] = j
    <3> HIDE DEF near
    <3> QED BY <1>2, <1>8, <1>12, <2>2, NearestIsOne
  <2> QED BY <2>3
<1>13. \A i \in S : \E j : Nearest(known, i, j)
  BY <1>2, <1>4, <1>7, NearestExists
<1>14. f = [i \in S |-> f[i]]
  OBVIOUS
<1> HIDE DEF f
<1>15. \A i \in S : f[i] = IF i < o[first] THEN raw[o[first]]
                           ELSE IF valid[Zone(i)] THEN raw[i] ELSE f[o[Zone(i)] - 1]
  <2> TAKE i \in S
  <2>1. CASE i < o[first]
    BY <1>9, <1>12, <2>1
  <2>2. CASE ~ (i < o[first]) /\ valid[ZoneOf(s, i)]
    BY <1>6, <1>10, <1>12, <2>2
  <2>3. CASE ~ (i < o[first]) /\ ~ valid[ZoneOf(s, i)]
    <3> DEFINE e == o[ZoneOf(s, i)] - 1
    <3>1. e \in S /\ \A j : Nearest(known, e, j) => Nearest(known, i, j)
      BY <1>11, <2>3
    <3> HIDE DEF e
    <3>2. PICK j : Nearest(known, e, j)
      BY <1>13, <3>1
    <3>3. f[e] = raw[j] /\ f[i] = raw[j]
      BY <1>12, <3>1, <3>2
    <3> QED BY <1>6, <2>3, <3>3 DEF e
  <2> QED BY <2>1, <2>2, <2>3
<1>16. f = F(f)
  <2> HIDE DEF S
  <2> QED BY <1>14, <1>15 DEF S
<1>17. sub = F(sub)
  <2> HIDE DEF F
  <2> QED BY <1>16
<1> HIDE DEF sub
<1>18. \A i \in S : sub[i] = IF i < o[first] THEN raw[o[first]]
                             ELSE IF valid[Zone(i)] THEN raw[i] ELSE sub[o[Zone(i)] - 1]
  BY <1>17
<1>19. \A i \in S : sub[i] = f[i]
  <2> DEFINE Bad == {i \in S : sub[i] # f[i]}
  <2> SUFFICES ASSUME Bad # {} PROVE FALSE
    OBVIOUS
  <2>1. Bad \subseteq Nat
    BY <1>2
  <2>2. PICK i \in Bad : \A k \in Bad : i <= k
    <3> HIDE DEF Bad
    <3> QED BY <2>1, LeastNatural
  <2>3. i \in S /\ i \in Nat /\ sub[i] # f[i]
    BY <1>2
  <2>4. ~ (i < o[first]) /\ ~ valid[ZoneOf(s, i)]
    BY <1>6, <1>15, <1>18, <2>3
  <2> DEFINE e == o[ZoneOf(s, i)] - 1
  <2>5. e \in S /\ e < i
    BY <1>11, <2>3, <2>4
  <2>6. sub[i] = sub[e] /\ f[i] = f[e]
    BY <1>6, <1>15, <1>18, <2>3, <2>4
  <2> HIDE DEF e
  <2>7. e \in Bad
    BY <2>3, <2>5, <2>6
  <2>8. e \in Int
    BY <1>2, <2>5
  <2> QED BY <2>2, <2>3, <2>5, <2>7, <2>8
<1>20. sub = [i \in S |-> sub[i]]
  BY <1>17
<1> QED BY <1>1, <1>12, <1>19, <1>20 DEF known

-----------------------------------------------------------------------------
(* What a block of the CTU sees of its neighbourhood, zone by zone.        *)

ZoneX(x, s, z) == IF z \in {1, 2, 3} THEN x - 1 ELSE IF z = 4 THEN x ELSE x + s
ZoneY(y, s, z) == IF z = 1 THEN y + s ELSE IF z = 2 THEN y ELSE y - 1

AlignedAt(x, y, s) == x \in PUs /\ y \in PUs /\ s \in Sizes /\ x % s = 0 /\ y % s = 0

LEMMA AlignedIs ==
  ASSUME NEW x, NEW y, NEW s, AlignedAt(x, y, s)
  PROVE  /\ x \in 0 .. 7 /\ y \in 0 .. 7 /\ s \in {1, 2, 4, 8}
         /\ x + s <= 8 /\ y + s <= 8
         /\ x > 0 => x - s \in PUs /\ (x - s) % s = 0
         /\ y > 0 => y - s \in PUs /\ (y - s) % s = 0
         /\ x + s < 8 => x + s \in PUs /\ (x + s) % s = 0
         /\ y + s < 8 => y + s \in PUs /\ (y + s) % s = 0
<1>1. PUs = 0 .. 7
  BY DEF PUs, N, TOT_PUS_LINE
<1>2. x \in 0 .. 7 /\ y \in 0 .. 7 /\ s \in {1, 2, 4, 8} /\ x % s = 0 /\ y % s = 0
  BY <1>1 DEF AlignedAt, Sizes
<1>3. CASE s = 1
  BY <1>1, <1>2, <1>3
<1>4. CASE s = 2
  BY <1>1, <1>2, <1>4
<1>5. CASE s = 4
  BY <1>1, <1>2, <1>5
<1>6. CASE s = 8
  BY <1>1, <1>2, <1>6
<1> QED BY <1>2, <1>3, <1>4, <1>5, <1>6

LEMMA BlockOrder ==
  ASSUME NEW x, NEW y, NEW s, AlignedAt(x, y, s), NEW a, NEW b, AlignedAt(a, b, s),
         NEW u, NEW v, u \in PUs, v \in PUs, InBlock(u, a, s), InBlock(v, b, s)
  PROVE  Z(u, v) < Z(x, y) <=> Z(a, b) < Z(x, y)
BY ZOrder DEF AlignedAt

(* A sample of a zone is seen when the PU that is asked is.                *)
LEMMA ZoneIsSeen ==
  ASSUME CountersOK, NEW x, NEW y, NEW s, AlignedAt(x, y, s), NEW i \in 0 .. 4 * s
  PROVE  /\ RefX(x, s, i) \in -1 .. 15 /\ RefY(y, s, i) \in -1 .. 15
         /\ Sees(RefX(x, s, i), RefY(y, s, i), x, y)
              <=> Sees(ZoneX(x, s, ZoneOf(s, i)), ZoneY(y, s, ZoneOf(s, i)), x, y)
<1> DEFINE u == RefX(x, s, i)
           v == RefY(y, s, i)
           a == ZoneX(x, s, ZoneOf(s, i))
           b == ZoneY(y, s, ZoneOf(s, i))
<1>1. /\ x \in 0 .. 7 /\ y \in 0 .. 7 /\ s \in {1, 2, 4, 8}
      /\ x + s <= 8 /\ y + s <= 8
      /\ x > 0 => x - s \in PUs /\ (x - s) % s = 0
      /\ y > 0 => y - s \in PUs /\ (y - s) % s = 0
      /\ x + s < 8 => x + s \in PUs /\ (x + s) % s = 0
      /\ y + s < 8 => y + s \in PUs /\ (y + s) % s = 0
      /\ x \in PUs /\ y \in PUs /\ s \in Sizes /\ x % s = 0 /\ y % s = 0
  BY AlignedIs DEF AlignedAt
<1>2. /\ cx \in 0 .. TileWidth - 1 /\ OffsetX = 8 * cx /\ Width = 8 * TileWidth
      /\ TileWidth \in Nat \ {0}
  BY Offsets, CTUAssumption
<1>3. PUs = 0 .. 7
  BY DEF PUs, N, TOT_PUS_LINE
<1>4. u \in -1 .. 15 /\ v \in -1 .. 15
  BY <1>1 DEF RefX, RefY
<1> SUFFICES Sees(u, v, x, y) <=> Sees(a, b, x, y)
  BY <1>4
<1> HIDE DEF u, v, a, b
<1>5. CASE i < s
  <2>1. a = x - 1 /\ b = y + s /\ u = x - 1 /\ v \in y + s .. y + 2 * s - 1
    BY <1>1, <1>5 DEF u, v, a, b, ZoneX, ZoneY, ZoneOf, RefX, RefY
  <2>2. CASE x = 0
    BY <1>1, <2>1, <2>2 DEF Sees
  <2>3. CASE x > 0 /\ y + s < 8
    <3>1. /\ u \in PUs /\ v \in PUs /\ b \in PUs
          /\ InBlock(u, x - s, s) /\ InBlock(v, b, s) /\ InBlock(b, b, s)
      BY <1>1, <1>3, <2>1, <2>3 DEF InBlock
    <3>4. AlignedAt(x - s, b, s)
      BY <1>1, <2>1, <2>3 DEF AlignedAt
    <3>2. Z(u, v) < Z(x, y) <=> Z(x - s, b) < Z(x, y)
      BY <3>1, <3>4, BlockOrder
    <3>3. Z(u, b) < Z(x, y) <=> Z(x - s, b) < Z(x, y)
      BY <3>1, <3>4, BlockOrder
    <3> QED BY <1>3, <2>1, <3>1, <3>2, <3>3 DEF Sees
  <2>4. CASE x > 0 /\ y + s >= 8
    BY <1>1, <2>1, <2>4 DEF Sees
  <2> QED BY <1>1, <2>2, <2>3, <2>4
<1>6. CASE ~ (i < s) /\ i < 2 * s
  <2>1. a = x - 1 /\ b = y /\ u = x - 1 /\ v \in y .. y + s - 1
    BY <1>1, <1>6 DEF u, v, a, b, ZoneX, ZoneY, ZoneOf, RefX, RefY
  <2>2. CASE x = 0
    BY <1>1, <2>1, <2>2 DEF Sees
  <2>3. CASE x > 0
    <3>1. /\ u \in PUs /\ v \in PUs /\ b \in PUs
          /\ InBlock(u, x - s, s) /\ InBlock(v, b, s) /\ InBlock(b, b, s)
      BY <1>1, <1>3, <2>1, <2>3 DEF InBlock
    <3>4. AlignedAt(x - s, b, s)
      BY <1>1, <2>1, <2>3 DEF AlignedAt
    <3>2. Z(u, v) < Z(x, y) <=> Z(x - s, b) < Z(x, y)
      BY <3>1, <3>4, BlockOrder
    <3>3. Z(u, b) < Z(x, y) <=> Z(x - s, b) < Z(x, y)
      BY <3>1, <3>4, BlockOrder
    <3> QED BY <1>3, <2>1, <3>1, <3>2, <3>3 DEF Sees
  <2> QED BY <1>1, <2>2, <2>3
<1>7. CASE i = 2 * s
  <2>1. a = u /\ b = v
    BY <1>1, <1>7 DEF u, v, a, b, ZoneX, ZoneY, ZoneOf, RefX, RefY
  <2> QED BY <1>4, <2>1, Zenon
<1>8. CASE i > 2 * s /\ i < 3 * s + 1
  <2>1. a = x /\ b = y - 1 /\ u \in x .. x + s - 1 /\ v = y - 1
    BY <1>1, <1>8 DEF u, v, a, b, ZoneX, ZoneY, ZoneOf, RefX, RefY
  <2>2. CASE y = 0
    <3>1. OffsetX + u \in 0 .. Width - 1 /\ OffsetX + a \in 0 .. Width - 1
      BY <1>1, <1>2, <2>1
    <3> QED BY <2>1, <2>2, <3>1 DEF Sees
  <2>3. CASE y > 0
    <3>1. /\ u \in PUs /\ v \in PUs /\ a \in PUs
          /\ InBlock(u, a, s) /\ InBlock(v, y - s, s) /\ InBlock(a, a, s)
      BY <1>1, <1>3, <2>1, <2>3 DEF InBlock
    <3>4. AlignedAt(a, y - s, s)
      BY <1>1, <2>1, <2>3 DEF AlignedAt
    <3>2. Z(u, v) < Z(x, y) <=> Z(a, y - s) < Z(x, y)
      BY <3>1, <3>4, BlockOrder
    <3>3. Z(a, v) < Z(x, y) <=> Z(a, y - s) < Z(x, y)
      BY <3>1, <3>4, BlockOrder
    <3> QED BY <1>3, <2>1, <3>1, <3>2, <3>3 DEF Sees
  <2> QED BY <1>1, <2>2, <2>3
<1>9. CASE i >= 3 * s + 1
  <2>1. a = x + s /\ b = y - 1 /\ u \in x + s .. x + 2 * s - 1 /\ v = y - 1
    BY <1>1, <1>9 DEF u, v, a, b, ZoneX, ZoneY, ZoneOf, RefX, RefY
  <2>2. CASE y = 0
    <3>1. OffsetX + u \in 0 .. Width - 1 <=> OffsetX + a \in 0 .. Width - 1
      <4>1. CASE x + s < 8
        <5>1. x + 2 * s <= 8
          <6>1. AlignedAt(x + s, y, s)
            BY <1>1, <4>1 DEF AlignedAt
          <6>2. (x + s) + s <= 8
            BY <6>1, AlignedIs
          <6> QED BY <1>1, <6>2
        <5> QED BY <1>1, <1>2, <2>1, <5>1
      <4>2. CASE x + s = 8
        BY <1>1, <1>2, <2>1, <4>2
      <4> QED BY <1>1, <4>1, <4>2
    <3> QED BY <2>1, <2>2, <3>1 DEF Sees
  <2>3. CASE y > 0 /\ x + s < 8
    <3>1. /\ u \in 0 .. 15 /\ a \in PUs
      BY <1>1, <1>3, <2>1, <2>3
    <3>2. x + 2 * s <= 8
      <4>1. AlignedAt(x + s, y, s)
        BY <1>1, <2>3 DEF AlignedAt
      <4>2. (x + s) + s <= 8
        BY <4>1, AlignedIs
      <4> QED BY <1>1, <4>2
    <3>3. /\ u \in PUs /\ v \in PUs
          /\ InBlock(u, a, s) /\ InBlock(v, y - s, s) /\ InBlock(a, a, s)
      BY <1>1, <1>3, <2>1, <2>3, <3>2 DEF InBlock
    <3>6. AlignedAt(a, y - s, s)
      BY <1>1, <2>1, <2>3 DEF AlignedAt
    <3>4. Z(u, v) < Z(x, y) <=> Z(a, y - s) < Z(x, y)
      BY <3>1, <3>3, <3>6, BlockOrder
    <3>5. Z(a, v) < Z(x, y) <=> Z(a, y - s) < Z(x, y)
      BY <3>1, <3>3, <3>6, BlockOrder
    <3> QED BY <1>3, <2>1, <3>1, <3>3, <3>4, <3>5 DEF Sees
  <2>4. CASE y > 0 /\ x + s = 8
    BY <1>1, <2>1, <2>4 DEF Sees
  <2> QED BY <1>1, <2>2, <2>3, <2>4
<1> QED BY <1>1, <1>4, <1>5, <1>6, <1>7, <1>8, <1>9

(* The five flags answer for every sample of their zones.                  *)
LEMMA AvailIs ==
  ASSUME CountersOK, NEW x, NEW y, NEW s, AlignedAt(x, y, s)
  PROVE  /\ Avail(OffsetX + x, OffsetY + y, s) =
              <<Sees(x - 1, y + s, x, y), Sees(x - 1, y, x, y), Sees(x - 1, y - 1, x, y),
                Sees(x, y - 1, x, y), Sees(x + s, y - 1, x, y)>>
         /\ \A z \in 1 .. 5 : Avail(OffsetX + x, OffsetY + y, s)[z]
                                <=> Sees(ZoneX(x, s, z), ZoneY(y, s, z), x, y)
<1>1. x \in PUs /\ y \in PUs /\ x \in 0 .. 7 /\ y \in 0 .. 7 /\ s \in {1, 2, 4, 8}
      /\ x + s <= 8 /\ y + s <= 8
  BY AlignedIs DEF AlignedAt
<1>2. OffsetX \in Nat /\ OffsetY \in Nat
  BY Offsets, CTUAssumption
<1>3. /\ x - 1 \in -1 .. 15 /\ y - 1 \in -1 .. 15 /\ x \in -1 .. 15 /\ y \in -1 .. 15
      /\ x + s \in -1 .. 15 /\ y + s \in -1 .. 15
  BY <1>1
<1>4. /\ (OffsetX + x) - 1 = OffsetX + (x - 1) /\ (OffsetY + y) - 1 = OffsetY + (y - 1)
      /\ (OffsetX + x) + s = OffsetX + (x + s) /\ (OffsetY + y) + s = OffsetY + (y + s)
  BY <1>1, <1>2
<1> DEFINE At(u, v) == Decoded(<<OffsetX + u, OffsetY + v>>, OffsetX + x, OffsetY + y)
<1>5. \A u, v \in -1 .. 15 : At(u, v) = Sees(u, v, x, y)
  <2> TAKE u, v \in -1 .. 15
  <2>1. At(u, v) \in BOOLEAN /\ Sees(u, v, x, y) \in BOOLEAN
    BY DEF Decoded, Sees
  <2>2. At(u, v) <=> Sees(u, v, x, y)
    BY <1>1, DecodedIs
  <2> QED BY <2>1, <2>2
<1>6. Avail(OffsetX + x, OffsetY + y, s)
        = <<At(x - 1, y + s), At(x - 1, y), At(x - 1, y - 1), At(x, y - 1), At(x + s, y - 1)>>
  BY <1>4, Zenon DEF Avail
<1> HIDE DEF At
<1>7. /\ At(x - 1, y + s) = Sees(x - 1, y + s, x, y) /\ At(x - 1, y) = Sees(x - 1, y, x, y)
      /\ At(x - 1, y - 1) = Sees(x - 1, y - 1, x, y) /\ At(x, y - 1) = Sees(x, y - 1, x, y)
      /\ At(x + s, y - 1) = Sees(x + s, y - 1, x, y)
  BY <1>3, <1>5
<1>8. Avail(OffsetX + x, OffsetY + y, s) =
        <<Sees(x - 1, y + s, x, y), Sees(x - 1, y, x, y), Sees(x - 1, y - 1, x, y),
          Sees(x, y - 1, x, y), Sees(x + s, y - 1, x, y)>>
  BY <1>6, <1>7
<1>9. ASSUME NEW z \in 1 .. 5
      PROVE  Avail(OffsetX + x, OffsetY + y, s)[z]
               <=> Sees(ZoneX(x, s, z), ZoneY(y, s, z), x, y)
  <2>1. CASE z = 1
    BY <1>8, <2>1 DEF ZoneX, ZoneY
  <2>2. CASE z = 2
    BY <1>8, <2>2 DEF ZoneX, ZoneY
  <2>3. CASE z = 3
    BY <1>8, <2>3 DEF ZoneX, ZoneY
  <2>4. CASE z = 4
    BY <1>8, <2>4 DEF ZoneX, ZoneY
  <2>5. CASE z = 5
    BY <1>8, <2>5 DEF ZoneX, ZoneY
  <2> QED BY <2>1, <2>2, <2>3, <2>4, <2>5
<1> QED BY <1>8, <1>9

LEMMA RefIsRelative ==
  ASSUME CountersOK, NEW x, NEW y, NEW s, AlignedAt(x, y, s), NEW i \in 0 .. 4 * s
  PROVE  /\ RefX(OffsetX + x, s, i) = OffsetX + RefX(x, s, i)
         /\ RefY(OffsetY + y, s, i) = OffsetY + RefY(y, s, i)
<1>1. x \in 0 .. 7 /\ y \in 0 .. 7 /\ s \in {1, 2, 4, 8}
  BY AlignedIs
<1>2. OffsetX \in Nat /\ OffsetY \in Nat
  BY Offsets, CTUAssumption
<1> QED BY <1>1, <1>2 DEF RefX, RefY

LEMMA KnownIsValid ==
  ASSUME CountersOK, NEW x, NEW y, NEW s, AlignedAt(x, y, s)
  PROVE  Known(OffsetX + x, OffsetY + y, s)
           = InValid(Avail(OffsetX + x, OffsetY + y, s), s)
<1> DEFINE X == OffsetX + x
           Y == OffsetY + y
           valid == Avail(X, Y, s)
<1>1. x \in PUs /\ y \in PUs /\ s \in Sizes
  BY DEF AlignedAt
<1>2. ASSUME NEW i \in 0 .. 4 * s
      PROVE  Decoded(<<RefX(X, s, i), RefY(Y, s, i)>>, X, Y) <=> valid[ZoneOf(s, i)]
  <2> DEFINE u == RefX(x, s, i)
             v == RefY(y, s, i)
  <2>1. u \in -1 .. 15 /\ v \in -1 .. 15
        /\ (Sees(u, v, x, y)
              <=> Sees(ZoneX(x, s, ZoneOf(s, i)), ZoneY(y, s, ZoneOf(s, i)), x, y))
    BY ZoneIsSeen
  <2>2. RefX(X, s, i) = OffsetX + u /\ RefY(Y, s, i) = OffsetY + v
    BY RefIsRelative
  <2> HIDE DEF u, v
  <2>3. Decoded(<<OffsetX + u, OffsetY + v>>, X, Y) <=> Sees(u, v, x, y)
    BY <1>1, <2>1, DecodedIs
  <2>4. ZoneOf(s, i) \in 1 .. 5
    BY <1>1, Zones
  <2>5. valid[ZoneOf(s, i)]
          <=> Sees(ZoneX(x, s, ZoneOf(s, i)), ZoneY(y, s, ZoneOf(s, i)), x, y)
    BY <2>4, AvailIs
  <2> QED BY <2>1, <2>2, <2>3, <2>5
<1> HIDE DEF X, Y, valid
<1>3. Known(X, Y, s) = InValid(valid, s)
  BY <1>2 DEF Known, InValid
<1> QED BY <1>3 DEF X, Y, valid

-----------------------------------------------------------------------------
(* The samples a block sees are in the arrays and in the border buffer.    *)

Sample(p, u, v) == pic[p][OffsetY + v][OffsetX + u]

SamplesKept(p, x, y) ==
  \A u, v \in -1 .. 15 : Sees(u, v, x, y) =>
    IF v < 0 THEN refTop[p][OffsetX + u + 1] = Sample(p, u, v)
             ELSE rec[p][v][u] = Sample(p, u, v)

(* Then the references of the encoder are the decoder's.                   *)
LEMMA ReferencesAreDecoders ==
  ASSUME CountersOK, NEW p, NEW x, NEW y, NEW s, AlignedAt(x, y, s), SamplesKept(p, x, y)
  PROVE  GenReferenceSamplesIntra(p, x, y, s, Avail(OffsetX + x, OffsetY + y, s))
           = DecoderReferences(p, OffsetX + x, OffsetY + y, s)
<1> DEFINE X == OffsetX + x
           Y == OffsetY + y
           valid == Avail(X, Y, s)
           Left(r)  == IF r \in PUs THEN rec[p][r][x - 1] ELSE Stale
           Above(k) == IF y = 0 THEN refTop[p][OffsetX + x + k]
                       ELSE IF x - 1 + k \in PUs \cup {-1} THEN rec[p][y - 1][x - 1 + k]
                       ELSE Stale
           raw == [i \in 0 .. 4 * s |-> IF i < 2 * s THEN Left(y + 2 * s - 1 - i)
                                        ELSE Above(i - 2 * s)]
           D == PictureReferences(pic[p], X, Y, s)
           G == GenReferenceSamplesIntra(p, x, y, s, valid)
<1>1. G = IF \E z \in 1 .. 5 : valid[z] THEN SubstituteReference(raw, valid, s)
          ELSE [i \in 0 .. 4 * s |-> Grey]
  BY Zenon DEF GenReferenceSamplesIntra
<1>2. x \in PUs /\ y \in PUs /\ x \in 0 .. 7 /\ y \in 0 .. 7 /\ s \in {1, 2, 4, 8}
      /\ x + s <= 8 /\ y + s <= 8 /\ s \in Sizes /\ PUs = 0 .. 7
  BY AlignedIs DEF AlignedAt, PUs, N, TOT_PUS_LINE
<1>3. OffsetX \in Nat /\ OffsetY \in Nat
  BY Offsets, CTUAssumption
<1>4. Known(X, Y, s) = InValid(valid, s)
  BY KnownIsValid
<1>5. ASSUME NEW j \in Known(X, Y, s)
      PROVE  raw[j] = pic[p][RefY(Y, s, j)][RefX(X, s, j)]
  <2> DEFINE u == RefX(x, s, j)
             v == RefY(y, s, j)
  <2>1. j \in 0 .. 4 * s /\ Decoded(<<RefX(X, s, j), RefY(Y, s, j)>>, X, Y)
    BY DEF Known
  <2>2. u \in -1 .. 15 /\ v \in -1 .. 15
    BY <2>1, ZoneIsSeen
  <2>3. RefX(X, s, j) = OffsetX + u /\ RefY(Y, s, j) = OffsetY + v
    BY <2>1, RefIsRelative
  <2>4. Sees(u, v, x, y)
    BY <1>2, <2>1, <2>2, <2>3, DecodedIs
  <2>5. IF v < 0 THEN refTop[p][OffsetX + u + 1] = Sample(p, u, v)
                 ELSE rec[p][v][u] = Sample(p, u, v)
    BY <2>2, <2>4 DEF SamplesKept
  <2>6. v >= 0 => v \in 0 .. 7 /\ u \in -1 .. 7
    BY <2>2, <2>4 DEF Sees
  <2>7. raw[j] = IF v < 0 THEN refTop[p][OffsetX + u + 1] ELSE rec[p][v][u]
    <3>1. CASE j < 2 * s
      <4>1. u = x - 1 /\ v = y + 2 * s - 1 - j /\ v >= 0
        BY <1>2, <2>1, <3>1 DEF RefX, RefY
      <4>2. raw[j] = Left(v)
        BY <2>1, <3>1, <4>1
      <4> HIDE DEF u, v, raw
      <4> QED BY <1>2, <2>6, <4>1, <4>2
    <3>2. CASE j >= 2 * s
      <4>1. u = x - 1 + (j - 2 * s) /\ v = y - 1
        <5>1. CASE j = 2 * s
          BY <1>2, <5>1 DEF RefX, RefY
        <5>2. CASE j > 2 * s
          BY <1>2, <2>1, <5>2 DEF RefX, RefY
        <5> QED BY <2>1, <1>2, <3>2, <5>1, <5>2
      <4>2. raw[j] = Above(j - 2 * s)
        BY <1>2, <2>1, <3>2
      <4>3. OffsetX + x + (j - 2 * s) = OffsetX + u + 1
        BY <1>2, <1>3, <2>1, <4>1
      <4> HIDE DEF u, v, raw
      <4>4. CASE y = 0
        <5>1. v < 0
          BY <4>1, <4>4
        <5> QED BY <4>2, <4>3, <4>4, <5>1
      <4>5. CASE y # 0
        <5>1. v >= 0 /\ u \in PUs \cup {-1}
          BY <1>2, <2>6, <4>1, <4>5
        <5>2. ~ (v < 0)
          BY <2>2, <5>1
        <5> QED BY <4>1, <4>2, <4>5, <5>1, <5>2
      <4> QED BY <4>4, <4>5
    <3> QED BY <1>2, <2>1, <3>1, <3>2
  <2> HIDE DEF u, v, raw
  <2>8. raw[j] = Sample(p, u, v)
    BY <2>5, <2>7
  <2> QED BY <2>3, <2>8 DEF Sample
<1> HIDE DEF raw, G, valid, X, Y
<1>6. \A i \in 0 .. 4 * s : G[i] = D[i]
  <2> TAKE i \in 0 .. 4 * s
  <2>1. CASE \E z \in 1 .. 5 : valid[z]
    <3>1. PICK z \in 1 .. 5 : valid[z]
      BY <2>1
    <3>2. InitRefPointers(s)[z] \in InValid(valid, s)
      <4> DEFINE o == InitRefPointers(s)
      <4>1. o[z] \in 0 .. 4 * s /\ ZoneOf(s, o[z]) = z
        <5>1. /\ o[z] \in 0 .. 4 * s /\ o[z + 1] \in Int /\ o[z] < o[z + 1]
              /\ \A k \in 0 .. 4 * s : o[z] <= k /\ k < o[z + 1] <=> ZoneOf(s, k) = z
          BY <1>2, Zones
        <5>2. o[z] <= o[z]
          BY <1>2, <5>1
        <5> HIDE DEF o
        <5> QED BY <5>1, <5>2
      <4> HIDE DEF o
      <4> QED BY <3>1, <4>1 DEF InValid, o
    <3>3. Known(X, Y, s) \subseteq 0 .. 4 * s /\ 4 * s \in Nat
      BY <1>2 DEF Known
    <3>4. PICK j \in Known(X, Y, s) : Nearest(Known(X, Y, s), i, j)
      BY <1>4, <3>2, <3>3, NearestExists
    <3>5. D[i] = pic[p][RefY(Y, s, j)][RefX(X, s, j)]
      BY <1>2, <3>4, PictureReferencesAre
    <3>6. SubstituteReference(raw, valid, s)[i] = raw[j]
      BY <1>2, <1>4, <3>1, <3>4, Substituted
    <3> QED BY <1>1, <1>5, <2>1, <3>5, <3>6
  <2>2. CASE ~ \E z \in 1 .. 5 : valid[z]
    <3>1. Known(X, Y, s) = {}
      <4>1. \A k \in 0 .. 4 * s : ~ valid[ZoneOf(s, k)]
        BY <1>2, <2>2, Zones
      <4> QED BY <1>4, <4>1 DEF InValid
    <3>2. D[i] = Grey
      BY <1>2, <3>1, PictureReferencesAre
    <3> QED BY <1>1, <2>2, <3>2
  <2> QED BY <2>1, <2>2
<1>7. D = [i \in 0 .. 4 * s |-> D[i]]
  BY DEF PictureReferences
<1>8. G = [i \in 0 .. 4 * s |-> G[i]]
  <2>1. CASE \E z \in 1 .. 5 : valid[z]
    BY <1>1, <1>2, <2>1, Substituted
  <2>2. CASE ~ \E z \in 1 .. 5 : valid[z]
    BY <1>1, <2>2
  <2> QED BY <2>1, <2>2
<1> HIDE DEF D
<1>9. G = D
  BY <1>6, <1>7, <1>8
<1> QED BY <1>9, DecoderReferencesAre DEF D, G, X, Y, valid

-----------------------------------------------------------------------------
(* What the invariant says of the block that is next.                      *)

LEMMA Place ==
  ASSUME CountersOK
  PROVE  /\ cx \in 0 .. TileWidth - 1 /\ cy \in 0 .. TileHeight - 1
         /\ OffsetX = 8 * cx /\ OffsetY = 8 * cy
         /\ Width = 8 * TileWidth /\ Height = 8 * TileHeight
         /\ TileWidth \in Nat \ {0} /\ TileHeight \in Nat \ {0}
         /\ OffsetX \in Nat /\ OffsetY \in Nat
         /\ PUs = 0 .. 7 /\ N = 8
BY Offsets, CTUAssumption DEF PUs, N, TOT_PUS_LINE

LEMMA BorderSamples ==
  ASSUME CountersOK, LeftOK, RefTopOK, pc \in Searching \cup {"CompressChromaCU"},
         NEW p \in Planes, NEW x \in PUs, NEW y \in PUs,
         \A u, v \in PUs : Z(u, v) < Z(x, y) => Kept(p, u, v)
  PROVE  SamplesKept(p, x, y)
<1> SUFFICES ASSUME NEW u \in -1 .. 15, NEW v \in -1 .. 15, Sees(u, v, x, y)
             PROVE  IF v < 0 THEN refTop[p][OffsetX + u + 1] = Sample(p, u, v)
                    ELSE rec[p][v][u] = Sample(p, u, v)
  BY DEF SamplesKept
<1>1. /\ cx \in 0 .. TileWidth - 1 /\ cy \in 0 .. TileHeight - 1
      /\ OffsetX = 8 * cx /\ OffsetY = 8 * cy
      /\ Width = 8 * TileWidth /\ TileWidth \in Nat /\ PUs = 0 .. 7
  BY Place
<1>2. pc \notin {"InitBuffersNewTile", "Done", "PrepareCTU"}
  BY DEF Searching
<1>3. CASE v < 0
  <2>1. v = -1 /\ cy > 0 /\ OffsetX + u \in 0 .. Width - 1
    BY <1>3 DEF Sees
  <2>2. RowAbove(p, OffsetX + u + 1)
    <3>1. CASE u = -1
      <4>1. cx > 0
        BY <1>1, <2>1, <3>1
      <4>2. OffsetX + u + 1 = OffsetX
        BY <1>1, <3>1
      <4>3. RowAbove(p, OffsetX)
        BY <1>2, <2>1, <4>1 DEF RefTopOK
      <4> QED BY <4>2, <4>3
    <3>2. CASE u # -1
      <4>1. OffsetX + u + 1 \in OffsetX + 1 .. Width
        BY <1>1, <2>1, <3>2
      <4> QED BY <1>2, <2>1, <4>1 DEF RefTopOK
    <3> QED BY <3>1, <3>2
  <2>3. (OffsetX + u + 1) - 1 = OffsetX + u /\ OffsetY - 1 = OffsetY + v
    BY <1>1, <2>1
  <2>4. refTop[p][OffsetX + u + 1] = pic[p][OffsetY + v][OffsetX + u]
    <3>1. refTop[p][OffsetX + u + 1] = pic[p][OffsetY - 1][(OffsetX + u + 1) - 1]
      BY <2>2, Zenon DEF RowAbove
    <3> QED BY <2>3, <3>1, Zenon
  <2> QED BY <1>3, <2>4 DEF Sample
<1>4. CASE ~ (v < 0) /\ u < 0
  <2>1. cx > 0 /\ v \in PUs /\ u = -1
    BY <1>1, <1>4 DEF Sees
  <2>2. rec[p][v][-1] = pic[p][OffsetY + v][OffsetX - 1]
    BY <1>2, <2>1 DEF LeftOK
  <2>3. OffsetX + u = OffsetX - 1
    BY <1>1, <2>1
  <2> QED BY <1>4, <2>1, <2>2, <2>3 DEF Sample
<1>5. CASE ~ (v < 0) /\ ~ (u < 0)
  <2>1. u \in PUs /\ v \in PUs /\ Z(u, v) < Z(x, y)
    BY <1>1, <1>5 DEF Sees
  <2>2. Kept(p, u, v)
    BY <2>1
  <2> QED BY <1>5, <2>2 DEF Sample, Kept
<1> QED BY <1>3, <1>4, <1>5

(* The availability array follows the decoding order while the CU at (x, y) *)
(* tests its modes.                                                        *)
LEMMA NeighboursAre ==
  ASSUME CountersOK, SearchRefOK, LeftOK, AboveOK, PicOK, pc = "TestModes",
         cu.x \in PUs, cu.y \in PUs,
         NEW u \in -1 .. 8, NEW v \in -1 .. 8
  PROVE  /\ neighMode[v + 1][u + 1] # INVALID_MODE <=> Sees(u, v, cu.x, cu.y)
         /\ v >= 0 /\ Sees(u, v, cu.x, cu.y) => neighMode[v + 1][u + 1] = Sample("Y", u, v)
<1>1. /\ cx \in 0 .. TileWidth - 1 /\ cy \in 0 .. TileHeight - 1
      /\ OffsetX = 8 * cx /\ OffsetY = 8 * cy
      /\ Width = 8 * TileWidth /\ Height = 8 * TileHeight
      /\ TileWidth \in Nat \ {0} /\ TileHeight \in Nat \ {0} /\ PUs = 0 .. 7 /\ N = 8
  BY Place
<1>2. pc \notin {"InitBuffersNewTile", "Done", "PrepareCTU"} /\ InCTU
  BY DEF InCTU
<1>3. Lo = Z(cu.x, cu.y) /\ Hi = Z(cu.x, cu.y)
  BY DEF Lo, Hi
<1>4. CASE v = -1
  <2>1. v + 1 = 0 /\ v < 0
    BY <1>4
  <2>2. CASE u = -1
    <3>1. u + 1 = 0 /\ (OffsetX + u \in 0 .. Width - 1 <=> cx > 0)
      BY <1>1, <2>2
    <3> QED BY <1>2, <2>1, <3>1 DEF AboveOK, Sees
  <2>3. CASE u = 8
    <3>1. u + 1 = N + 1 /\ (OffsetX + u \in 0 .. Width - 1 <=> cx < TileWidth - 1)
      BY <1>1, <2>3
    <3> QED BY <1>2, <2>1, <3>1 DEF AboveOK, Sees
  <2>4. CASE u \in 0 .. 7
    <3>1. u + 1 \in 1 .. N /\ OffsetX + u \in 0 .. Width - 1
      BY <1>1, <2>4
    <3> QED BY <1>2, <2>1, <3>1 DEF AboveOK, Sees
  <2> QED BY <2>2, <2>3, <2>4
<1>5. CASE v = 8
  <2>1. v + 1 = N + 1 /\ u + 1 \in 0 .. N + 1 /\ ~ Sees(u, v, cu.x, cu.y)
    BY <1>1, <1>5 DEF Sees
  <2> QED BY <1>2, <2>1 DEF LeftOK
<1>6. CASE v \in 0 .. 7 /\ u = -1
  <2>1. u + 1 = 0 /\ v \in PUs /\ (Sees(u, v, cu.x, cu.y) <=> cx > 0)
    BY <1>1, <1>6 DEF Sees
  <2>2. CASE cx > 0
    <3>1. neighMode[v + 1][0] = pic["Y"][OffsetY + v][OffsetX - 1]
      BY <1>2, <2>1, <2>2 DEF LeftOK
    <3>2. OffsetY + v \in 0 .. Height - 1 /\ OffsetX - 1 \in 0 .. Width - 1
          /\ OffsetX - 1 = OffsetX + u
      BY <1>1, <1>6, <2>2
    <3> QED BY <2>1, <2>2, <3>1, <3>2 DEF PicOK, Sample
  <2>3. CASE ~ (cx > 0)
    <3>1. cx = 0
      BY <1>1, <2>3
    <3> QED BY <1>2, <2>1, <3>1 DEF LeftOK
  <2> QED BY <2>2, <2>3
<1>7. CASE v \in 0 .. 7 /\ u = 8
  <2>1. u + 1 = N + 1 /\ v + 1 \in 1 .. N + 1 /\ ~ Sees(u, v, cu.x, cu.y)
    BY <1>1, <1>7 DEF Sees
  <2> QED BY <1>2, <2>1 DEF LeftOK
<1>8. CASE v \in 0 .. 7 /\ u \in 0 .. 7
  <2>1. u \in PUs /\ v \in PUs /\ (Sees(u, v, cu.x, cu.y) <=> Z(u, v) < Z(cu.x, cu.y))
    BY <1>1, <1>8 DEF Sees
  <2>2. CASE Z(u, v) < Z(cu.x, cu.y)
    <3>1. neighMode[v + 1][u + 1] = pic["Y"][OffsetY + v][OffsetX + u]
      BY <1>2, <1>3, <2>1, <2>2 DEF SearchRefOK, PUDone
    <3>2. OffsetY + v \in 0 .. Height - 1 /\ OffsetX + u \in 0 .. Width - 1
      BY <1>1, <1>8
    <3> QED BY <2>1, <2>2, <3>1, <3>2 DEF PicOK, Sample
  <2>3. CASE ~ (Z(u, v) < Z(cu.x, cu.y))
    <3>1. neighMode[v + 1][u + 1] = INVALID_MODE
      <4>1. Z(cu.x, cu.y) \in 0 .. 63
        BY ZIs
      <4>2. Z(u, v) \in 0 .. 63
        BY <2>1, ZIs
      <4>3. Z(u, v) >= Hi
        BY <1>3, <2>3, <4>1, <4>2
      <4> QED BY <1>2, <2>1, <4>3 DEF SearchRefOK
    <3> QED BY <2>1, <2>3, <3>1
  <2> QED BY <2>2, <2>3
<1>9. v = -1 \/ v = 8 \/ (v \in 0 .. 7 /\ (u = -1 \/ u = 8 \/ u \in 0 .. 7))
  OBVIOUS
<1> QED BY <1>4, <1>5, <1>6, <1>7, <1>8, <1>9

(* What TestModes finds is what the decoder derives.                       *)
LEMMA TestModesFinds ==
  ASSUME CountersOK, SearchRefOK, LeftOK, AboveOK, RefTopOK, PicOK, pc = "TestModes",
         NEW x, NEW y, NEW s, x = cu.x, y = cu.y, AlignedAt(x, y, s)
  PROVE  /\ CheckNeighAvail(x, y, s) = Avail(OffsetX + x, OffsetY + y, s)
         /\ GetCandModeListIntra(x, y) = DecoderCandidates(OffsetX + x, OffsetY + y)
         /\ GenReferenceSamplesIntra("Y", x, y, s, CheckNeighAvail(x, y, s))
              = DecoderReferences("Y", OffsetX + x, OffsetY + y, s)
<1>1. /\ x \in PUs /\ y \in PUs /\ x \in 0 .. 7 /\ y \in 0 .. 7 /\ s \in {1, 2, 4, 8}
      /\ x + s <= 8 /\ y + s <= 8
  BY AlignedIs DEF AlignedAt
<1>2. /\ OffsetX = 8 * cx /\ OffsetY = 8 * cy /\ cx \in Nat /\ cy \in Nat
      /\ OffsetX \in Nat /\ OffsetY \in Nat /\ N = 8
  BY Place
<1>3. ASSUME NEW u \in -1 .. 8, NEW v \in -1 .. 8
      PROVE  /\ (neighMode[v + 1][u + 1] # INVALID_MODE) = Sees(u, v, x, y)
             /\ v >= 0 /\ Sees(u, v, x, y) => neighMode[v + 1][u + 1] = Sample("Y", u, v)
  <2>1. cu.x \in PUs /\ cu.y \in PUs
    BY <1>1
  <2>2. /\ neighMode[v + 1][u + 1] # INVALID_MODE <=> Sees(u, v, cu.x, cu.y)
        /\ v >= 0 /\ Sees(u, v, cu.x, cu.y) => neighMode[v + 1][u + 1] = Sample("Y", u, v)
    BY <2>1, NeighboursAre
  <2>3. Sees(u, v, x, y) \in BOOLEAN
    BY DEF Sees
  <2> QED BY <2>2, <2>3
<1>4. CheckNeighAvail(x, y, s) = Avail(OffsetX + x, OffsetY + y, s)
  <2> DEFINE V(u, v) == neighMode[v + 1][u + 1] # INVALID_MODE
  <2>1. /\ (y + s) + 1 = y + 1 + s /\ (x - 1) + 1 = x /\ (y - 1) + 1 = y
        /\ (x + s) + 1 = x + 1 + s
    BY <1>1
  <2>2. CheckNeighAvail(x, y, s)
          = <<V(x - 1, y + s), V(x - 1, y), V(x - 1, y - 1), V(x, y - 1), V(x + s, y - 1)>>
    BY <2>1, Zenon DEF CheckNeighAvail
  <2> HIDE DEF V
  <2>3. /\ x - 1 \in -1 .. 8 /\ y - 1 \in -1 .. 8 /\ x \in -1 .. 8 /\ y \in -1 .. 8
        /\ x + s \in -1 .. 8 /\ y + s \in -1 .. 8
    BY <1>1
  <2>4. \A u, v \in -1 .. 8 : V(u, v) = Sees(u, v, x, y)
    BY <1>3 DEF V
  <2>5. /\ V(x - 1, y + s) = Sees(x - 1, y + s, x, y) /\ V(x - 1, y) = Sees(x - 1, y, x, y)
        /\ V(x - 1, y - 1) = Sees(x - 1, y - 1, x, y) /\ V(x, y - 1) = Sees(x, y - 1, x, y)
        /\ V(x + s, y - 1) = Sees(x + s, y - 1, x, y)
    BY <2>3, <2>4
  <2> QED BY <2>2, <2>5, AvailIs
<1>5. GetCandModeListIntra(x, y) = DecoderCandidates(OffsetX + x, OffsetY + y)
  <2> DEFINE X == OffsetX + x
             Y == OffsetY + y
             left == IF neighMode[y + 1][x] = INVALID_MODE THEN DC_MODE
                     ELSE neighMode[y + 1][x]
             top  == IF neighMode[y][x + 1] = INVALID_MODE \/ y = 0 THEN DC_MODE
                     ELSE neighMode[y][x + 1]
  <2>1. GetCandModeListIntra(x, y) = <<left, top>>
    BY Zenon DEF GetCandModeListIntra
  <2>2. /\ x - 1 \in -1 .. 8 /\ y - 1 \in -1 .. 8 /\ x \in -1 .. 8 /\ y \in -1 .. 8
        /\ (x - 1) + 1 = x /\ (y - 1) + 1 = y
        /\ X - 1 = OffsetX + (x - 1) /\ Y - 1 = OffsetY + (y - 1)
        /\ x - 1 \in -1 .. 15 /\ y - 1 \in -1 .. 15 /\ x \in -1 .. 15 /\ y \in -1 .. 15
    BY <1>1, <1>2
  <2>3. /\ Decoded(<<X - 1, Y>>, X, Y) <=> Sees(x - 1, y, x, y)
        /\ Decoded(<<X, Y - 1>>, X, Y) <=> Sees(x, y - 1, x, y)
    BY <1>1, <2>2, DecodedIs
  <2>4. left = IF Decoded(<<X - 1, Y>>, X, Y) THEN pic["Y"][Y][X - 1] ELSE DC_MODE
    <3>1. /\ (neighMode[y + 1][(x - 1) + 1] # INVALID_MODE) = Sees(x - 1, y, x, y)
          /\ y >= 0 /\ Sees(x - 1, y, x, y)
               => neighMode[y + 1][(x - 1) + 1] = Sample("Y", x - 1, y)
      BY <1>3, <2>2
    <3>2. Sample("Y", x - 1, y) = pic["Y"][Y][X - 1]
      BY <2>2 DEF Sample
    <3>3. neighMode[y + 1][(x - 1) + 1] = neighMode[y + 1][x]
      BY <2>2
    <3>4. y >= 0
      BY <1>1
    <3> HIDE DEF X, Y
    <3> QED BY <2>3, <3>1, <3>2, <3>3, <3>4
  <2>5. top = IF Decoded(<<X, Y - 1>>, X, Y) /\ Y % N # 0 THEN pic["Y"][Y - 1][X] ELSE DC_MODE
    <3>1. /\ (neighMode[(y - 1) + 1][x + 1] # INVALID_MODE) = Sees(x, y - 1, x, y)
          /\ y - 1 >= 0 /\ Sees(x, y - 1, x, y)
               => neighMode[(y - 1) + 1][x + 1] = Sample("Y", x, y - 1)
      BY <1>3, <2>2
    <3>2. Sample("Y", x, y - 1) = pic["Y"][Y - 1][X]
      BY <2>2 DEF Sample
    <3>3. neighMode[(y - 1) + 1][x + 1] = neighMode[y][x + 1]
      BY <2>2
    <3>4. Y % N # 0 <=> y # 0
      <4>1. (8 * cy + y) % 8 = y
        BY <1>1, <1>2
      <4> QED BY <1>2, <4>1
    <3>5. y # 0 => y - 1 >= 0
      BY <1>1
    <3> HIDE DEF X, Y
    <3> QED BY <2>3, <3>1, <3>2, <3>3, <3>4, <3>5
  <2> HIDE DEF left, top
  <2>6. DecoderCandidates(X, Y) = <<left, top>>
    BY <2>4, <2>5, Zenon DEF DecoderCandidates
  <2> QED BY <2>1, <2>6
<1>6. SamplesKept("Y", x, y)
  <2>1. \A u, v \in PUs : Z(u, v) < Z(x, y) => Kept("Y", u, v)
    <3>1. Lo = Z(x, y)
      BY DEF Lo
    <3> QED BY <3>1 DEF SearchRefOK, PUDone
  <2>2. pc \in Searching \cup {"CompressChromaCU"} /\ "Y" \in Planes
    BY DEF Searching, Planes
  <2> QED BY <1>1, <2>1, <2>2, BorderSamples
<1>7. GenReferenceSamplesIntra("Y", x, y, s, Avail(OffsetX + x, OffsetY + y, s))
        = DecoderReferences("Y", OffsetX + x, OffsetY + y, s)
  BY <1>6, ReferencesAreDecoders
<1> QED BY <1>4, <1>5, <1>7

LEMMA DecoderCandidatesSame ==
  ASSUME NEW X, NEW Y,
         \A at : Decoded(at, X, Y) => pic'["Y"][at[2]][at[1]] = pic["Y"][at[2]][at[1]]
  PROVE  DecoderCandidates(X, Y)' = DecoderCandidates(X, Y)
<1>1. /\ Decoded(<<X - 1, Y>>, X, Y) => pic'["Y"][Y][X - 1] = pic["Y"][Y][X - 1]
      /\ Decoded(<<X, Y - 1>>, X, Y) => pic'["Y"][Y - 1][X] = pic["Y"][Y - 1][X]
  OBVIOUS
<1> QED BY <1>1 DEF DecoderCandidates

-----------------------------------------------------------------------------
(* The place of a block in the decoding order, and of its parts.           *)

LEMMA SameCTU ==
  ASSUME UNCHANGED ctu
  PROVE  /\ UNCHANGED <<cx, cy, OffsetX, OffsetY>>
         /\ Width' = Width /\ Height' = Height
BY DEF cx, cy, OffsetX, OffsetY, Width, Height

LEMMA ZPart ==
  ASSUME NEW c \in Activation, c.size > 1, Aligned(c), NEW k \in 0 .. 3
  PROVE  /\ Part(c, k).size \in {1, 2, 4} /\ c.size = 2 * Part(c, k).size
         /\ c.size \div 2 = Part(c, k).size
         /\ Part(c, k).x \in PUs /\ Part(c, k).y \in PUs
         /\ Z(Part(c, k).x, Part(c, k).y)
              = Z(c.x, c.y) + k * (Part(c, k).size * Part(c, k).size)
<1>1. PICK x, y, s, h, a, b :
        /\ x = c.x /\ y = c.y /\ s = c.size
        /\ h = Part(c, k).size /\ a = Part(c, k).x /\ b = Part(c, k).y
  OBVIOUS
<1>2. /\ h \in {1, 2, 4} /\ s = 2 * h
      /\ a = x + (IF k \in {0, 2} THEN 0 ELSE h)
      /\ b = y + (IF k \in {0, 1} THEN 0 ELSE h)
  BY <1>1, PartPlace
<1>3. a \in PUs /\ b \in PUs /\ x \in PUs /\ y \in PUs
  <2>1. Part(c, k) \in Activation
    BY PartInside
  <2> QED BY <1>1, <2>1 DEF Activation
<1>4. x % s = 0 /\ y % s = 0
  BY <1>1 DEF Aligned
<1>5. /\ Z(x, y) = (x % 2) + 2 * (y % 2) + 4 * ((x \div 2) % 2) + 8 * ((y \div 2) % 2)
                   + 16 * ((x \div 4) % 2) + 32 * ((y \div 4) % 2)
      /\ Z(a, b) = (a % 2) + 2 * (b % 2) + 4 * ((a \div 2) % 2) + 8 * ((b \div 2) % 2)
                   + 16 * ((a \div 4) % 2) + 32 * ((b \div 4) % 2)
  BY <1>3, ZIs
<1>6. x \in 0 .. 7 /\ y \in 0 .. 7 /\ a \in 0 .. 7 /\ b \in 0 .. 7
  BY <1>3 DEF PUs, N, TOT_PUS_LINE
<1>7. Z(a, b) = Z(x, y) + k * (h * h)
  <2>1. CASE h = 1
    BY <1>2, <1>4, <1>5, <1>6, <2>1
  <2>2. CASE h = 2
    BY <1>2, <1>4, <1>5, <1>6, <2>2
  <2>3. CASE h = 4
    BY <1>2, <1>4, <1>5, <1>6, <2>3
  <2> QED BY <1>2, <2>1, <2>2, <2>3
<1>8. s \div 2 = h
  BY <1>2
<1> QED BY <1>1, <1>2, <1>3, <1>7, <1>8

(* The count of 4x4 blocks is the place in the decoding order. *)
LEMMA ZDisp ==
  ASSUME NEW t \in 0 .. 63
  PROVE  Z(Column(t), Row(t)) = t
<1> DEFINE x == Column(t)
           y == Row(t)
<1>1. /\ x = (t % 2) + 2 * ((t \div 4) % 2) + 4 * ((t \div 16) % 2)
      /\ y = ((t \div 2) % 2) + 2 * ((t \div 8) % 2) + 4 * ((t \div 32) % 2)
      /\ x \in PUs /\ y \in PUs
  BY Disp
<1>2. Z(x, y) = (x % 2) + 2 * (y % 2) + 4 * ((x \div 2) % 2) + 8 * ((y \div 2) % 2)
                + 16 * ((x \div 4) % 2) + 32 * ((y \div 4) % 2)
  BY <1>1, ZIs
<1> HIDE DEF x, y
<1>3. /\ x % 2 = t % 2 /\ (x \div 2) % 2 = (t \div 4) % 2 /\ (x \div 4) % 2 = (t \div 16) % 2
      /\ y % 2 = (t \div 2) % 2 /\ (y \div 2) % 2 = (t \div 8) % 2
      /\ (y \div 4) % 2 = (t \div 32) % 2
  BY <1>1
<1>4. t = (t % 2) + 2 * ((t \div 2) % 2) + 4 * ((t \div 4) % 2) + 8 * ((t \div 8) % 2)
          + 16 * ((t \div 16) % 2) + 32 * ((t \div 32) % 2)
  <2>1. t = 2 * (t \div 2) + (t % 2) /\ t \div 2 = 2 * (t \div 4) + ((t \div 2) % 2)
    OBVIOUS
  <2>2. t \div 4 = 2 * (t \div 8) + ((t \div 4) % 2) /\ t \div 8 = 2 * (t \div 16) + ((t \div 8) % 2)
    OBVIOUS
  <2>3. t \div 16 = 2 * (t \div 32) + ((t \div 16) % 2) /\ t \div 32 = (t \div 32) % 2
    OBVIOUS
  <2> QED BY <2>1, <2>2, <2>3
<1>5. Z(x, y) = t
  <2>1. Z(x, y) = (t % 2) + 2 * ((t \div 2) % 2) + 4 * ((t \div 4) % 2) + 8 * ((t \div 8) % 2)
                  + 16 * ((t \div 16) % 2) + 32 * ((t \div 32) % 2)
    BY <1>2, <1>3
  <2> QED BY <1>4, <2>1
<1> QED BY <1>5 DEF x, y

LEMMA DispZ ==
  ASSUME NEW u \in PUs, NEW v \in PUs
  PROVE  Column(Z(u, v)) = u /\ Row(Z(u, v)) = v
<1>1. PICK t \in 0 .. 63 : Column(t) = u /\ Row(t) = v
  BY DispOnto
<1>2. Z(u, v) = t
  BY <1>1, ZDisp
<1> QED BY <1>1, <1>2

(* The activations below the innermost one are of larger CUs. *)
LEMMA SizesDiffer ==
  ASSUME StackOK, NEW k \in DOMAIN stack, NEW m \in DOMAIN stack, k # m
  PROVE  stack[k].size # stack[m].size
<1>1. /\ k \in 1 .. 4 /\ stack[k].size = N \div 2 ^ (k - 1)
      /\ m \in 1 .. 4 /\ stack[m].size = N \div 2 ^ (m - 1)
  BY StackSizes
<1>2. N = 8
  BY DEF N, TOT_PUS_LINE
<1>3. 2 ^ 0 = 1 /\ 2 ^ 1 = 2 /\ 2 ^ 2 = 4 /\ 2 ^ 3 = 8
  OBVIOUS
<1> DEFINE Size(j) == IF j = 1 THEN 8 ELSE IF j = 2 THEN 4 ELSE IF j = 3 THEN 2 ELSE 1
<1>4. \A j \in 1 .. 4 : 8 \div 2 ^ (j - 1) = Size(j)
  <2> SUFFICES ASSUME NEW j \in 1 .. 4 PROVE 8 \div 2 ^ (j - 1) = Size(j)
    OBVIOUS
  <2>1. CASE j = 1
    BY <1>3, <2>1
  <2>2. CASE j = 2
    BY <1>3, <2>2
  <2>3. CASE j = 3
    BY <1>3, <2>3
  <2>4. CASE j = 4
    BY <1>3, <2>4
  <2> QED BY <2>1, <2>2, <2>3, <2>4
<1>5. stack[k].size = Size(k) /\ stack[m].size = Size(m)
  BY <1>1, <1>2, <1>4
<1>6. Size(k) # Size(m)
  BY <1>1
<1> QED BY <1>5, <1>6

-----------------------------------------------------------------------------
(* What steps leave alone.                                                 *)

LEMMA PUDoneSame ==
  ASSUME UNCHANGED <<ctu, neighMode, infoL>>, rec'["Y"] = rec["Y"], pic'["Y"] = pic["Y"],
         NEW x, NEW y, PUDone(x, y)
  PROVE  PUDone(x, y)'
<1>1. UNCHANGED <<OffsetX, OffsetY>>
  BY SameCTU
<1>2. SizeAt(x, y)' = SizeAt(x, y)
  BY DEF SizeAt
<1>3. PICK s : s = SizeAt(x, y)
  OBVIOUS
<1>4. PICK X, Y : X = OffsetX + Start(x, s) /\ Y = OffsetY + Start(y, s)
  OBVIOUS
<1>5. (OffsetX + Start(x, s))' = X /\ (OffsetY + Start(y, s))' = Y
  BY <1>1, <1>4 DEF Start
<1>6. infoL[y + 1][x + 1].valid = Avail(X, Y, s)
  BY <1>3, <1>4 DEF PUDone
<1>7. Avail(X, Y, s)' = Avail(X, Y, s)
  BY DEF Avail, Decoded, Order, Z, Width, Height
<1>8. infoL'[y + 1][x + 1].valid = Avail(X, Y, s)'
  BY <1>6, <1>7
<1> QED BY <1>1, <1>2, <1>3, <1>5, <1>8 DEF PUDone, Kept

LEMMA ChromaRefSame ==
  ASSUME ChromaRefOK, UNCHANGED refC, pic'["C"] = pic["C"]
  PROVE  ChromaRefOK'
<1>1. PICK X, Y, s : X = refC.x /\ Y = refC.y /\ s = refC.size
  OBVIOUS
<1>2. DecoderReferences("C", X, Y, s)' = DecoderReferences("C", X, Y, s)
  BY DecoderReferencesAre
<1>3. s > 0 => refC.ref = DecoderReferences("C", X, Y, s)
  BY <1>1 DEF ChromaRefOK
<1>4. refC'.x = X /\ refC'.y = Y /\ refC'.size = s /\ refC'.ref = refC.ref
  BY <1>1
<1>5. refC'.size > 0 => refC'.ref = DecoderReferences("C", X, Y, s)'
  BY <1>2, <1>3, <1>4
<1> QED BY <1>4, <1>5 DEF ChromaRefOK

(* What an activation found stays right while no sample before it changes. *)
LEMMA TestedSame ==
  ASSUME NEW c, Tested(c), c.size \in Sizes, UNCHANGED ctu,
         tempPred'[c.size] = tempPred[c.size],
         \A at : Decoded(at, OffsetX + c.x, OffsetY + c.y)
           => pic'["Y"][at[2]][at[1]] = pic["Y"][at[2]][at[1]]
  PROVE  Tested(c)'
<1>1. PICK X, Y, s : X = OffsetX + c.x /\ Y = OffsetY + c.y /\ s = c.size
  OBVIOUS
<1>2. (OffsetX + c.x)' = X /\ (OffsetY + c.y)' = Y
  BY <1>1, SameCTU
<1>3. DecoderReferences("Y", X, Y, s)' = DecoderReferences("Y", X, Y, s)
  BY <1>1, DecoderReferencesSame
<1>4. DecoderCandidates(X, Y)' = DecoderCandidates(X, Y)
  BY <1>1, DecoderCandidatesSame
<1>5. /\ tempPred[s] = DecoderReferences("Y", X, Y, s)
      /\ c.cand = DecoderCandidates(X, Y)
      /\ c.valid = Avail(X, Y, s)
  BY <1>1 DEF Tested
<1>6. Avail(X, Y, s)' = Avail(X, Y, s)
  BY DEF Avail, Decoded, Order, Z, Width, Height
<1>7. /\ tempPred'[s] = DecoderReferences("Y", X, Y, s)'
      /\ c.cand = DecoderCandidates(X, Y)'
      /\ c.valid = Avail(X, Y, s)'
  BY <1>1, <1>3, <1>4, <1>5, <1>6
<1> QED BY <1>1, <1>2, <1>7 DEF Tested

(* The other parts, over the steps of the search and of the syntax.        *)
LEMMA ArraysSame ==
  ASSUME LeftOK, AboveOK, RefTopOK, PicOK, ChromaRefOK,
         UNCHANGED <<ctu, neighMode, infoL, rec, refTop, savedLT, refC, pic>>,
         \/ pc \in Searching /\ pc' \in Searching \cup {"CompressChromaCU"}
         \/ pc \in CTUCoded /\ pc' \in CTUCoded
  PROVE  /\ LeftOK' /\ AboveOK' /\ RefTopOK' /\ PicOK' /\ ChromaRefOK'
         /\ \A x, y \in PUs : PUDone(x, y) => PUDone(x, y)'
<1>1. UNCHANGED <<cx, cy, OffsetX, OffsetY>> /\ Width' = Width /\ Height' = Height
  BY SameCTU
<1>2. /\ pc \notin {"InitBuffersNewTile", "Done", "PrepareCTU"} /\ InCTU
      /\ pc' \notin {"InitBuffersNewTile", "Done", "PrepareCTU"} /\ InCTU'
  BY DEF Searching, CTUCoded, InCTU
<1>3. /\ pc' \in Searching \cup {"CompressChromaCU"} => pc \in Searching
      /\ pc' \in CTUCoded => pc \in CTUCoded
  BY DEF Searching, CTUCoded
<1>4. LeftOK'
  BY <1>1, <1>2 DEF LeftOK
<1>5. AboveOK'
  BY <1>1, <1>2 DEF AboveOK
<1>6. RefTopOK'
  BY <1>1, <1>2, <1>3 DEF RefTopOK, RowAbove, RowBelow
<1>7. PicOK' /\ ChromaRefOK'
  BY <1>1, ChromaRefSame DEF PicOK
<1>8. ASSUME NEW x \in PUs, NEW y \in PUs, PUDone(x, y) PROVE PUDone(x, y)'
  BY <1>8, PUDoneSame
<1> QED BY <1>4, <1>5, <1>6, <1>7, <1>8

(* The activation that xCompressLumaCU returns to is past the place of the *)
(* one that it returns from.                                               *)
LEMMA ReturnPlace ==
  ASSUME StackOK, StackOK', pc \in Searching, stack' = Front(stack),
         pc' = IF Len(stack) = 1 THEN "CompressChromaCU" ELSE "PartDone"
  PROVE  Lo' = Z(cu.x, cu.y) + cu.size * cu.size /\ Hi' = Lo'
<1> DEFINE n == Len(stack)
<1>1. /\ n \in Nat \ {0} /\ stack # <<>> /\ DOMAIN stack = 1 .. n /\ cu = stack[n]
      /\ stack \in Seq(Activation) /\ cu \in Activation
  BY StackFacts
<1>2. PICK d \in Activation : d = cu
  BY <1>1
<1>3. CASE n = 1
  <2>1. SamePlace(d, NewCU(0, 0, N))
    BY <1>1, <1>2, <1>3 DEF StackOK
  <2>2. d.x = 0 /\ d.y = 0 /\ d.size = 8
    BY <2>1 DEF SamePlace, NewCU, N, TOT_PUS_LINE
  <2>3. pc' = "CompressChromaCU"
    BY <1>3
  <2>4. Lo' = 64 /\ Hi' = Lo'
    BY <2>3 DEF Lo, Hi, N, TOT_PUS_LINE
  <2>5. Z(0, 0) = 0
    <3>1. 0 \in PUs
      BY DEF PUs, N, TOT_PUS_LINE
    <3> QED BY <3>1, ZIs
  <2> QED BY <1>2, <2>2, <2>4, <2>5
<1>4. CASE n # 1
  <2>1. n - 1 \in 1 .. n /\ n > 1
    BY <1>1, <1>4
  <2>2. PICK up \in Activation : up = stack[n - 1]
    BY <1>1, <2>1
  <2>3. /\ up.size > 1 /\ SamePlace(d, Part(up, up.part)) /\ Aligned(up)
    BY <1>1, <1>2, <2>1, <2>2 DEF StackOK, Aligned
  <2>4. stack' \in Seq(Activation) /\ Len(stack') = n - 1
        /\ \A k \in 1 .. n - 1 : stack'[k] = stack[k]
    BY <1>1, StackParts
  <2>5. cu' = up /\ pc' = "PartDone"
    <3>1. stack' # <<>>
      BY <2>1, <2>4
    <3>2. Last(stack') = stack'[n - 1]
      BY <2>4, <3>1, StackParts
    <3> QED BY <1>4, <2>1, <2>2, <2>4, <3>2 DEF cu
  <2>6. Lo' = Z(up.x, up.y) + (up.part + 1) * ((up.size \div 2) * (up.size \div 2))
        /\ Hi' = Lo'
    BY <2>5 DEF Lo, Hi
  <2>7. up.part \in 0 .. 3
    BY DEF Activation
  <2> DEFINE h == Part(up, up.part).size
  <2>8. /\ h \in {1, 2, 4} /\ up.size \div 2 = h
        /\ Z(Part(up, up.part).x, Part(up, up.part).y) = Z(up.x, up.y) + up.part * (h * h)
    BY <2>3, <2>7, ZPart
  <2>9. d.size = h /\ Z(d.x, d.y) = Z(up.x, up.y) + up.part * (h * h)
    BY <2>3, <2>8 DEF SamePlace
  <2>10. Z(up.x, up.y) \in Nat
    <3>1. up.x \in PUs /\ up.y \in PUs
      BY DEF Activation
    <3> QED BY <3>1, ZIs
  <2> HIDE DEF h
  <2>11. Lo' = Z(up.x, up.y) + (up.part + 1) * (h * h)
    BY <2>6, <2>8
  <2>12. Z(up.x, up.y) + (up.part + 1) * (h * h) = Z(up.x, up.y) + up.part * (h * h) + h * h
    <3>1. CASE h = 1
      BY <2>7, <2>10, <3>1
    <3>2. CASE h = 2
      BY <2>7, <2>10, <3>2
    <3>3. CASE h = 4
      BY <2>7, <2>10, <3>3
    <3> QED BY <2>8, <3>1, <3>2, <3>3
  <2> QED BY <1>2, <2>6, <2>9, <2>11, <2>12
<1> QED BY <1>3, <1>4

-----------------------------------------------------------------------------
(* One lemma for each action.                                              *)

LEMMA InitRef == Init => RefInv
<1> SUFFICES ASSUME Init PROVE RefInv
  OBVIOUS
<1>1. /\ pc = "InitBuffersNewTile" /\ ctu = 0 /\ stack = <<>> /\ refC.size = 0
      /\ pic = Picture(Stale)
      /\ refTop = [p \in Planes |-> [k \in 0 .. Width + N |-> Stale]]
      /\ savedLT = [p \in Planes |-> Stale]
      /\ tempPred = [s \in {1, 2, 4, 8} |-> [i \in 0 .. 4 * s |-> Stale]]
  BY DEF Init
<1>2. DOMAIN stack = {}
  BY <1>1
<1>3. PicOK
  BY <1>1 DEF PicOK, Picture, Planes, Stale, INVALID_MODE
<1>4. SearchRefOK /\ LeftOK /\ RefTopOK /\ AboveOK
  BY <1>1 DEF SearchRefOK, LeftOK, RefTopOK, AboveOK, InCTU
<1>5. TestedOK
  BY <1>2 DEF TestedOK
<1>6. ChromaRefOK
  BY <1>1 DEF ChromaRefOK
<1>7. RefBuffersOK
  BY <1>1 DEF RefBuffersOK, Sizes
<1> QED BY <1>3, <1>4, <1>5, <1>6, <1>7 DEF RefInv

LEMMA InitBuffersNewTileRef == CTUInv /\ RefInv /\ InitBuffersNewTile => RefInv'
<1> SUFFICES ASSUME CTUInv, RefInv, InitBuffersNewTile PROVE RefInv'
  OBVIOUS
<1>1. /\ pc = "InitBuffersNewTile" /\ pc' = "PrepareCTU"
      /\ UNCHANGED <<ctu, stack, tempPred, refTop, refC, pic>>
      /\ neighMode' = [r \in 0 .. N + 1 |-> [c \in 0 .. N + 1 |-> INVALID_MODE]]
      /\ savedLT' = [p \in Planes |-> Zero]
  BY DEF InitBuffersNewTile
<1>2. UNCHANGED <<cx, cy, OffsetX, OffsetY>> /\ Width' = Width /\ Height' = Height
  BY <1>1, SameCTU
<1>3. ctu = 0 /\ cx = 0 /\ cy = 0 /\ OffsetX = 0
  BY <1>1, CTUAssumption DEF RefInv, RefBuffersOK, cx, cy, OffsetX, N, TOT_PUS_LINE
<1>4. \A r, c \in 0 .. 9 : neighMode'[r][c] = INVALID_MODE
  BY <1>1 DEF N, TOT_PUS_LINE
<1>5. Lo' = 0 /\ Hi' = 0
  BY <1>1 DEF Lo, Hi
<1>6. SearchRefOK'
  <2> SUFFICES ASSUME NEW x \in PUs, NEW y \in PUs
               PROVE  ~(Z(x, y) < 0) /\ neighMode'[y + 1][x + 1] = INVALID_MODE
    BY <1>5 DEF SearchRefOK
  <2>1. y + 1 \in 0 .. 9 /\ x + 1 \in 0 .. 9
    BY DEF PUs, N, TOT_PUS_LINE
  <2> QED BY <1>4, <2>1, ZIs
<1>7. LeftOK'
  <2>1. \A c \in 0 .. N + 1 : neighMode'[N + 1][c] = INVALID_MODE
    BY <1>4 DEF N, TOT_PUS_LINE
  <2>2. \A r \in 1 .. N + 1 : neighMode'[r][N + 1] = INVALID_MODE
    BY <1>4 DEF N, TOT_PUS_LINE
  <2>3. ~(cx' > 0) /\ pc' = "PrepareCTU"
    BY <1>1, <1>2, <1>3
  <2> QED BY <2>1, <2>2, <2>3, Zenon DEF LeftOK
<1>8. AboveOK'
  BY <1>1, <1>2, <1>3 DEF AboveOK, InCTU
<1>9. RefTopOK'
  BY <1>1, <1>2, <1>3 DEF RefTopOK, Searching, CTUCoded
<1>10. PicOK' /\ ChromaRefOK'
  BY <1>1, <1>2, ChromaRefSame DEF RefInv, PicOK
<1>11. TestedOK'
  <2>1. stack = <<>>
    BY <1>1 DEF CTUInv, StackOK, Searching
  <2>2. DOMAIN stack' = {}
    BY <1>1, <2>1
  <2> QED BY <2>2 DEF TestedOK
<1>12. RefBuffersOK'
  BY <1>1, <1>2 DEF RefInv, RefBuffersOK
<1> QED BY <1>6, <1>7, <1>8, <1>9, <1>10, <1>11, <1>12 DEF RefInv

LEMMA PrepareCTURef == CTUInv /\ RefInv /\ PrepareCTU => RefInv'
<1> SUFFICES ASSUME CTUInv, RefInv, PrepareCTU PROVE RefInv'
  OBVIOUS
<1> DEFINE above(c) == IF c = 0 THEN cx > 0 /\ cy > 0
                       ELSE IF c = 9 THEN cx < TileWidth - 1 /\ cy > 0
                       ELSE cy > 0
<1>0. N = 8 /\ N + 1 = 9
  BY DEF N, TOT_PUS_LINE
<1>1. /\ pc = "PrepareCTU" /\ pc' = "TestModes" /\ stack' = <<NewCU(0, 0, 8)>>
      /\ UNCHANGED <<ctu, tempPred, rec, refC, pic>>
      /\ neighMode' =
           [r \in 0 .. 9 |-> [c \in 0 .. 9 |->
              IF r = 0 /\ (cx = 0 \/ c \in {0, 9})
                THEN IF above(c) THEN VALID_MODE ELSE INVALID_MODE
              ELSE IF cx = 0 THEN INVALID_MODE ELSE neighMode[r][c]]]
      /\ refTop' = [p \in Planes |-> [refTop[p] EXCEPT ![OffsetX] = savedLT[p]]]
      /\ savedLT' = [p \in Planes |-> refTop[p][OffsetX]]
  BY <1>0 DEF PrepareCTU
<1>2. UNCHANGED <<cx, cy, OffsetX, OffsetY>> /\ Width' = Width /\ Height' = Height
  BY <1>1, SameCTU
<1>3. /\ cx \in 0 .. TileWidth - 1 /\ cy \in 0 .. TileHeight - 1
      /\ OffsetX = 8 * cx /\ OffsetY = 8 * cy /\ Width = 8 * TileWidth
      /\ TileWidth \in Nat \ {0} /\ PUs = 0 .. 7
  BY Place DEF CTUInv
<1>4. \A r, c \in 0 .. 9 : neighMode'[r][c] =
         IF r = 0 /\ (cx = 0 \/ c \in {0, 9})
           THEN IF above(c) THEN VALID_MODE ELSE INVALID_MODE
         ELSE IF cx = 0 THEN INVALID_MODE ELSE neighMode[r][c]
  BY <1>1
<1>5. VALID_MODE # INVALID_MODE
  BY DEF VALID_MODE, INVALID_MODE
<1> HIDE DEF above
<1>6. cu' = NewCU(0, 0, 8)
  BY <1>1 DEF cu, Last
<1>7. Z(0, 0) = 0
  <2>1. 0 \in PUs
    BY <1>3
  <2> QED BY <2>1, ZIs
<1>8. Lo' = 0 /\ Hi' = 0
  BY <1>1, <1>6, <1>7 DEF Lo, Hi, NewCU
<1>9. Lo = 0 /\ Hi = 0
  BY <1>1 DEF Lo, Hi
<1>10. /\ pc' \notin {"InitBuffersNewTile", "PrepareCTU", "Done"} /\ InCTU'
       /\ pc' \in Searching /\ pc' \notin CTUCoded
  BY <1>1 DEF InCTU, Searching, CTUCoded
<1>11. SearchRefOK'
  <2> SUFFICES ASSUME NEW x \in PUs, NEW y \in PUs
               PROVE  ~(Z(x, y) < 0) /\ neighMode'[y + 1][x + 1] = INVALID_MODE
    BY <1>8 DEF SearchRefOK
  <2>1. y + 1 \in 0 .. 9 /\ x + 1 \in 0 .. 9 /\ y + 1 # 0
    BY <1>3
  <2>2. Z(x, y) \in 0 .. 63
    BY ZIs
  <2>3. neighMode[y + 1][x + 1] = INVALID_MODE
    BY <1>1, <1>9, <2>2 DEF RefInv, SearchRefOK
  <2> QED BY <1>4, <2>1, <2>2, <2>3
<1>12. LeftOK'
  <2>1. \A c \in 0 .. 9 : neighMode'[9][c] = INVALID_MODE
    <3>1. \A c \in 0 .. 9 : neighMode[9][c] = INVALID_MODE
      BY <1>0, <1>1 DEF RefInv, LeftOK
    <3> QED BY <1>4, <3>1
  <2>2. \A r \in 1 .. 9 : neighMode'[r][9] = INVALID_MODE
    <3>1. \A r \in 1 .. 9 : neighMode[r][9] = INVALID_MODE
      BY <1>0, <1>1 DEF RefInv, LeftOK
    <3>2. \A r \in 1 .. 9 : r \in 0 .. 9 /\ r # 0
      OBVIOUS
    <3> QED BY <1>4, <3>1, <3>2
  <2>3. ASSUME NEW y \in PUs
        PROVE  neighMode'[y + 1][0] = IF cx = 0 THEN INVALID_MODE ELSE neighMode[y + 1][0]
    <3>1. y + 1 \in 0 .. 9 /\ y + 1 # 0 /\ 0 \in 0 .. 9
      BY <1>3
    <3> QED BY <1>4, <3>1
  <2>4. cx > 0 => \A y \in PUs :
          /\ neighMode'[y + 1][0] = pic["Y"][OffsetY + y][OffsetX - 1]
          /\ \A p \in Planes : rec[p][y][-1] = pic[p][OffsetY + y][OffsetX - 1]
    <3>1. cx > 0 => \A y \in PUs :
            /\ neighMode[y + 1][0] = pic["Y"][OffsetY + y][OffsetX - 1]
            /\ \A p \in Planes : rec[p][y][-1] = pic[p][OffsetY + y][OffsetX - 1]
      BY <1>1 DEF RefInv, LeftOK
    <3>2. cx > 0 => cx # 0
      BY <1>3
    <3> QED BY <2>3, <3>1, <3>2
  <2>5. cx = 0 => \A y \in PUs : neighMode'[y + 1][0] = INVALID_MODE
    BY <2>3
  <2> QED BY <1>0, <1>1, <1>2, <2>1, <2>2, <2>4, <2>5 DEF LeftOK
<1>13. AboveOK'
  <2>1. 0 \in 0 .. 9 /\ 9 \in 0 .. 9
    OBVIOUS
  <2>2. neighMode'[0][0] # INVALID_MODE <=> cx > 0 /\ cy > 0
    BY <1>4, <1>5, <2>1 DEF above
  <2>3. neighMode'[0][9] # INVALID_MODE <=> cx < TileWidth - 1 /\ cy > 0
    BY <1>4, <1>5, <2>1 DEF above
  <2>4. ASSUME NEW c \in 1 .. 8 PROVE neighMode'[0][c] # INVALID_MODE <=> cy > 0
    <3>1. c \in 0 .. 9 /\ c # 0 /\ c # 9
      OBVIOUS
    <3>2. CASE cx = 0
      BY <1>4, <1>5, <2>1, <3>1, <3>2 DEF above
    <3>3. CASE cx # 0
      <4>1. neighMode'[0][c] = neighMode[0][c]
        BY <1>4, <2>1, <3>1, <3>3
      <4>2. cx > 0
        BY <1>3, <3>3
      <4>3. neighMode[0][c] # INVALID_MODE <=> cy > 0
        BY <1>0, <1>1, <4>2 DEF RefInv, AboveOK
      <4> QED BY <4>1, <4>3
    <3> QED BY <3>2, <3>3
  <2> QED BY <1>0, <1>2, <1>10, <2>2, <2>3, <2>4 DEF AboveOK
<1>14. RefTopOK'
  <2> SUFFICES ASSUME NEW p \in Planes
               PROVE  /\ cy > 0 => \A k \in OffsetX + 1 .. Width : RowAbove(p, k)'
                      /\ \A k \in 1 .. OffsetX - 1 : RowBelow(p, k)'
                      /\ cx > 0 => savedLT'[p] = pic[p][OffsetY + N - 1][OffsetX - 1]
                      /\ cx > 0 /\ cy > 0 => RowAbove(p, OffsetX)'
    BY <1>1, <1>2, <1>10 DEF RefTopOK
  <2>1. /\ cy > 0 => \A k \in OffsetX + 1 .. Width : RowAbove(p, k)
        /\ \A k \in 1 .. OffsetX - 1 : RowBelow(p, k)
        /\ cx > 0 => RowBelow(p, OffsetX)
        /\ cx > 0 /\ cy > 0 => savedLT[p] = pic[p][OffsetY - 1][OffsetX - 1]
    BY <1>1 DEF RefInv, RefTopOK
  <2>2. \A k : refTop'[p][k] = [refTop[p] EXCEPT ![OffsetX] = savedLT[p]][k]
    BY <1>1
  <2>3. DOMAIN refTop[p] = 0 .. Width + 8 /\ OffsetX \in DOMAIN refTop[p]
    BY <1>0, <1>3 DEF RefInv, RefBuffersOK
  <2>4. refTop'[p][OffsetX] = savedLT[p] /\ savedLT'[p] = refTop[p][OffsetX]
    BY <1>1, <2>2, <2>3
  <2>5. \A k \in 0 .. Width : k # OffsetX => refTop'[p][k] = refTop[p][k]
    BY <1>3, <2>2, <2>3
  <2>6. ASSUME NEW k \in OffsetX + 1 .. Width, cy > 0 PROVE RowAbove(p, k)'
    <3>1. k \in 0 .. Width /\ k # OffsetX
      BY <1>3
    <3> QED BY <1>1, <1>2, <2>1, <2>5, <2>6, <3>1 DEF RowAbove
  <2>7. ASSUME NEW k \in 1 .. OffsetX - 1 PROVE RowBelow(p, k)'
    <3>1. k \in 0 .. Width /\ k # OffsetX
      BY <1>3
    <3> QED BY <1>1, <1>2, <2>1, <2>5, <3>1 DEF RowBelow
  <2>8. cx > 0 => savedLT'[p] = pic[p][OffsetY + N - 1][OffsetX - 1]
    BY <2>1, <2>4 DEF RowBelow
  <2>9. cx > 0 /\ cy > 0 => RowAbove(p, OffsetX)'
    BY <1>1, <1>2, <2>1, <2>4 DEF RowAbove
  <2> QED BY <2>6, <2>7, <2>8, <2>9
<1>15. PicOK' /\ ChromaRefOK'
  BY <1>1, <1>2, ChromaRefSame DEF RefInv, PicOK
<1>16. TestedOK'
  <2>1. DOMAIN stack' = {1} /\ Len(stack') = 1
    BY <1>1
  <2> QED BY <1>1, <2>1 DEF TestedOK
<1>17. RefBuffersOK'
  BY <1>1, <1>2 DEF RefInv, RefBuffersOK
<1> QED BY <1>11, <1>12, <1>13, <1>14, <1>15, <1>16, <1>17 DEF RefInv

(* An activation stays as it was tested over a step that changes neither   *)
(* the picture nor the prediction of its size.                             *)
LEMMA TestedStays ==
  ASSUME NEW k, NEW j, Tested(stack[k]), stack[k].size \in Sizes, SamePlace(stack'[j], stack[k]),
         stack'[j].valid = stack[k].valid, stack'[j].cand = stack[k].cand,
         UNCHANGED <<ctu, pic>>, tempPred'[stack[k].size] = tempPred[stack[k].size]
  PROVE  Tested(stack[j])'
<1>1. PICK c : c = stack[k]
  OBVIOUS
<1>2. Tested(c)'
  BY <1>1, TestedSame
<1>3. PICK d : d = stack'[j]
  OBVIOUS
<1>4. SamePlace(d, c) /\ d.valid = c.valid /\ d.cand = c.cand
  BY <1>1, <1>3
<1>5. Tested(d)'
  BY <1>2, <1>4 DEF Tested, SamePlace
<1> QED BY <1>3, <1>5

LEMMA ActivationIs ==
  ASSUME StackOK, NEW k \in DOMAIN stack
  PROVE  /\ stack[k] \in Activation /\ stack[k].size \in Sizes
         /\ stack[k].x \in PUs /\ stack[k].y \in PUs /\ stack[k].part \in 0 .. 3
         /\ AlignedAt(stack[k].x, stack[k].y, stack[k].size)
<1>1. stack[k] \in Activation
  BY DEF StackOK
<1>2. PICK c \in Activation : c = stack[k]
  BY <1>1
<1>3. c.size \in Sizes /\ c.x \in PUs /\ c.y \in PUs /\ c.part \in 0 .. 3
  BY DEF Activation
<1>4. c.x % c.size = 0 /\ c.y % c.size = 0
  BY <1>2 DEF StackOK
<1> QED BY <1>2, <1>3, <1>4 DEF AlignedAt

LEMMA EncodeCTURef == CTUInv /\ RefInv /\ EncodeCTU => RefInv'
<1> SUFFICES ASSUME CTUInv, RefInv, EncodeCTU PROVE RefInv'
  OBVIOUS
<1>1. /\ pc = "EncodeCTU" /\ pc' = "UpdateBuffers"
      /\ UNCHANGED <<ctu, stack, neighMode, infoL, rec, tempPred, refTop, savedLT, refC, pic>>
  BY Zenon DEF EncodeCTU
<1>2. /\ LeftOK' /\ AboveOK' /\ RefTopOK' /\ PicOK' /\ ChromaRefOK'
      /\ \A x, y \in PUs : PUDone(x, y) => PUDone(x, y)'
  BY <1>1, ArraysSame DEF RefInv, CTUCoded
<1>3. Lo = N * N /\ Lo' = N * N /\ Hi = Lo /\ Hi' = Lo'
  BY <1>1 DEF Lo, Hi
<1>4. SearchRefOK'
  BY <1>1, <1>2, <1>3 DEF RefInv, SearchRefOK
<1>5. TestedOK'
  <2>1. stack' = <<>>
    BY <1>1 DEF CTUInv, StackOK, Searching
  <2>2. DOMAIN stack' = {}
    BY <2>1
  <2> QED BY <2>2 DEF TestedOK
<1>6. RefBuffersOK'
  BY <1>1, SameCTU DEF RefInv, RefBuffersOK
<1> QED BY <1>2, <1>4, <1>5, <1>6 DEF RefInv

LEMMA SplitIsBadRef == CTUInv /\ RefInv /\ SplitIsBad => RefInv'
<1> SUFFICES ASSUME CTUInv, RefInv, SplitIsBad PROVE RefInv'
  OBVIOUS
<1>1. /\ pc = "PartDone" /\ pc' = "CodeCU" /\ pc \in Searching
      /\ UNCHANGED <<ctu, stack, neighMode, infoL, rec, tempPred, refTop, savedLT, refC, pic>>
  BY DEF SplitIsBad, Searching
<1>2. /\ LeftOK' /\ AboveOK' /\ RefTopOK' /\ PicOK' /\ ChromaRefOK'
      /\ \A x, y \in PUs : PUDone(x, y) => PUDone(x, y)'
  BY <1>1, ArraysSame DEF RefInv, Searching
<1>3. PICK d \in Activation : d = cu /\ Aligned(d) /\ d.size > 1
  BY <1>1, StackFacts DEF CTUInv, StackOK
<1>4. cu' = d
  BY <1>1, <1>3 DEF cu
<1> DEFINE z == Z(d.x, d.y)
           h == Part(d, 0).size
<1>5. h \in {1, 2, 4} /\ d.size = 2 * h /\ d.size \div 2 = h
  BY <1>3, ZPart
<1>6. z \in 0 .. 63
  BY ZIs DEF Activation
<1>7. d.part \in 0 .. 3
  BY DEF Activation
<1>8. /\ Lo = z + (d.part + 1) * (h * h) /\ Hi = z + (d.part + 1) * (h * h)
      /\ Lo' = z /\ Hi' = z + (2 * h) * (2 * h)
  BY <1>1, <1>3, <1>4, <1>5 DEF Lo, Hi
<1> HIDE DEF z, h
<1>9. Lo' <= Lo /\ Hi <= Hi' /\ Lo \in Int /\ Hi \in Int /\ Lo' \in Int /\ Hi' \in Int
  <2>1. CASE h = 1
    BY <1>6, <1>7, <1>8, <2>1
  <2>2. CASE h = 2
    BY <1>6, <1>7, <1>8, <2>2
  <2>3. CASE h = 4
    BY <1>6, <1>7, <1>8, <2>3
  <2> QED BY <1>5, <2>1, <2>2, <2>3
<1>10. SearchRefOK'
  <2> SUFFICES ASSUME NEW x \in PUs, NEW y \in PUs
               PROVE  /\ Z(x, y) < Lo' => PUDone(x, y)'
                      /\ Z(x, y) >= Hi' => neighMode'[y + 1][x + 1] = INVALID_MODE
    BY DEF SearchRefOK
  <2>1. Z(x, y) \in 0 .. 63
    BY ZIs
  <2>2. /\ Z(x, y) < Lo => PUDone(x, y)
        /\ Z(x, y) >= Hi => neighMode[y + 1][x + 1] = INVALID_MODE
    BY <1>1 DEF RefInv, SearchRefOK
  <2>3. (Z(x, y) < Lo' => Z(x, y) < Lo) /\ (Z(x, y) >= Hi' => Z(x, y) >= Hi)
    BY <1>9, <2>1
  <2> QED BY <1>1, <1>2, <2>2, <2>3
<1>11. TestedOK'
  <2> SUFFICES ASSUME NEW k \in DOMAIN stack PROVE Tested(stack[k])'
    BY <1>1 DEF TestedOK
  <2>1. Tested(stack[k])
    BY <1>1 DEF RefInv, TestedOK
  <2>2. stack[k].size \in Sizes
    BY ActivationIs DEF CTUInv
  <2>3. SamePlace(stack'[k], stack[k]) /\ stack' = stack
    BY <1>1 DEF SamePlace
  <2> QED BY <1>1, <2>1, <2>2, <2>3, TestedStays
<1>12. RefBuffersOK'
  BY <1>1, SameCTU DEF RefInv, RefBuffersOK
<1> QED BY <1>2, <1>10, <1>11, <1>12 DEF RefInv

LEMMA SplitIsGoodRef == CTUInv /\ RefInv /\ SplitIsGood => RefInv'
<1> SUFFICES ASSUME CTUInv, RefInv, SplitIsGood PROVE RefInv'
  OBVIOUS
<1>1. /\ pc = "PartDone" /\ cu.part = 3 /\ pc \in Searching /\ stack' = Front(stack)
      /\ pc' = (IF Len(stack) = 1 THEN "CompressChromaCU" ELSE "PartDone")
      /\ UNCHANGED <<ctu, neighMode, infoL, rec, tempPred, refTop, savedLT, refC, pic>>
  BY DEF SplitIsGood, Searching
<1>2. pc' \in {"CompressChromaCU", "PartDone"}
  BY <1>1
<1>3. /\ LeftOK' /\ AboveOK' /\ RefTopOK' /\ PicOK' /\ ChromaRefOK'
      /\ \A x, y \in PUs : PUDone(x, y) => PUDone(x, y)'
  <2>1. pc' \in Searching \cup {"CompressChromaCU"}
    BY <1>2 DEF Searching
  <2> QED BY <1>1, <2>1, ArraysSame DEF RefInv
<1>4. /\ stack \in Seq(Activation) /\ stack # <<>> /\ Len(stack) \in Nat \ {0}
      /\ DOMAIN stack = 1 .. Len(stack)
  BY <1>1, StackFacts DEF CTUInv
<1>5. PICK d \in Activation : d = cu /\ Aligned(d) /\ d.size > 1
  BY <1>1, StackFacts DEF CTUInv, StackOK
<1> DEFINE z == Z(d.x, d.y)
           h == Part(d, 0).size
<1>6. h \in {1, 2, 4} /\ d.size = 2 * h /\ d.size \div 2 = h
  BY <1>5, ZPart
<1>7. z \in 0 .. 63
  BY ZIs DEF Activation
<1>8. Lo = z + (3 + 1) * (h * h) /\ Hi = Lo
  BY <1>1, <1>5, <1>6 DEF Lo, Hi
<1>9. Lo' = z + (2 * h) * (2 * h) /\ Hi' = Lo'
  <2>1. CTUInv'
    BY SplitIsGoodOK
  <2>2. StackOK /\ StackOK'
    BY <2>1 DEF CTUInv
  <2>3. Lo' = Z(cu.x, cu.y) + cu.size * cu.size /\ Hi' = Lo'
    BY <1>1, <2>2, ReturnPlace
  <2> QED BY <1>5, <1>6, <2>3
<1> HIDE DEF z, h
<1>10. Lo' = Lo /\ Hi' = Hi
  <2>1. CASE h = 1
    BY <1>7, <1>8, <1>9, <2>1
  <2>2. CASE h = 2
    BY <1>7, <1>8, <1>9, <2>2
  <2>3. CASE h = 4
    BY <1>7, <1>8, <1>9, <2>3
  <2> QED BY <1>6, <2>1, <2>2, <2>3
<1>11. SearchRefOK'
  BY <1>1, <1>3, <1>10 DEF RefInv, SearchRefOK
<1>12. TestedOK'
  <2>1. /\ stack' \in Seq(Activation) /\ Len(stack') = Len(stack) - 1
        /\ \A k \in 1 .. Len(stack) - 1 : stack'[k] = stack[k]
    BY <1>1, <1>4, StackParts
  <2>2. DOMAIN stack' = 1 .. Len(stack) - 1
    BY <1>4, <2>1
  <2> SUFFICES ASSUME NEW k \in 1 .. Len(stack) - 1 PROVE Tested(stack[k])'
    BY <2>2 DEF TestedOK
  <2>3. k \in DOMAIN stack
    BY <1>4
  <2>4. Tested(stack[k])
    BY <1>1, <2>3 DEF RefInv, TestedOK
  <2>5. stack[k].size \in Sizes
    BY <2>3, ActivationIs DEF CTUInv
  <2>6. SamePlace(stack'[k], stack[k]) /\ stack'[k] = stack[k]
    BY <2>1 DEF SamePlace
  <2> QED BY <1>1, <2>4, <2>5, <2>6, TestedStays
<1>13. RefBuffersOK'
  BY <1>1, <1>2, SameCTU DEF RefInv, RefBuffersOK
<1> QED BY <1>3, <1>11, <1>12, <1>13 DEF RefInv

LEMMA NextPartRef == CTUInv /\ RefInv /\ NextPart => RefInv'
<1> SUFFICES ASSUME CTUInv, RefInv, NextPart PROVE RefInv'
  OBVIOUS
<1>1. /\ pc = "PartDone" /\ pc' = "TestModes" /\ pc \in Searching /\ cu.part < 3
      /\ UNCHANGED <<ctu, neighMode, infoL, rec, tempPred, refTop, savedLT, refC, pic>>
  BY DEF NextPart, Searching
<1>2. /\ LeftOK' /\ AboveOK' /\ RefTopOK' /\ PicOK' /\ ChromaRefOK'
      /\ \A x, y \in PUs : PUDone(x, y) => PUDone(x, y)'
  <2>1. pc' \in Searching \cup {"CompressChromaCU"}
    BY <1>1 DEF Searching
  <2> QED BY <1>1, <2>1, ArraysSame DEF RefInv
<1> DEFINE n == Len(stack)
<1>3. /\ stack \in Seq(Activation) /\ stack # <<>> /\ n \in Nat \ {0}
      /\ DOMAIN stack = 1 .. n /\ cu = stack[n]
  BY <1>1, StackFacts DEF CTUInv
<1>4. PICK d \in Activation : d = cu /\ Aligned(d) /\ d.size > 1
  BY <1>1, StackFacts DEF CTUInv, StackOK
<1>5. PICK e : e = [d EXCEPT !.part = d.part + 1]
  OBVIOUS
<1>6. /\ e \in Activation /\ SamePlace(e, d) /\ e.part = d.part + 1
      /\ e.valid = d.valid /\ e.cand = d.cand /\ e.part \in 0 .. 3
  <2>1. d.part + 1 \in 0 .. 3
    BY <1>1, <1>4 DEF Activation
  <2> QED BY <1>4, <1>5, <2>1 DEF Activation, SamePlace
<1>7. PICK f : f = Part(d, e.part)
  OBVIOUS
<1>8. stack' = WithCall(stack, e, f)
  BY <1>4, <1>5, <1>6, <1>7 DEF NextPart, WithCall, WithLast
<1>9. f \in Activation
  BY <1>4, <1>6, <1>7, PartInside
<1>10. /\ stack' \in Seq(Activation) /\ Len(stack') = n + 1
       /\ \A k \in 1 .. n - 1 : stack'[k] = stack[k]
       /\ stack'[n] = e /\ stack'[n + 1] = f
  <2>1. \A c \in Activation :
          /\ WithCall(stack, e, c) \in Seq(Activation) /\ Len(WithCall(stack, e, c)) = n + 1
          /\ \A k \in 1 .. n - 1 : WithCall(stack, e, c)[k] = stack[k]
          /\ WithCall(stack, e, c)[n] = e /\ WithCall(stack, e, c)[n + 1] = c
    BY <1>3, <1>6, StackCall
  <2> QED BY <1>8, <1>9, <2>1
<1>11. cu' = f
  <2>1. stack' # <<>>
    BY <1>3, <1>10
  <2>2. Last(stack') = stack'[Len(stack')]
    BY <1>10, <2>1, StackParts
  <2> QED BY <1>10, <2>2 DEF cu
<1> DEFINE h == f.size
           z == Z(d.x, d.y)
<1>12. /\ d.size \div 2 = h /\ Z(f.x, f.y) = z + e.part * (h * h)
  BY <1>4, <1>6, <1>7, ZPart
<1>13. Lo' = Lo /\ Hi' = Hi
  <2>1. Lo = z + e.part * (h * h) /\ Hi = Lo
    BY <1>1, <1>4, <1>6, <1>12 DEF Lo, Hi
  <2>2. Lo' = Z(f.x, f.y) /\ Hi' = Lo'
    BY <1>1, <1>11 DEF Lo, Hi
  <2> QED BY <1>12, <2>1, <2>2
<1>14. SearchRefOK'
  BY <1>1, <1>2, <1>13 DEF RefInv, SearchRefOK
<1>15. TestedOK'
  <2>1. DOMAIN stack' = 1 .. n + 1
    BY <1>3, <1>10
  <2> SUFFICES ASSUME NEW k \in 1 .. n PROVE Tested(stack[k])'
    BY <1>1, <1>3, <1>10, <2>1 DEF TestedOK
  <2>2. k \in DOMAIN stack
    BY <1>3
  <2>3. Tested(stack[k])
    BY <1>1, <2>2 DEF RefInv, TestedOK
  <2>4. stack[k].size \in Sizes
    BY <2>2, ActivationIs DEF CTUInv
  <2>5. /\ SamePlace(stack'[k], stack[k])
        /\ stack'[k].valid = stack[k].valid /\ stack'[k].cand = stack[k].cand
    <3>1. CASE k = n
      BY <1>3, <1>4, <1>6, <1>10, <3>1
    <3>2. CASE k # n
      <4>1. k \in 1 .. n - 1
        <5>1. n \in Nat
          BY <1>3
        <5> HIDE DEF n
        <5> QED BY <3>2, <5>1
      <4>2. stack'[k] = stack[k]
        BY <1>10, <4>1
      <4> QED BY <4>2 DEF SamePlace
    <3> QED BY <3>1, <3>2
  <2> QED BY <1>1, <2>3, <2>4, <2>5, TestedStays
<1>16. RefBuffersOK'
  BY <1>1, SameCTU DEF RefInv, RefBuffersOK
<1> QED BY <1>2, <1>14, <1>15, <1>16 DEF RefInv

LEMMA TestModesRef == CTUInv /\ RefInv /\ TestModes => RefInv'
<1> SUFFICES ASSUME CTUInv, RefInv, TestModes PROVE RefInv'
  OBVIOUS
<1> DEFINE valid == CheckNeighAvail(cu.x, cu.y, cu.size)
           cand  == GetCandModeListIntra(cu.x, cu.y)
           ref   == GenReferenceSamplesIntra("Y", cu.x, cu.y, cu.size, valid)
           known == [cu EXCEPT !.valid = valid, !.cand = cand]
<1>1. /\ pc = "TestModes" /\ pc \in Searching
      /\ UNCHANGED <<ctu, neighMode, infoL, rec, refTop, savedLT, refC, pic>>
      /\ tempPred' = [tempPred EXCEPT ![cu.size] = ref]
      /\ IF cu.size > 1
           THEN /\ stack' = Append(Front(stack) \o <<known>>, Part(cu, 0)) /\ pc' = pc
           ELSE /\ stack' = Front(stack) \o <<known>> /\ pc' = "CodeCU"
  <2>1. pc = "TestModes"
    BY DEF TestModes
  <2> QED BY <2>1, Zenon DEF TestModes, Searching
<1>2. pc' \in {"TestModes", "CodeCU"} /\ pc' \in Searching
  BY <1>1 DEF Searching
<1>3. /\ LeftOK' /\ AboveOK' /\ RefTopOK' /\ PicOK' /\ ChromaRefOK'
      /\ \A x, y \in PUs : PUDone(x, y) => PUDone(x, y)'
  BY <1>1, <1>2, ArraysSame DEF RefInv
<1> DEFINE n == Len(stack)
<1>4. /\ stack \in Seq(Activation) /\ stack # <<>> /\ n \in Nat \ {0}
      /\ DOMAIN stack = 1 .. n /\ cu = stack[n] /\ n \in DOMAIN stack
  BY <1>1, StackFacts DEF CTUInv
<1>5. PICK d \in Activation : d = cu /\ Aligned(d)
  BY <1>1, StackFacts DEF CTUInv
<1>6. d.x \in PUs /\ d.y \in PUs /\ d.size \in Sizes /\ AlignedAt(d.x, d.y, d.size)
  BY <1>5 DEF Activation, AlignedAt, Aligned
<1>7. /\ valid = Avail(OffsetX + d.x, OffsetY + d.y, d.size)
      /\ cand = DecoderCandidates(OffsetX + d.x, OffsetY + d.y)
      /\ ref = DecoderReferences("Y", OffsetX + d.x, OffsetY + d.y, d.size)
  <2>1. PICK x, y, s : x = d.x /\ y = d.y /\ s = d.size
    OBVIOUS
  <2>2. AlignedAt(x, y, s) /\ x = cu.x /\ y = cu.y /\ s = cu.size
    BY <1>5, <1>6, <2>1
  <2>3. CountersOK /\ SearchRefOK /\ LeftOK /\ AboveOK /\ RefTopOK /\ PicOK
    BY DEF CTUInv, RefInv
  <2>4. /\ CheckNeighAvail(x, y, s) = Avail(OffsetX + x, OffsetY + y, s)
        /\ GetCandModeListIntra(x, y) = DecoderCandidates(OffsetX + x, OffsetY + y)
        /\ GenReferenceSamplesIntra("Y", x, y, s, CheckNeighAvail(x, y, s))
             = DecoderReferences("Y", OffsetX + x, OffsetY + y, s)
    BY <1>1, <2>2, <2>3, TestModesFinds
  <2> QED BY <2>1, <2>2, <2>4
<1>8. PICK e : e = known
  OBVIOUS
<1> HIDE DEF valid, cand, ref
<1>9. SamePlace(e, d) /\ e.valid = valid /\ e.cand = cand /\ e.part = d.part
  BY <1>5, <1>8 DEF Activation, SamePlace
<1>10. e \in Activation
  <2>1. valid \in Seq(BOOLEAN)
    BY DEF CheckNeighAvail, valid
  <2>2. cand \in Seq(Seq(Int))
    BY <1>5, CandidatesOK DEF CTUInv, cand
  <2> QED BY <1>5, <1>8, <2>1, <2>2 DEF Activation
<1>11. Tested(e)'
  <2>1. PICK X, Y, s : X = OffsetX + d.x /\ Y = OffsetY + d.y /\ s = d.size
    OBVIOUS
  <2>2. (OffsetX + e.x)' = X /\ (OffsetY + e.y)' = Y /\ e.size = s
    BY <1>1, <1>9, <2>1, SameCTU DEF SamePlace
  <2>3. tempPred'[s] = ref
    <3>1. DOMAIN tempPred = Sizes
      BY DEF RefInv, RefBuffersOK
    <3> QED BY <1>1, <1>5, <1>6, <2>1, <3>1
  <2>4. DecoderReferences("Y", X, Y, s)' = DecoderReferences("Y", X, Y, s)
    BY <1>1, DecoderReferencesAre
  <2>5. DecoderCandidates(X, Y)' = DecoderCandidates(X, Y)
    BY <1>1, DecoderCandidatesSame
  <2>6. Avail(X, Y, s)' = Avail(X, Y, s)
    BY DEF Avail, Decoded, Order, Z, Width, Height
  <2>7. /\ tempPred'[s] = DecoderReferences("Y", X, Y, s)'
        /\ e.cand = DecoderCandidates(X, Y)'
        /\ e.valid = Avail(X, Y, s)'
    BY <1>7, <1>9, <2>1, <2>3, <2>4, <2>5, <2>6
  <2> QED BY <2>1, <2>2, <2>7 DEF Tested
<1>12. ASSUME NEW k \in 1 .. n - 1, stack'[k] = stack[k] PROVE Tested(stack[k])'
  <2>0. n \in Nat /\ DOMAIN stack = 1 .. n
    BY <1>4
  <2>1. k \in DOMAIN stack /\ k < Len(stack) /\ k # n
    <3>1. k \in 1 .. n /\ k < n /\ k # n
      <4> HIDE DEF n
      <4> QED BY <2>0
    <3> QED BY <2>0, <3>1
  <2>2. Tested(stack[k])
    BY <2>1 DEF RefInv, TestedOK
  <2>3. stack[k].size \in Sizes /\ stack[k].size # stack[n].size
    BY <1>4, <2>1, ActivationIs, SizesDiffer DEF CTUInv
  <2>4. tempPred'[stack[k].size] = tempPred[stack[k].size]
    BY <1>1, <1>4, <2>3
  <2>5. SamePlace(stack'[k], stack[k]) /\ stack'[k].valid = stack[k].valid
        /\ stack'[k].cand = stack[k].cand
    BY <1>12 DEF SamePlace
  <2> QED BY <1>1, <2>2, <2>3, <2>4, <2>5, TestedStays
<1>13. RefBuffersOK'
  <2>1. DOMAIN tempPred' = DOMAIN tempPred
    BY <1>1
  <2> QED BY <1>1, <1>2, <2>1, SameCTU DEF RefInv, RefBuffersOK
<1>14. Lo = Z(d.x, d.y) /\ Hi = Lo
  BY <1>1, <1>5 DEF Lo, Hi
<1>15. CASE d.size > 1
  <2>1. PICK f : f = Part(d, 0)
    OBVIOUS
  <2>2. f \in Activation /\ f.size \in {1, 2, 4} /\ Z(f.x, f.y) = Z(d.x, d.y)
    <3>1. f \in Activation
      BY <1>5, <1>15, <2>1, PartInside
    <3>2. f.size \in {1, 2, 4} /\ Z(f.x, f.y) = Z(d.x, d.y) + 0 * (f.size * f.size)
      BY <1>5, <1>15, <2>1, ZPart
    <3>3. Z(d.x, d.y) \in 0 .. 63
      BY <1>6, ZIs
    <3> QED BY <3>1, <3>2, <3>3
  <2>3. stack' = WithCall(stack, e, f) /\ pc' = "TestModes"
    BY <1>1, <1>5, <1>8, <1>15, <2>1 DEF WithCall, WithLast
  <2>4. /\ stack' \in Seq(Activation) /\ Len(stack') = n + 1
        /\ \A k \in 1 .. n - 1 : stack'[k] = stack[k]
        /\ stack'[n] = e /\ stack'[n + 1] = f
    <3>1. \A c \in Activation :
            /\ WithCall(stack, e, c) \in Seq(Activation) /\ Len(WithCall(stack, e, c)) = n + 1
            /\ \A k \in 1 .. n - 1 : WithCall(stack, e, c)[k] = stack[k]
            /\ WithCall(stack, e, c)[n] = e /\ WithCall(stack, e, c)[n + 1] = c
      BY <1>4, <1>10, StackCall
    <3> QED BY <2>2, <2>3, <3>1
  <2>5. cu' = f
    <3>1. stack' # <<>>
      BY <1>4, <2>4
    <3>2. Last(stack') = stack'[Len(stack')]
      BY <2>4, <3>1, StackParts
    <3> QED BY <2>4, <3>2 DEF cu
  <2>6. Lo' = Lo /\ Hi' = Hi
    BY <1>14, <2>2, <2>3, <2>5 DEF Lo, Hi
  <2>7. SearchRefOK'
    BY <1>1, <1>3, <2>3, <2>6 DEF RefInv, SearchRefOK
  <2>8. TestedOK'
    <3> SUFFICES ASSUME NEW k \in 1 .. n PROVE Tested(stack[k])'
      <4>1. DOMAIN stack' = 1 .. n + 1
        BY <1>4, <2>4
      <4> QED BY <1>4, <2>3, <2>4, <4>1 DEF TestedOK
    <3>1. CASE k = n
      BY <1>11, <2>4, <3>1
    <3>2. CASE k # n
      <4>1. k \in 1 .. n - 1
        <5>1. n \in Nat
          BY <1>4
        <5> HIDE DEF n
        <5> QED BY <3>2, <5>1
      <4> QED BY <1>12, <2>4, <4>1
    <3> QED BY <3>1, <3>2
  <2> QED BY <1>3, <1>13, <2>7, <2>8 DEF RefInv
<1>16. CASE ~(d.size > 1)
  <2>1. stack' = WithLast(stack, e) /\ pc' = "CodeCU"
    BY <1>1, <1>5, <1>8, <1>16 DEF WithLast
  <2>2. /\ stack' \in Seq(Activation) /\ Len(stack') = n
        /\ \A k \in 1 .. n - 1 : stack'[k] = stack[k]
        /\ stack'[n] = e
    BY <1>4, <1>10, <2>1, StackReplace
  <2>3. cu' = e
    <3>1. stack' # <<>>
      BY <1>4, <2>2
    <3>2. Last(stack') = stack'[Len(stack')]
      BY <2>2, <3>1, StackParts
    <3> QED BY <2>2, <3>2 DEF cu
  <2>4. Lo' = Z(d.x, d.y) /\ Hi' = Z(d.x, d.y) + e.size * e.size
    BY <1>9, <2>1, <2>3 DEF Lo, Hi, SamePlace
  <2>5. e.size = 1
    BY <1>6, <1>9, <1>16 DEF Sizes, SamePlace
  <2>6. SearchRefOK'
    <3> SUFFICES ASSUME NEW x \in PUs, NEW y \in PUs
                 PROVE  /\ Z(x, y) < Lo' => PUDone(x, y)'
                        /\ Z(x, y) >= Hi' => neighMode'[y + 1][x + 1] = INVALID_MODE
      BY DEF SearchRefOK
    <3>1. Z(x, y) \in 0 .. 63 /\ Z(d.x, d.y) \in 0 .. 63
      BY <1>6, ZIs
    <3>2. /\ Z(x, y) < Lo => PUDone(x, y)
          /\ Z(x, y) >= Hi => neighMode[y + 1][x + 1] = INVALID_MODE
      BY <1>1 DEF RefInv, SearchRefOK
    <3>3. Z(x, y) >= Hi' => Z(x, y) >= Hi
      BY <1>14, <2>4, <2>5, <3>1
    <3> QED BY <1>1, <1>3, <1>14, <2>4, <3>2, <3>3
  <2>7. TestedOK'
    <3> SUFFICES ASSUME NEW k \in 1 .. n PROVE Tested(stack[k])'
      <4>1. DOMAIN stack' = 1 .. n
        BY <1>4, <2>2
      <4> QED BY <4>1 DEF TestedOK
    <3>1. CASE k = n
      BY <1>11, <2>2, <3>1
    <3>2. CASE k # n
      <4>1. k \in 1 .. n - 1
        <5>1. n \in Nat
          BY <1>4
        <5> HIDE DEF n
        <5> QED BY <3>2, <5>1
      <4> QED BY <1>12, <2>2, <4>1
    <3> QED BY <3>1, <3>2
  <2> QED BY <1>3, <1>13, <2>6, <2>7 DEF RefInv
<1> QED BY <1>15, <1>16

-----------------------------------------------------------------------------
(* A block is reconstructed in the array of the CTU and in the picture.    *)

BlockWritten(p, x, y, s, v) ==
  /\ rec' = [rec EXCEPT ![p] = Fill(rec[p], x, y, s, v)]
  /\ pic' = [pic EXCEPT ![p] = Fill(pic[p], OffsetX + x, OffsetY + y, s, v)]

(* No sample of another CTU changes. *)
OthersSame ==
  \A p \in Planes : \A r \in 0 .. Height - 1 : \A c \in 0 .. Width - 1 :
    r \notin OffsetY .. OffsetY + 7 \/ c \notin OffsetX .. OffsetX + 7
      => pic'[p][r][c] = pic[p][r][c]

LEMMA BlockChanges ==
  ASSUME CountersOK, BuffersOK, NEW p \in Planes, NEW x, NEW y, NEW s, AlignedAt(x, y, s),
         NEW v, BlockWritten(p, x, y, s, v)
  PROVE  /\ \A q \in Planes : q # p => rec'[q] = rec[q] /\ pic'[q] = pic[q]
         /\ \A a, b \in PUs :
              /\ rec'[p][b][a] = IF InBlock(a, x, s) /\ InBlock(b, y, s) THEN v ELSE rec[p][b][a]
              /\ pic'[p][OffsetY + b][OffsetX + a] =
                   IF InBlock(a, x, s) /\ InBlock(b, y, s) THEN v
                   ELSE pic[p][OffsetY + b][OffsetX + a]
         /\ \A b \in PUs : rec'[p][b][-1] = rec[p][b][-1]
         /\ \A r \in 0 .. Height - 1 : \A c \in 0 .. Width - 1 :
              pic'[p][r][c] = v \/ pic'[p][r][c] = pic[p][r][c]
         /\ OthersSame
<1>1. /\ x \in 0 .. 7 /\ y \in 0 .. 7 /\ s \in {1, 2, 4, 8} /\ x + s <= 8 /\ y + s <= 8
  BY AlignedIs
<1>2. OffsetX \in Nat /\ OffsetY \in Nat /\ PUs = 0 .. 7 /\ N = 8
      /\ Width \in Nat /\ Height \in Nat
  BY Place
<1>3. /\ DOMAIN rec = Planes /\ DOMAIN pic = Planes
      /\ Grid(rec[p], PUs, -1 .. N - 1) /\ Grid(pic[p], 0 .. Height - 1, 0 .. Width - 1)
  BY DEF BuffersOK
<1>4. rec'[p] = Fill(rec[p], x, y, s, v)
      /\ pic'[p] = Fill(pic[p], OffsetX + x, OffsetY + y, s, v)
  BY <1>3 DEF BlockWritten
<1>5. \A q \in Planes : q # p => rec'[q] = rec[q] /\ pic'[q] = pic[q]
  BY DEF BlockWritten
<1>6. \A b \in PUs : \A a \in -1 .. N - 1 :
        rec'[p][b][a] = IF InBlock(b, y, s) /\ InBlock(a, x, s) THEN v ELSE rec[p][b][a]
  <2>1. \A b \in PUs : \A a \in -1 .. N - 1 :
          Fill(rec[p], x, y, s, v)[b][a]
            = IF InBlock(b, y, s) /\ InBlock(a, x, s) THEN v ELSE rec[p][b][a]
    BY <1>3 DEF Grid, Fill
  <2> QED BY <1>4, <2>1
<1>7. \A r \in 0 .. Height - 1 : \A c \in 0 .. Width - 1 :
        pic'[p][r][c] = IF InBlock(r, OffsetY + y, s) /\ InBlock(c, OffsetX + x, s)
                          THEN v ELSE pic[p][r][c]
  <2>1. \A r \in 0 .. Height - 1 : \A c \in 0 .. Width - 1 :
          Fill(pic[p], OffsetX + x, OffsetY + y, s, v)[r][c]
            = IF InBlock(r, OffsetY + y, s) /\ InBlock(c, OffsetX + x, s)
                THEN v ELSE pic[p][r][c]
    BY <1>3 DEF Grid, Fill
  <2> QED BY <1>4, <2>1
<1>8. ASSUME NEW a \in PUs, NEW b \in PUs
      PROVE  /\ rec'[p][b][a] = IF InBlock(a, x, s) /\ InBlock(b, y, s) THEN v ELSE rec[p][b][a]
             /\ pic'[p][OffsetY + b][OffsetX + a] =
                  IF InBlock(a, x, s) /\ InBlock(b, y, s) THEN v
                  ELSE pic[p][OffsetY + b][OffsetX + a]
  <2>1. OffsetX + a \in 0 .. Width - 1 /\ OffsetY + b \in 0 .. Height - 1
    BY PictureCell
  <2>2. /\ InBlock(OffsetX + a, OffsetX + x, s) <=> InBlock(a, x, s)
        /\ InBlock(OffsetY + b, OffsetY + y, s) <=> InBlock(b, y, s)
    BY <1>1, <1>2 DEF InBlock
  <2>3. a \in -1 .. N - 1
    BY <1>2
  <2> QED BY <1>6, <1>7, <2>1, <2>2, <2>3
<1>9. ASSUME NEW b \in PUs PROVE rec'[p][b][-1] = rec[p][b][-1]
  <2>1. ~InBlock(-1, x, s) /\ -1 \in -1 .. N - 1
    BY <1>1, <1>2 DEF InBlock
  <2> QED BY <1>6, <2>1
<1>10. OthersSame
  <2> SUFFICES ASSUME NEW q \in Planes, NEW r \in 0 .. Height - 1, NEW c \in 0 .. Width - 1,
                      r \notin OffsetY .. OffsetY + 7 \/ c \notin OffsetX .. OffsetX + 7
               PROVE  pic'[q][r][c] = pic[q][r][c]
    BY DEF OthersSame
  <2>1. ~(InBlock(r, OffsetY + y, s) /\ InBlock(c, OffsetX + x, s))
    BY <1>1, <1>2 DEF InBlock
  <2>2. CASE q = p
    BY <1>7, <2>1, <2>2
  <2>3. CASE q # p
    BY <1>5, <2>3
  <2> QED BY <2>2, <2>3
<1> QED BY <1>5, <1>7, <1>8, <1>9, <1>10

(* Nor a sample before a block that does not come after this one. *)
LEMMA DecodedSame ==
  ASSUME CountersOK, BuffersOK, NEW p \in Planes, NEW x, NEW y, NEW s, AlignedAt(x, y, s),
         NEW v, BlockWritten(p, x, y, s, v),
         NEW a \in PUs, NEW b \in PUs, Z(a, b) <= Z(x, y),
         NEW at, Decoded(at, OffsetX + a, OffsetY + b)
  PROVE  pic'[p][at[2]][at[1]] = pic[p][at[2]][at[1]]
<1>1. /\ \A i, j \in PUs :
           pic'[p][OffsetY + j][OffsetX + i] =
             IF InBlock(i, x, s) /\ InBlock(j, y, s) THEN v
             ELSE pic[p][OffsetY + j][OffsetX + i]
      /\ OthersSame
  BY BlockChanges
<1>2. at[1] \in 0 .. Width - 1 /\ at[2] \in 0 .. Height - 1
  BY DEF Decoded
<1>3. /\ OffsetX \in Nat /\ OffsetY \in Nat /\ PUs = 0 .. 7 /\ N = 8
      /\ Width \in Nat /\ Height \in Nat
  BY Place
<1>4. CASE at[2] \notin OffsetY .. OffsetY + 7 \/ at[1] \notin OffsetX .. OffsetX + 7
  BY <1>1, <1>2, <1>4 DEF OthersSame
<1>5. CASE at[2] \in OffsetY .. OffsetY + 7 /\ at[1] \in OffsetX .. OffsetX + 7
  <2>1. PICK i, j : i = at[1] - OffsetX /\ j = at[2] - OffsetY
    OBVIOUS
  <2>2. i \in PUs /\ j \in PUs /\ at[1] = OffsetX + i /\ at[2] = OffsetY + j
    BY <1>2, <1>3, <1>5, <2>1
  <2>3. Order(OffsetX + i, OffsetY + j) < Order(OffsetX + a, OffsetY + b)
    BY <2>2 DEF Decoded
  <2>4. Decoded(<<OffsetX + i, OffsetY + j>>, OffsetX + a, OffsetY + b)
    BY <1>2, <2>2, <2>3 DEF Decoded
  <2>5. i \in -1 .. 15 /\ j \in -1 .. 15 /\ i \in 0 .. 7 /\ j \in 0 .. 7
    BY <1>3, <2>2
  <2>6. Z(i, j) < Z(a, b)
    <3>1. Sees(i, j, a, b)
      BY <2>4, <2>5, DecodedIs
    <3> QED BY <2>5, <3>1 DEF Sees
  <2>7. ~(InBlock(i, x, s) /\ InBlock(j, y, s))
    <3>1. x \in PUs /\ y \in PUs /\ s \in Sizes /\ x % s = 0 /\ y % s = 0
      BY DEF AlignedAt
    <3>2. Z(x, y) <= Z(i, j) /\ Z(i, j) < Z(x, y) + s * s
            <=> InBlock(i, x, s) /\ InBlock(j, y, s)
      BY <2>2, <3>1, ZBlock
    <3>3. Z(i, j) \in 0 .. 63 /\ Z(a, b) \in 0 .. 63 /\ Z(x, y) \in 0 .. 63
      BY <2>2, <3>1, ZIs
    <3> QED BY <2>6, <3>2, <3>3
  <2> QED BY <1>1, <2>2, <2>7
<1> QED BY <1>4, <1>5

(* The samples around the CTU that the arrays are compared with.           *)
LEMMA BordersSame ==
  ASSUME CountersOK, OthersSame, NEW p \in Planes
  PROVE  /\ cy > 0 => \A k \in 1 .. Width :
              pic'[p][OffsetY - 1][k - 1] = pic[p][OffsetY - 1][k - 1]
         /\ \A k \in 1 .. OffsetX :
              pic'[p][OffsetY + N - 1][k - 1] = pic[p][OffsetY + N - 1][k - 1]
         /\ cx > 0 => \A y \in PUs :
              pic'[p][OffsetY + y][OffsetX - 1] = pic[p][OffsetY + y][OffsetX - 1]
<1>1. /\ cx \in 0 .. TileWidth - 1 /\ cy \in 0 .. TileHeight - 1
      /\ OffsetX = 8 * cx /\ OffsetY = 8 * cy
      /\ Width = 8 * TileWidth /\ Height = 8 * TileHeight
      /\ TileWidth \in Nat \ {0} /\ TileHeight \in Nat \ {0} /\ PUs = 0 .. 7 /\ N = 8
  BY Place
<1>2. ASSUME cy > 0, NEW k \in 1 .. Width
      PROVE  pic'[p][OffsetY - 1][k - 1] = pic[p][OffsetY - 1][k - 1]
  <2>1. OffsetY - 1 \in 0 .. Height - 1 /\ k - 1 \in 0 .. Width - 1
        /\ OffsetY - 1 \notin OffsetY .. OffsetY + 7
    BY <1>1, <1>2
  <2> QED BY <2>1 DEF OthersSame
<1>3. ASSUME NEW k \in 1 .. OffsetX
      PROVE  pic'[p][OffsetY + N - 1][k - 1] = pic[p][OffsetY + N - 1][k - 1]
  <2>1. OffsetY + N - 1 \in 0 .. Height - 1 /\ k - 1 \in 0 .. Width - 1
        /\ k - 1 \notin OffsetX .. OffsetX + 7
    BY <1>1
  <2> QED BY <2>1 DEF OthersSame
<1>4. ASSUME cx > 0, NEW y \in PUs
      PROVE  pic'[p][OffsetY + y][OffsetX - 1] = pic[p][OffsetY + y][OffsetX - 1]
  <2>1. OffsetY + y \in 0 .. Height - 1 /\ OffsetX - 1 \in 0 .. Width - 1
        /\ OffsetX - 1 \notin OffsetX .. OffsetX + 7
    BY <1>1, <1>4
  <2> QED BY <2>1 DEF OthersSame
<1> QED BY <1>2, <1>3, <1>4

(* So what is on the borders stays right while blocks of the CTU are       *)
(* reconstructed.                                                          *)
LEMMA BordersStay ==
  ASSUME CountersOK, LeftOK, RefTopOK, OthersSame, UNCHANGED <<ctu, refTop, savedLT>>,
         pc \in Searching \cup {"CompressChromaCU"},
         pc' \in Searching \cup {"CompressChromaCU"},
         \A p \in Planes : \A y \in PUs : rec'[p][y][-1] = rec[p][y][-1],
         \A r \in 0 .. N + 1 : \A c \in 0 .. N + 1 :
           c = 0 \/ r = N + 1 \/ c = N + 1 => neighMode'[r][c] = neighMode[r][c]
  PROVE  LeftOK' /\ RefTopOK'
<1>1. UNCHANGED <<cx, cy, OffsetX, OffsetY>> /\ Width' = Width /\ Height' = Height
  BY SameCTU
<1>2. /\ pc \notin {"InitBuffersNewTile", "Done", "PrepareCTU"} /\ pc \notin CTUCoded
      /\ pc' \notin {"InitBuffersNewTile", "Done", "PrepareCTU"} /\ pc' \notin CTUCoded
  BY DEF Searching, CTUCoded
<1>3. /\ OffsetX \in Nat /\ Width \in Nat /\ OffsetX + 8 <= Width
      /\ PUs = 0 .. 7 /\ N = 8 /\ "Y" \in Planes /\ OffsetX = 8 * cx /\ cx \in Nat
  BY Place DEF Planes
<1>4. LeftOK'
  <2>1. /\ cx > 0 => \A y \in PUs :
             /\ neighMode[y + 1][0] = pic["Y"][OffsetY + y][OffsetX - 1]
             /\ \A p \in Planes : rec[p][y][-1] = pic[p][OffsetY + y][OffsetX - 1]
        /\ cx = 0 => \A y \in PUs : neighMode[y + 1][0] = INVALID_MODE
        /\ \A c \in 0 .. N + 1 : neighMode[N + 1][c] = INVALID_MODE
        /\ \A r \in 1 .. N + 1 : neighMode[r][N + 1] = INVALID_MODE
    BY <1>2 DEF LeftOK
  <2>2. \A y \in PUs : neighMode'[y + 1][0] = neighMode[y + 1][0]
    <3> SUFFICES ASSUME NEW y \in PUs PROVE neighMode'[y + 1][0] = neighMode[y + 1][0]
      OBVIOUS
    <3>1. y + 1 \in 0 .. N + 1 /\ 0 \in 0 .. N + 1
      BY <1>3
    <3> QED BY <3>1
  <2>3. \A c \in 0 .. N + 1 : neighMode'[N + 1][c] = neighMode[N + 1][c]
    BY <1>3
  <2>4. \A r \in 1 .. N + 1 : neighMode'[r][N + 1] = neighMode[r][N + 1]
    BY <1>3
  <2>5. cx > 0 => \A p \in Planes : \A y \in PUs :
          pic'[p][OffsetY + y][OffsetX - 1] = pic[p][OffsetY + y][OffsetX - 1]
    BY BordersSame
  <2>6. cx > 0 => \A y \in PUs :
             /\ neighMode'[y + 1][0] = pic'["Y"][OffsetY + y][OffsetX - 1]
             /\ \A p \in Planes : rec'[p][y][-1] = pic'[p][OffsetY + y][OffsetX - 1]
    BY <1>3, <2>1, <2>2, <2>5
  <2>7. cx = 0 => \A y \in PUs : neighMode'[y + 1][0] = INVALID_MODE
    BY <2>1, <2>2
  <2>8. /\ \A c \in 0 .. N + 1 : neighMode'[N + 1][c] = INVALID_MODE
        /\ \A r \in 1 .. N + 1 : neighMode'[r][N + 1] = INVALID_MODE
    BY <2>1, <2>3, <2>4
  <2> QED BY <1>1, <1>2, <2>6, <2>7, <2>8 DEF LeftOK
<1>5. RefTopOK'
  <2> SUFFICES ASSUME NEW p \in Planes
               PROVE  /\ cy > 0 => \A k \in OffsetX + 1 .. Width : RowAbove(p, k)'
                      /\ \A k \in 1 .. OffsetX - 1 : RowBelow(p, k)'
                      /\ cx > 0 => savedLT'[p] = pic'[p][OffsetY + N - 1][OffsetX - 1]
                      /\ cx > 0 /\ cy > 0 => RowAbove(p, OffsetX)'
    BY <1>1, <1>2 DEF RefTopOK
  <2>1. /\ cy > 0 => \A k \in OffsetX + 1 .. Width : RowAbove(p, k)
        /\ \A k \in 1 .. OffsetX - 1 : RowBelow(p, k)
        /\ cx > 0 => savedLT[p] = pic[p][OffsetY + N - 1][OffsetX - 1]
        /\ cx > 0 /\ cy > 0 => RowAbove(p, OffsetX)
    BY <1>2 DEF RefTopOK
  <2>2. /\ cy > 0 => \A k \in 1 .. Width :
             pic'[p][OffsetY - 1][k - 1] = pic[p][OffsetY - 1][k - 1]
        /\ \A k \in 1 .. OffsetX :
             pic'[p][OffsetY + N - 1][k - 1] = pic[p][OffsetY + N - 1][k - 1]
    BY BordersSame
  <2>3. cy > 0 => \A k \in 1 .. Width : RowAbove(p, k) => RowAbove(p, k)'
    BY <1>1, <2>2 DEF RowAbove
  <2>4. \A k \in 1 .. OffsetX : RowBelow(p, k) => RowBelow(p, k)'
    BY <1>1, <2>2 DEF RowBelow
  <2>5. cx > 0 => OffsetX \in 1 .. Width /\ OffsetX \in 1 .. OffsetX
    BY <1>3
  <2>6. (\A k \in OffsetX + 1 .. Width : k \in 1 .. Width)
        /\ (\A k \in 1 .. OffsetX - 1 : k \in 1 .. OffsetX)
    BY <1>3
  <2>7. cx > 0 => savedLT'[p] = pic'[p][OffsetY + N - 1][OffsetX - 1]
    BY <2>1, <2>2, <2>5
  <2>8. ASSUME cy > 0, NEW k \in OffsetX + 1 .. Width PROVE RowAbove(p, k)'
    BY <2>1, <2>3, <2>6, <2>8
  <2>9. ASSUME NEW k \in 1 .. OffsetX - 1 PROVE RowBelow(p, k)'
    BY <2>1, <2>4, <2>6
  <2>10. cx > 0 /\ cy > 0 => RowAbove(p, OffsetX)'
    BY <1>1, <2>1, <2>2, <2>5 DEF RowAbove
  <2> QED BY <2>7, <2>8, <2>9, <2>10
<1> QED BY <1>4, <1>5

LEMMA CodeCURef == CTUInv /\ RefInv /\ CodeCU => RefInv'
<1> SUFFICES ASSUME CTUInv, RefInv, CodeCU PROVE RefInv'
  OBVIOUS
<1>1. /\ pc = "CodeCU" /\ pc \in Searching /\ stack' = Front(stack)
      /\ pc' = (IF Len(stack) = 1 THEN "CompressChromaCU" ELSE "PartDone")
      /\ UNCHANGED <<ctu, tempPred, refTop, savedLT, refC>>
  BY DEF CodeCU, Searching
<1>2. pc' \in {"CompressChromaCU", "PartDone"}
  BY <1>1
<1>3. UNCHANGED <<cx, cy, OffsetX, OffsetY>> /\ Width' = Width /\ Height' = Height
  BY <1>1, SameCTU
<1> DEFINE n == Len(stack)
<1>4. /\ stack \in Seq(Activation) /\ stack # <<>> /\ n \in Nat \ {0}
      /\ DOMAIN stack = 1 .. n /\ cu = stack[n] /\ n \in DOMAIN stack
  BY <1>1, StackFacts DEF CTUInv
<1>5. PICK d \in Activation : d = cu
  BY <1>1, StackFacts DEF CTUInv
<1>6. PICK x, y, s : x = d.x /\ y = d.y /\ s = d.size
  OBVIOUS
<1>7. AlignedAt(x, y, s) /\ x \in PUs /\ y \in PUs /\ s \in Sizes /\ x % s = 0 /\ y % s = 0
  BY <1>4, <1>5, <1>6, ActivationIs DEF CTUInv, AlignedAt
<1>8. /\ OffsetX \in Nat /\ OffsetY \in Nat /\ PUs = 0 .. 7 /\ N = 8
      /\ Width \in Nat /\ Height \in Nat
  BY Place DEF CTUInv
<1>9. x \in 0 .. 7 /\ y \in 0 .. 7 /\ s \in {1, 2, 4, 8} /\ x + s <= 8 /\ y + s <= 8
  BY <1>7, AlignedIs
<1>10. PICK tag : tag = <<OffsetX + x, OffsetY + y, s>>
  OBVIOUS
<1>11. /\ tag[1] = OffsetX + x /\ tag[2] = OffsetY + y /\ tag[3] = s /\ tag # INVALID_MODE
  BY <1>10 DEF INVALID_MODE
<1>12. /\ BlockWritten("Y", x, y, s, tag)
       /\ infoL' = Fill(infoL, x + 1, y + 1, s, [cu |-> tag, valid |-> d.valid])
       /\ neighMode' = Fill(neighMode, x + 1, y + 1, s, tag)
  BY <1>5, <1>6, <1>10, <1>11 DEF CodeCU, Tag, BlockWritten
<1>13. CountersOK /\ BuffersOK /\ "Y" \in Planes /\ "C" \in Planes
  BY DEF CTUInv, Planes
<1> DEFINE In(a, b) == InBlock(a, x, s) /\ InBlock(b, y, s)
<1>14. /\ rec'["C"] = rec["C"] /\ pic'["C"] = pic["C"]
       /\ \A a, b \in PUs :
            /\ rec'["Y"][b][a] = IF In(a, b) THEN tag ELSE rec["Y"][b][a]
            /\ pic'["Y"][OffsetY + b][OffsetX + a] =
                 IF In(a, b) THEN tag ELSE pic["Y"][OffsetY + b][OffsetX + a]
       /\ \A b \in PUs : rec'["Y"][b][-1] = rec["Y"][b][-1]
       /\ \A r \in 0 .. Height - 1 : \A c \in 0 .. Width - 1 :
            pic'["Y"][r][c] = tag \/ pic'["Y"][r][c] = pic["Y"][r][c]
       /\ OthersSame
  BY <1>7, <1>12, <1>13, "C" # "Y", BlockChanges
<1>15. \A a, b \in PUs :
         /\ infoL'[b + 1][a + 1] = IF In(a, b) THEN [cu |-> tag, valid |-> d.valid]
                                   ELSE infoL[b + 1][a + 1]
         /\ neighMode'[b + 1][a + 1] = IF In(a, b) THEN tag ELSE neighMode[b + 1][a + 1]
  <2> SUFFICES ASSUME NEW a \in PUs, NEW b \in PUs
               PROVE  /\ infoL'[b + 1][a + 1] = IF In(a, b) THEN [cu |-> tag, valid |-> d.valid]
                                                ELSE infoL[b + 1][a + 1]
                      /\ neighMode'[b + 1][a + 1] = IF In(a, b) THEN tag
                                                    ELSE neighMode[b + 1][a + 1]
    OBVIOUS
  <2>1. /\ a + 1 \in 0 .. N /\ b + 1 \in 0 .. N /\ a + 1 \in 0 .. N + 1 /\ b + 1 \in 0 .. N + 1
    BY <1>8
  <2>2. InBlock(a + 1, x + 1, s) /\ InBlock(b + 1, y + 1, s) <=> In(a, b)
    BY <1>8, <1>9 DEF InBlock
  <2>3. Grid(infoL, 0 .. N, 0 .. N)
    BY <1>13 DEF BuffersOK
  <2>4. infoL'[b + 1][a + 1] = IF In(a, b) THEN [cu |-> tag, valid |-> d.valid]
                               ELSE infoL[b + 1][a + 1]
    BY <1>12, <2>1, <2>2, <2>3 DEF Grid, Fill
  <2>5. neighMode \in [0 .. N + 1 -> [0 .. N + 1 -> Seq(Int)]]
    BY <1>13 DEF BuffersOK
  <2>6. neighMode'[b + 1][a + 1] = IF In(a, b) THEN tag ELSE neighMode[b + 1][a + 1]
    BY <1>12, <2>1, <2>2, <2>5 DEF Fill
  <2> QED BY <2>4, <2>6
<1>16. \A r \in 0 .. N + 1 : \A c \in 0 .. N + 1 :
         c = 0 \/ r = 0 \/ r = N + 1 \/ c = N + 1 => neighMode'[r][c] = neighMode[r][c]
  <2> SUFFICES ASSUME NEW r \in 0 .. N + 1, NEW c \in 0 .. N + 1,
                      c = 0 \/ r = 0 \/ r = N + 1 \/ c = N + 1
               PROVE  neighMode'[r][c] = neighMode[r][c]
    OBVIOUS
  <2>1. ~(InBlock(r, y + 1, s) /\ InBlock(c, x + 1, s))
    BY <1>8, <1>9 DEF InBlock
  <2>2. neighMode \in [0 .. N + 1 -> [0 .. N + 1 -> Seq(Int)]]
    BY <1>13 DEF BuffersOK
  <2> QED BY <1>12, <2>1, <2>2 DEF Fill
<1>17. \A a, b \in PUs : In(a, b) <=> Z(x, y) <= Z(a, b) /\ Z(a, b) < Z(x, y) + s * s
  BY <1>7, ZBlock
<1> HIDE DEF In
<1>18. LeftOK' /\ RefTopOK'
  <2>1. LeftOK /\ RefTopOK
    BY DEF RefInv
  <2>2. /\ pc \in Searching \cup {"CompressChromaCU"}
        /\ pc' \in Searching \cup {"CompressChromaCU"}
    BY <1>1, <1>2 DEF Searching
  <2>3. \A p \in Planes : \A b \in PUs : rec'[p][b][-1] = rec[p][b][-1]
    BY <1>14 DEF Planes
  <2>4. UNCHANGED <<ctu, refTop, savedLT>> /\ OthersSame
    BY <1>1, <1>14
  <2>5. \A r \in 0 .. N + 1 : \A c \in 0 .. N + 1 :
          c = 0 \/ r = N + 1 \/ c = N + 1 => neighMode'[r][c] = neighMode[r][c]
    BY <1>16
  <2> QED BY <1>13, <2>1, <2>2, <2>3, <2>4, <2>5, BordersStay
<1>19. AboveOK'
  <2>1. \A c \in 0 .. N + 1 : neighMode'[0][c] = neighMode[0][c]
    BY <1>8, <1>16
  <2>2. /\ neighMode'[0][0] = neighMode[0][0] /\ neighMode'[0][N + 1] = neighMode[0][N + 1]
        /\ \A c \in 1 .. N : neighMode'[0][c] = neighMode[0][c]
    BY <1>8, <2>1
  <2>3. InCTU
    BY <1>1 DEF InCTU
  <2>4. /\ neighMode[0][0] # INVALID_MODE <=> cx > 0 /\ cy > 0
        /\ neighMode[0][N + 1] # INVALID_MODE <=> cx < TileWidth - 1 /\ cy > 0
        /\ \A c \in 1 .. N : neighMode[0][c] # INVALID_MODE <=> cy > 0
    BY <2>3 DEF RefInv, AboveOK
  <2>5. /\ neighMode'[0][0] # INVALID_MODE <=> cx' > 0 /\ cy' > 0
        /\ neighMode'[0][N + 1] # INVALID_MODE <=> cx' < TileWidth - 1 /\ cy' > 0
        /\ \A c \in 1 .. N : neighMode'[0][c] # INVALID_MODE <=> cy' > 0
    BY <1>3, <2>2, <2>4
  <2> QED BY <2>5 DEF AboveOK
<1>20. PicOK'
  <2>1. \A r \in 0 .. Height - 1 : \A c \in 0 .. Width - 1 : pic["Y"][r][c] # INVALID_MODE
    BY DEF RefInv, PicOK
  <2>2. \A r \in 0 .. Height - 1 : \A c \in 0 .. Width - 1 : pic'["Y"][r][c] # INVALID_MODE
    BY <1>11, <1>14, <2>1
  <2> QED BY <1>3, <2>2 DEF PicOK
<1>21. ChromaRefOK'
  BY <1>1, <1>14, ChromaRefSame DEF RefInv
<1>22. Lo = Z(x, y) /\ Hi = Z(x, y) + s * s
  BY <1>1, <1>5, <1>6 DEF Lo, Hi
<1>23. Lo' = Z(x, y) + s * s /\ Hi' = Z(x, y) + s * s
  <2>1. CTUInv'
    BY CodeCUOK
  <2>2. StackOK /\ StackOK'
    BY <2>1 DEF CTUInv
  <2>3. Lo' = Z(cu.x, cu.y) + cu.size * cu.size /\ Hi' = Lo'
    BY <1>1, <2>2, ReturnPlace
  <2> QED BY <1>5, <1>6, <2>3
<1>24. d.valid = Avail(OffsetX + x, OffsetY + y, s)
  <2>1. Tested(stack[n])
    BY <1>1, <1>4 DEF RefInv, TestedOK
  <2> QED BY <1>4, <1>5, <1>6, <2>1 DEF Tested
<1>25. ASSUME NEW a \in PUs, NEW b \in PUs, In(a, b)
       PROVE  PUDone(a, b)'
  <2>1. SizeAt(a, b)' = s
    BY <1>11, <1>15, <1>25 DEF SizeAt
  <2>2. Start(a, s) = x /\ Start(b, s) = y
    <3>1. /\ a \in 0 .. 7 /\ b \in 0 .. 7 /\ x <= a /\ a < x + s /\ y <= b /\ b < y + s
      BY <1>8, <1>25 DEF In, InBlock
    <3>2. CASE s = 1
      BY <1>7, <1>9, <3>1, <3>2 DEF Start
    <3>3. CASE s = 2
      BY <1>7, <1>9, <3>1, <3>3 DEF Start
    <3>4. CASE s = 4
      BY <1>7, <1>9, <3>1, <3>4 DEF Start
    <3>5. CASE s = 8
      BY <1>7, <1>9, <3>1, <3>5 DEF Start
    <3> QED BY <1>9, <3>2, <3>3, <3>4, <3>5
  <2>3. PICK X, Y : X = OffsetX + x /\ Y = OffsetY + y
    OBVIOUS
  <2>4. (OffsetX + Start(a, s))' = X /\ (OffsetY + Start(b, s))' = Y
    BY <1>3, <2>2, <2>3 DEF Start
  <2>5. Avail(X, Y, s)' = Avail(X, Y, s)
    BY DEF Avail, Decoded, Order, Z, Width, Height
  <2>6. infoL'[b + 1][a + 1].valid = Avail(X, Y, s)'
    BY <1>15, <1>24, <1>25, <2>3, <2>5
  <2>7. neighMode'[b + 1][a + 1] = tag /\ rec'["Y"][b][a] = tag
        /\ pic'["Y"][OffsetY + b][OffsetX + a] = tag
    BY <1>14, <1>15, <1>25
  <2> QED BY <1>3, <1>7, <2>1, <2>4, <2>6, <2>7 DEF PUDone, Kept
<1>26. ASSUME NEW a \in PUs, NEW b \in PUs, ~In(a, b), PUDone(a, b)
       PROVE  PUDone(a, b)'
  <2>1. /\ infoL'[b + 1][a + 1] = infoL[b + 1][a + 1]
        /\ neighMode'[b + 1][a + 1] = neighMode[b + 1][a + 1]
        /\ rec'["Y"][b][a] = rec["Y"][b][a]
        /\ pic'["Y"][OffsetY + b][OffsetX + a] = pic["Y"][OffsetY + b][OffsetX + a]
    BY <1>14, <1>15, <1>26
  <2>2. PICK z : z = SizeAt(a, b)
    OBVIOUS
  <2>3. SizeAt(a, b)' = z
    BY <2>1, <2>2 DEF SizeAt
  <2>4. PICK X, Y : X = OffsetX + Start(a, z) /\ Y = OffsetY + Start(b, z)
    OBVIOUS
  <2>5. (OffsetX + Start(a, z))' = X /\ (OffsetY + Start(b, z))' = Y
    BY <1>3, <2>4 DEF Start
  <2>6. infoL[b + 1][a + 1].valid = Avail(X, Y, z)
    BY <1>26, <2>2, <2>4 DEF PUDone
  <2>7. Avail(X, Y, z)' = Avail(X, Y, z)
    BY DEF Avail, Decoded, Order, Z, Width, Height
  <2>8. infoL'[b + 1][a + 1].valid = Avail(X, Y, z)'
    BY <2>1, <2>6, <2>7
  <2> QED BY <1>3, <1>26, <2>1, <2>2, <2>3, <2>5, <2>8 DEF PUDone, Kept
<1>27. SearchRefOK'
  <2> SUFFICES ASSUME NEW a \in PUs, NEW b \in PUs
               PROVE  /\ Z(a, b) < Lo' => PUDone(a, b)'
                      /\ Z(a, b) >= Hi' => neighMode'[b + 1][a + 1] = INVALID_MODE
    BY DEF SearchRefOK
  <2>1. Z(a, b) \in 0 .. 63 /\ Z(x, y) \in 0 .. 63
    BY <1>7, ZIs
  <2>2. /\ Z(a, b) < Lo => PUDone(a, b)
        /\ Z(a, b) >= Hi => neighMode[b + 1][a + 1] = INVALID_MODE
    BY <1>1 DEF RefInv, SearchRefOK
  <2>3. ASSUME Z(a, b) < Lo' PROVE PUDone(a, b)'
    <3>1. CASE In(a, b)
      BY <1>25, <3>1
    <3>2. CASE ~In(a, b)
      <4>1. Z(a, b) < Lo
        BY <1>17, <1>22, <1>23, <2>1, <2>3, <3>2
      <4> QED BY <1>26, <2>2, <3>2, <4>1
    <3> QED BY <3>1, <3>2
  <2>4. ASSUME Z(a, b) >= Hi' PROVE neighMode'[b + 1][a + 1] = INVALID_MODE
    <3>1. ~In(a, b)
      <4>1. s * s \in Nat
        BY <1>9
      <4> QED BY <1>17, <1>23, <2>1, <2>4, <4>1
    <3> QED BY <1>15, <1>22, <1>23, <2>2, <2>4, <3>1
  <2> QED BY <2>3, <2>4
<1>28. TestedOK'
  <2>1. /\ stack' \in Seq(Activation) /\ Len(stack') = n - 1
        /\ \A k \in 1 .. n - 1 : stack'[k] = stack[k]
    BY <1>1, <1>4, StackParts
  <2>2. DOMAIN stack' = 1 .. n - 1
    BY <1>4, <2>1
  <2> SUFFICES ASSUME NEW k \in 1 .. n - 1 PROVE Tested(stack[k])'
    BY <2>2 DEF TestedOK
  <2>3. k \in DOMAIN stack /\ k \in 1 .. n
    BY <1>4
  <2>4. PICK c \in Activation : c = stack[k]
    BY <2>3, ActivationIs DEF CTUInv
  <2>5. Tested(c) /\ AlignedAt(c.x, c.y, c.size)
    BY <1>1, <2>3, <2>4, ActivationIs DEF RefInv, CTUInv, TestedOK
  <2>6. c.x \in PUs /\ c.y \in PUs /\ c.size \in Sizes /\ c.x % c.size = 0 /\ c.y % c.size = 0
    BY <2>5 DEF AlignedAt
  <2>7. Inside(d, c)
    BY <1>4, <1>5, <2>3, <2>4 DEF CTUInv, StackOK
  <2>8. Z(c.x, c.y) <= Z(x, y)
    <3>1. InBlock(x, c.x, c.size) /\ InBlock(y, c.y, c.size)
      <4>1. /\ c.x <= x /\ x + s <= c.x + c.size /\ c.y <= y /\ y + s <= c.y + c.size
        BY <1>6, <2>7 DEF Inside
      <4>2. c.x \in Int /\ c.y \in Int /\ c.size \in Int
        BY <1>8, <2>6 DEF Sizes
      <4> QED BY <1>9, <4>1, <4>2 DEF InBlock
    <3> QED BY <1>7, <2>6, <3>1, ZBlock
  <2>9. \A at : Decoded(at, OffsetX + c.x, OffsetY + c.y)
          => pic'["Y"][at[2]][at[1]] = pic["Y"][at[2]][at[1]]
    BY <1>7, <1>12, <1>13, <2>6, <2>8, DecodedSame
  <2>10. Tested(c)'
    BY <1>1, <2>5, <2>6, <2>9, TestedSame
  <2>11. stack'[k] = c
    BY <2>1, <2>4
  <2> QED BY <2>10, <2>11
<1>29. RefBuffersOK'
  BY <1>1, <1>2, <1>3 DEF RefInv, RefBuffersOK
<1> QED BY <1>18, <1>19, <1>20, <1>21, <1>27, <1>28, <1>29 DEF RefInv

(* The availability for a chroma block: that of the CU of its size or, for *)
(* four 4x4 luma blocks, the zones of the first but for the lower left of  *)
(* the third and the upper right of the second.                            *)
LEMMA ChromaAvailIs ==
  ASSUME CountersOK, NEW x, NEW y, NEW s, AlignedAt(x, y, s), s \in {2, 4, 8},
         \A a, b \in PUs : PUDone(a, b),
         \A a, b \in PUs : InBlock(a, x, s) /\ InBlock(b, y, s) => SizeAt(a, b) = SizeAt(x, y),
         s = ChromaSize(x, y)
  PROVE  ChromaAvail(x, y) = Avail(OffsetX + x, OffsetY + y, s)
<1>1. /\ x \in 0 .. 7 /\ y \in 0 .. 7 /\ x + s <= 8 /\ y + s <= 8 /\ x % s = 0 /\ y % s = 0
      /\ x \in PUs /\ y \in PUs
  BY AlignedIs DEF AlignedAt
<1>2. /\ OffsetX \in Nat /\ OffsetY \in Nat /\ PUs = 0 .. 7 /\ N = 8
  BY Place
<1>3. CASE SizeAt(x, y) # 1
  <2>1. s = SizeAt(x, y)
    BY <1>3 DEF ChromaSize
  <2>2. Start(x, s) = x /\ Start(y, s) = y
    BY <1>1 DEF Start
  <2>3. infoL[y + 1][x + 1].valid = Avail(OffsetX + x, OffsetY + y, s)
    BY <1>1, <2>1, <2>2 DEF PUDone
  <2>4. ChromaAvail(x, y) = infoL[y + 1][x + 1].valid
    BY <1>3 DEF ChromaAvail, SizeAt
  <2> QED BY <2>3, <2>4
<1>4. CASE SizeAt(x, y) = 1
  <2>1. s = 2
    BY <1>4 DEF ChromaSize
  <2>2. \A a, b \in PUs : InBlock(a, x, 2) /\ InBlock(b, y, 2) =>
          infoL[b + 1][a + 1].valid = Avail(OffsetX + a, OffsetY + b, 1)
    <3> SUFFICES ASSUME NEW a \in PUs, NEW b \in PUs, InBlock(a, x, 2), InBlock(b, y, 2)
                 PROVE  infoL[b + 1][a + 1].valid = Avail(OffsetX + a, OffsetY + b, 1)
      OBVIOUS
    <3>1. SizeAt(a, b) = 1
      BY <1>4, <2>1
    <3>2. Start(a, 1) = a /\ Start(b, 1) = b
      BY <1>2 DEF Start
    <3> QED BY <3>1, <3>2 DEF PUDone
  <2>3. /\ x + 1 \in PUs /\ y + 1 \in PUs
        /\ InBlock(x, x, 2) /\ InBlock(y, y, 2) /\ InBlock(x + 1, x, 2) /\ InBlock(y + 1, y, 2)
    BY <1>1, <1>2, <2>1 DEF InBlock
  <2>4. /\ infoL[y + 1][x + 1].valid = Avail(OffsetX + x, OffsetY + y, 1)
        /\ infoL[y + 2][x + 1].valid = Avail(OffsetX + x, OffsetY + (y + 1), 1)
        /\ infoL[y + 1][x + 2].valid = Avail(OffsetX + (x + 1), OffsetY + y, 1)
    <3>1. (y + 1) + 1 = y + 2 /\ (x + 1) + 1 = x + 2
      BY <1>1
    <3> QED BY <1>1, <2>2, <2>3, <3>1
  <2>5. AlignedAt(x, y, 1) /\ AlignedAt(x, y + 1, 1) /\ AlignedAt(x + 1, y, 1)
        /\ AlignedAt(x, y, 2)
    BY <1>1, <1>2, <2>1, <2>3 DEF AlignedAt, Sizes
  <2>6. Avail(OffsetX + x, OffsetY + y, 1) =
          <<Sees(x - 1, y + 1, x, y), Sees(x - 1, y, x, y), Sees(x - 1, y - 1, x, y),
            Sees(x, y - 1, x, y), Sees(x + 1, y - 1, x, y)>>
    BY <2>5, AvailIs
  <2>7. Avail(OffsetX + x, OffsetY + y, 2) =
          <<Sees(x - 1, y + 2, x, y), Sees(x - 1, y, x, y), Sees(x - 1, y - 1, x, y),
            Sees(x, y - 1, x, y), Sees(x + 2, y - 1, x, y)>>
    BY <2>5, AvailIs
  <2>8. Avail(OffsetX + x, OffsetY + (y + 1), 1)[1] = Sees(x - 1, y + 2, x, y + 1)
    <3>1. PICK w : w = y + 1
      OBVIOUS
    <3>2. Avail(OffsetX + x, OffsetY + w, 1) =
            <<Sees(x - 1, w + 1, x, w), Sees(x - 1, w, x, w), Sees(x - 1, w - 1, x, w),
              Sees(x, w - 1, x, w), Sees(x + 1, w - 1, x, w)>>
      BY <2>5, <3>1, AvailIs
    <3>3. w + 1 = y + 2
      BY <1>1, <3>1
    <3>4. Avail(OffsetX + x, OffsetY + w, 1)[1] = Sees(x - 1, w + 1, x, w)
      BY <3>2
    <3> QED BY <3>1, <3>3, <3>4
  <2>9. Avail(OffsetX + (x + 1), OffsetY + y, 1)[5] = Sees(x + 2, y - 1, x + 1, y)
    <3>1. PICK w : w = x + 1
      OBVIOUS
    <3>2. Avail(OffsetX + w, OffsetY + y, 1) =
            <<Sees(w - 1, y + 1, w, y), Sees(w - 1, y, w, y), Sees(w - 1, y - 1, w, y),
              Sees(w, y - 1, w, y), Sees(w + 1, y - 1, w, y)>>
      BY <2>5, <3>1, AvailIs
    <3>3. w + 1 = x + 2
      BY <1>1, <3>1
    <3>4. Avail(OffsetX + w, OffsetY + y, 1)[5] = Sees(w + 1, y - 1, w, y)
      BY <3>2
    <3> QED BY <3>1, <3>3, <3>4
  <2>10. \A u, v \in PUs : ~(InBlock(u, x, 2) /\ InBlock(v, y, 2)) =>
           /\ Z(u, v) < Z(x, y + 1) <=> Z(u, v) < Z(x, y)
           /\ Z(u, v) < Z(x + 1, y) <=> Z(u, v) < Z(x, y)
    <3> SUFFICES ASSUME NEW u \in PUs, NEW v \in PUs, ~(InBlock(u, x, 2) /\ InBlock(v, y, 2))
                 PROVE  /\ Z(u, v) < Z(x, y + 1) <=> Z(u, v) < Z(x, y)
                        /\ Z(u, v) < Z(x + 1, y) <=> Z(u, v) < Z(x, y)
      OBVIOUS
    <3>1. \A a, b \in PUs : InBlock(a, x, 2) /\ InBlock(b, y, 2)
            <=> Z(x, y) <= Z(a, b) /\ Z(a, b) < Z(x, y) + 2 * 2
      BY <1>1, <2>1, ZBlock DEF Sizes
    <3>2. /\ Z(x, y) <= Z(x, y + 1) /\ Z(x, y + 1) < Z(x, y) + 4
          /\ Z(x, y) <= Z(x + 1, y) /\ Z(x + 1, y) < Z(x, y) + 4
          /\ ~(Z(x, y) <= Z(u, v) /\ Z(u, v) < Z(x, y) + 4)
      BY <1>1, <2>3, <3>1
    <3>3. /\ Z(u, v) \in Int /\ Z(x, y) \in Int /\ Z(x, y + 1) \in Int /\ Z(x + 1, y) \in Int
      <4>1. \A a, b \in PUs : Z(a, b) \in Int
        BY ZIs
      <4> QED BY <1>1, <2>3, <4>1
    <3> QED BY <3>2, <3>3
  <2>11. Sees(x - 1, y + 2, x, y + 1) = Sees(x - 1, y + 2, x, y)
    <3>1. CASE x - 1 < 0
      BY <1>1, <3>1 DEF Sees
    <3>2. CASE ~(x - 1 < 0) /\ y + 2 < 8
      <4>1. x - 1 \in PUs /\ y + 2 \in PUs /\ ~InBlock(x - 1, x, 2)
        BY <1>1, <1>2, <3>2 DEF InBlock
      <4> QED BY <1>1, <2>10, <3>2, <4>1 DEF Sees
    <3>3. CASE ~(x - 1 < 0) /\ ~(y + 2 < 8)
      BY <1>1, <3>3 DEF Sees
    <3> QED BY <3>1, <3>2, <3>3
  <2>12. Sees(x + 2, y - 1, x + 1, y) = Sees(x + 2, y - 1, x, y)
    <3>1. CASE y - 1 < 0
      BY <1>1, <3>1 DEF Sees
    <3>2. CASE ~(y - 1 < 0) /\ x + 2 < 8
      <4>1. x + 2 \in PUs /\ y - 1 \in PUs /\ ~InBlock(y - 1, y, 2)
        BY <1>1, <1>2, <3>2 DEF InBlock
      <4> QED BY <1>1, <2>10, <3>2, <4>1 DEF Sees
    <3>3. CASE ~(y - 1 < 0) /\ ~(x + 2 < 8)
      BY <1>1, <3>3 DEF Sees
    <3> QED BY <3>1, <3>2, <3>3
  <2>13. infoL[y + 1][x + 1].cu[3] = 1
    BY <1>4 DEF SizeAt
  <2>14. ChromaAvail(x, y) = [infoL[y + 1][x + 1].valid EXCEPT
           ![1] = infoL[y + 2][x + 1].valid[1], ![5] = infoL[y + 1][x + 2].valid[5]]
    BY <2>13 DEF ChromaAvail
  <2>15. \A p1, p2, p3, p4, p5, q1, q5 :
           [<<p1, p2, p3, p4, p5>> EXCEPT ![1] = q1, ![5] = q5] = <<q1, p2, p3, p4, q5>>
    OBVIOUS
  <2>16. ChromaAvail(x, y) =
           [<<Sees(x - 1, y + 1, x, y), Sees(x - 1, y, x, y), Sees(x - 1, y - 1, x, y),
              Sees(x, y - 1, x, y), Sees(x + 1, y - 1, x, y)>>
            EXCEPT ![1] = Sees(x - 1, y + 2, x, y), ![5] = Sees(x + 2, y - 1, x, y)]
    BY <2>4, <2>6, <2>8, <2>9, <2>11, <2>12, <2>14
  <2>17. PICK p1, p2, p3, p4, p5, q1, q5 :
           /\ p1 = Sees(x - 1, y + 1, x, y) /\ p2 = Sees(x - 1, y, x, y)
           /\ p3 = Sees(x - 1, y - 1, x, y) /\ p4 = Sees(x, y - 1, x, y)
           /\ p5 = Sees(x + 1, y - 1, x, y)
           /\ q1 = Sees(x - 1, y + 2, x, y) /\ q5 = Sees(x + 2, y - 1, x, y)
    OBVIOUS
  <2>18. ChromaAvail(x, y) = [<<p1, p2, p3, p4, p5>> EXCEPT ![1] = q1, ![5] = q5]
    BY <2>16, <2>17
  <2>19. Avail(OffsetX + x, OffsetY + y, s) = <<q1, p2, p3, p4, q5>>
    BY <2>1, <2>7, <2>17
  <2>20. ChromaAvail(x, y) = <<q1, p2, p3, p4, q5>>
    BY <2>15, <2>18
  <2> QED BY <2>19, <2>20
<1> QED BY <1>3, <1>4

(* The places inside an aligned block have the quotients of its corner. *)
LEMMA QuotientInside ==
  ASSUME NEW s \in {1, 2, 4, 8}, NEW x \in 0 .. 7, NEW a \in 0 .. 7, x % s = 0, x <= a, a < x + s
  PROVE  x \div s = a \div s
<1>0. CASE s = 1
  <2>1. x \div 1 = x /\ a \div 1 = a /\ x = a
    BY <1>0
  <2> QED BY <1>0, <2>1
<1>1. CASE s = 2
  <2>1. x % 2 = 0 /\ a < x + 2
    BY <1>1
  <2>2. x \div 2 = a \div 2
    BY <2>1
  <2> QED BY <1>1, <2>2
<1>2. CASE s = 4
  <2>1. x % 4 = 0 /\ a < x + 4
    BY <1>2
  <2>2. x \div 4 = a \div 4
    BY <2>1
  <2> QED BY <1>2, <2>2
<1>3. CASE s = 8
  <2>1. x % 8 = 0 /\ a < x + 8
    BY <1>3
  <2>2. x \div 8 = a \div 8
    BY <2>1
  <2> QED BY <1>3, <2>2
<1> QED BY <1>0, <1>1, <1>2, <1>3

(* The chroma block that the counter stands for. *)
LEMMA ChromaBlock ==
  ASSUME CTUInv, SearchRefOK, pc = "CompressChromaCU",
         NEW x, NEW y, NEW s, x = Column(tot4x4s), y = Row(tot4x4s), s = ChromaSize(x, y)
  PROVE  /\ AlignedAt(x, y, s) /\ s \in {2, 4, 8}
         /\ \A a, b \in PUs : PUDone(a, b)
         /\ \A a, b \in PUs : InBlock(a, x, s) /\ InBlock(b, y, s) => SizeAt(a, b) = SizeAt(x, y)
         /\ \A u, v \in PUs : Z(u, v) < Z(x, y) => Kept("C", u, v)
<1>1. /\ tot4x4s \in 0 .. 63 /\ tot4x4s % (s * s) = 0 /\ ChromaDone(tot4x4s)
  BY DEF CTUInv, ChromaOK, N, TOT_PUS_LINE
<1> DEFINE top == NewCU(0, 0, N)
<1>2. LumaDone(top) /\ \A a, b \in PUs : InSquare(a, b, top)
  <2>1. top \in Activation
    BY DEF NewCU, Activation, PUs, N, TOT_PUS_LINE, Sizes
  <2>2. LumaDone(top)
    BY <2>1 DEF CTUInv, SearchOK, Tried
  <2>3. \A a, b \in PUs : InSquare(a, b, top)
    BY DEF InSquare, InBlock, NewCU, PUs, N, TOT_PUS_LINE
  <2> QED BY <2>2, <2>3
<1>3. \A a, b \in PUs :
        /\ SizeAt(a, b) \in Sizes /\ ChromaSize(a, b) \in {2, 4, 8}
        /\ \A u, v \in PUs : SameBlock(a, b, u, v, ChromaSize(a, b))
             => SizeAt(u, v) = SizeAt(a, b)
  BY <1>2 DEF LumaDone, ChromaSize, Sizes
<1>4. /\ x \in PUs /\ y \in PUs
      /\ x = (tot4x4s % 2) + 2 * ((tot4x4s \div 4) % 2) + 4 * ((tot4x4s \div 16) % 2)
      /\ y = ((tot4x4s \div 2) % 2) + 2 * ((tot4x4s \div 8) % 2) + 4 * ((tot4x4s \div 32) % 2)
  BY <1>1, Disp
<1>5. s \in {2, 4, 8}
  BY <1>3, <1>4
<1>6. x % s = 0 /\ y % s = 0
  <2>1. CASE s = 2
    BY <1>1, <1>4, <2>1
  <2>2. CASE s = 4
    BY <1>1, <1>4, <2>2
  <2>3. CASE s = 8
    <3>1. tot4x4s = 0
      BY <1>1, <2>3
    <3> QED BY <1>4, <2>3, <3>1
  <2> QED BY <1>5, <2>1, <2>2, <2>3
<1>7. AlignedAt(x, y, s)
  BY <1>4, <1>5, <1>6 DEF AlignedAt, Sizes
<1>8. \A a, b \in PUs : PUDone(a, b)
  <2>1. Lo = 64
    BY DEF Lo, N, TOT_PUS_LINE
  <2>2. \A a, b \in PUs : Z(a, b) \in 0 .. 63
    BY ZIs
  <2>3. \A a, b \in PUs : Z(a, b) < 64
    BY <2>2
  <2> QED BY <2>1, <2>3 DEF SearchRefOK
<1>9. ASSUME NEW a \in PUs, NEW b \in PUs, InBlock(a, x, s), InBlock(b, y, s)
      PROVE  SizeAt(a, b) = SizeAt(x, y)
  <2>1. /\ a \in 0 .. 7 /\ b \in 0 .. 7 /\ x \in 0 .. 7 /\ y \in 0 .. 7
        /\ x <= a /\ a < x + s /\ y <= b /\ b < y + s
    BY <1>4, <1>9 DEF InBlock, PUs, N, TOT_PUS_LINE
  <2>2. SameBlock(x, y, a, b, s)
    <3>1. s \in {1, 2, 4, 8} /\ x % s = 0 /\ y % s = 0
      BY <1>5, <1>6
    <3>2. x \div s = a \div s /\ y \div s = b \div s
      BY <2>1, <3>1, QuotientInside
    <3> QED BY <3>2 DEF SameBlock
  <2> QED BY <1>3, <1>4, <2>2
<1>10. ASSUME NEW u \in PUs, NEW v \in PUs, Z(u, v) < Z(x, y)
       PROVE  Kept("C", u, v)
  <2>1. Z(x, y) = tot4x4s
    BY <1>1, ZDisp
  <2>2. Z(u, v) \in 0 .. 63
    BY ZIs
  <2>3. Z(u, v) \in 0 .. tot4x4s - 1
    BY <1>1, <1>10, <2>1, <2>2
  <2>4. Kept("C", Column(Z(u, v)), Row(Z(u, v)))
    BY <1>1, <2>3 DEF ChromaDone
  <2>5. Column(Z(u, v)) = u /\ Row(Z(u, v)) = v
    BY DispZ
  <2> QED BY <2>4, <2>5
<1> QED BY <1>5, <1>7, <1>8, <1>9, <1>10

LEMMA CompressChromaCURef == CTUInv /\ RefInv /\ CompressChromaCU => RefInv'
<1> SUFFICES ASSUME CTUInv, RefInv, CompressChromaCU PROVE RefInv'
  OBVIOUS
<1> DEFINE X0 == GetDispFrom4x4s(tot4x4s)[1]
           Y0 == GetDispFrom4x4s(tot4x4s)[2]
           sizeL == infoL[Y0 + 1][X0 + 1].cu[3]
           S0 == IF sizeL = 1 THEN 2 ELSE sizeL
           M0 == neighMode[Y0 + 1][X0 + 1]
           next == tot4x4s + S0 * S0
<1>1. /\ pc = "CompressChromaCU"
      /\ UNCHANGED <<ctu, stack, neighMode, infoL, topInfoL, tempPred, syntax, frame, trials>>
      /\ refC' = [x |-> OffsetX + X0, y |-> OffsetY + Y0, size |-> S0,
                  ref |-> GenReferenceSamplesIntra("C", X0, Y0, S0, ChromaAvail(X0, Y0))]
      /\ rec' = [rec EXCEPT !["C"] = Fill(rec["C"], X0, Y0, S0, M0)]
      /\ pic' = [pic EXCEPT !["C"] = Fill(pic["C"], OffsetX + X0, OffsetY + Y0, S0, M0)]
      /\ IF next < N * N THEN tot4x4s' = next /\ UNCHANGED <<pc, refTop, savedLT>>
                         ELSE tot4x4s' = 0 /\ FinishCTU /\ pc' = "EncodeCTU"
  BY Zenon DEF CompressChromaCU
<1>2. \/ pc' = pc /\ UNCHANGED <<refTop, savedLT>>
      \/ pc' = "EncodeCTU" /\ FinishCTU
  BY <1>1
<1>3. PICK x, y, s, v :
        /\ x = X0 /\ y = Y0 /\ s = S0 /\ v = M0
  OBVIOUS
<1>4. x = Column(tot4x4s) /\ y = Row(tot4x4s) /\ s = ChromaSize(x, y)
  BY <1>3 DEF Column, Row, ChromaSize, SizeAt
<1>5. /\ refC' = [x |-> OffsetX + x, y |-> OffsetY + y, size |-> s,
                  ref |-> GenReferenceSamplesIntra("C", x, y, s, ChromaAvail(x, y))]
      /\ BlockWritten("C", x, y, s, v)
  BY <1>1, <1>3 DEF BlockWritten
<1> HIDE DEF X0, Y0, S0, M0, next
<1>6. /\ AlignedAt(x, y, s) /\ s \in {2, 4, 8} /\ x \in PUs /\ y \in PUs
      /\ \A a, b \in PUs : PUDone(a, b)
      /\ \A a, b \in PUs : InBlock(a, x, s) /\ InBlock(b, y, s) => SizeAt(a, b) = SizeAt(x, y)
      /\ \A i, j \in PUs : Z(i, j) < Z(x, y) => Kept("C", i, j)
  BY <1>1, <1>4, ChromaBlock DEF RefInv, AlignedAt
<1>7. UNCHANGED <<cx, cy, OffsetX, OffsetY>> /\ Width' = Width /\ Height' = Height
  BY <1>1, SameCTU
<1>8. CountersOK /\ BuffersOK /\ "C" \in Planes /\ "Y" \in Planes
  BY DEF CTUInv, Planes
<1>9. /\ rec'["Y"] = rec["Y"] /\ pic'["Y"] = pic["Y"]
      /\ \A b \in PUs : rec'["C"][b][-1] = rec["C"][b][-1]
      /\ OthersSame
  BY <1>5, <1>6, <1>8, "C" # "Y", BlockChanges
<1>10. /\ OffsetX \in Nat /\ OffsetY \in Nat /\ PUs = 0 .. 7 /\ N = 8
       /\ Width \in Nat /\ Height \in Nat /\ OffsetX + 8 <= Width /\ OffsetX = 8 * cx
       /\ cx \in Nat
  BY Place, <1>8
<1>11. pc' \in {"CompressChromaCU", "EncodeCTU"}
  BY <1>1, <1>2
<1>12. SearchRefOK'
  <2>1. \A a, b \in PUs : PUDone(a, b)'
    BY <1>1, <1>6, <1>9, PUDoneSame
  <2>2. Hi' = 64
    BY <1>11 DEF Hi, Lo, N, TOT_PUS_LINE
  <2>3. \A a, b \in PUs : Z(a, b) \in 0 .. 63
    BY ZIs
  <2>4. \A a, b \in PUs : ~(Z(a, b) >= Hi')
    BY <2>2, <2>3
  <2> QED BY <2>1, <2>4 DEF SearchRefOK
<1>13. AboveOK'
  <2>1. InCTU /\ InCTU'
    BY <1>1, <1>11 DEF InCTU
  <2> QED BY <1>1, <1>7, <2>1 DEF RefInv, AboveOK
<1>14. PicOK'
  BY <1>7, <1>9 DEF RefInv, PicOK
<1>15. TestedOK'
  <2>1. stack' = <<>>
    BY <1>1 DEF CTUInv, StackOK, Searching
  <2>2. DOMAIN stack' = {}
    BY <2>1
  <2> QED BY <2>2 DEF TestedOK
<1>16. ChromaRefOK'
  <2>1. ChromaAvail(x, y) = Avail(OffsetX + x, OffsetY + y, s)
    BY <1>4, <1>6, <1>8, ChromaAvailIs
  <2>2. SamplesKept("C", x, y)
    <3>1. LeftOK /\ RefTopOK /\ pc \in Searching \cup {"CompressChromaCU"}
      BY <1>1 DEF RefInv
    <3> QED BY <1>6, <1>8, <3>1, BorderSamples
  <2>3. PICK X, Y : X = OffsetX + x /\ Y = OffsetY + y
    OBVIOUS
  <2>4. GenReferenceSamplesIntra("C", x, y, s, Avail(OffsetX + x, OffsetY + y, s))
          = DecoderReferences("C", OffsetX + x, OffsetY + y, s)
    BY <1>6, <1>8, <2>2, ReferencesAreDecoders
  <2>5. \A at : Decoded(at, X, Y) => pic'["C"][at[2]][at[1]] = pic["C"][at[2]][at[1]]
    <3>1. Z(x, y) <= Z(x, y)
      <4>1. Z(x, y) \in 0 .. 63
        BY <1>6, ZIs
      <4> QED BY <4>1
    <3> QED BY <1>5, <1>6, <1>8, <2>3, <3>1, DecodedSame
  <2>6. DecoderReferences("C", X, Y, s)' = DecoderReferences("C", X, Y, s)
    <3>1. s \in Sizes
      BY <1>6 DEF Sizes
    <3> QED BY <2>5, <3>1, DecoderReferencesSame
  <2>7. /\ refC'.x = X /\ refC'.y = Y /\ refC'.size = s
        /\ refC'.ref = DecoderReferences("C", X, Y, s)'
    BY <1>5, <2>1, <2>3, <2>4, <2>6
  <2> QED BY <2>7 DEF ChromaRefOK
<1>17. CASE pc' = pc /\ UNCHANGED <<refTop, savedLT>>
  <2>1. LeftOK' /\ RefTopOK'
    <3>1. LeftOK /\ RefTopOK
      BY DEF RefInv
    <3>2. \A p \in Planes : \A b \in PUs : rec'[p][b][-1] = rec[p][b][-1]
      BY <1>9 DEF Planes
    <3>3. \A r \in 0 .. N + 1 : \A c \in 0 .. N + 1 :
            c = 0 \/ r = N + 1 \/ c = N + 1 => neighMode'[r][c] = neighMode[r][c]
      BY <1>1
    <3>4. /\ pc \in Searching \cup {"CompressChromaCU"}
          /\ pc' \in Searching \cup {"CompressChromaCU"}
          /\ UNCHANGED <<ctu, refTop, savedLT>>
      BY <1>1, <1>17
    <3> QED BY <1>8, <1>9, <3>1, <3>2, <3>3, <3>4, BordersStay
  <2>2. RefBuffersOK'
    BY <1>1, <1>7, <1>17 DEF RefInv, RefBuffersOK
  <2> QED BY <1>12, <1>13, <1>14, <1>15, <1>16, <2>1, <2>2 DEF RefInv
<1>18. CASE pc' = "EncodeCTU" /\ FinishCTU
  <2>1. /\ refTop' = [p \in Planes |-> [refTop[p] EXCEPT ![OffsetX] = savedLT[p]]]
        /\ savedLT' = [p \in Planes |-> refTop[p][OffsetX + N]]
    BY <1>18 DEF FinishCTU
  <2>2. /\ pc \notin {"InitBuffersNewTile", "Done", "PrepareCTU"}
        /\ pc \in Searching \cup {"CompressChromaCU"}
        /\ pc' \notin {"InitBuffersNewTile", "Done", "PrepareCTU"}
        /\ pc' \notin Searching \cup {"CompressChromaCU"} /\ pc' \in CTUCoded
    BY <1>1, <1>18 DEF Searching, CTUCoded
  <2>3. LeftOK'
    <3>1. /\ cx > 0 => \A b \in PUs :
               /\ neighMode[b + 1][0] = pic["Y"][OffsetY + b][OffsetX - 1]
               /\ \A p \in Planes : rec[p][b][-1] = pic[p][OffsetY + b][OffsetX - 1]
          /\ cx = 0 => \A b \in PUs : neighMode[b + 1][0] = INVALID_MODE
          /\ \A c \in 0 .. N + 1 : neighMode[N + 1][c] = INVALID_MODE
          /\ \A r \in 1 .. N + 1 : neighMode[r][N + 1] = INVALID_MODE
      BY <2>2 DEF RefInv, LeftOK
    <3>2. cx > 0 => \A p \in Planes : \A b \in PUs :
            pic'[p][OffsetY + b][OffsetX - 1] = pic[p][OffsetY + b][OffsetX - 1]
      BY <1>8, <1>9, BordersSame
    <3>3. \A p \in Planes : \A b \in PUs : rec'[p][b][-1] = rec[p][b][-1]
      BY <1>9 DEF Planes
    <3>4. cx > 0 => \A b \in PUs :
            /\ neighMode[b + 1][0] = pic'["Y"][OffsetY + b][OffsetX - 1]
            /\ \A p \in Planes : rec'[p][b][-1] = pic'[p][OffsetY + b][OffsetX - 1]
      BY <1>8, <3>1, <3>2, <3>3
    <3> QED BY <1>1, <1>7, <2>2, <3>1, <3>4 DEF LeftOK
  <2>4. RefTopOK'
    <3> SUFFICES ASSUME NEW p \in Planes
                 PROVE  /\ cy > 0 => \A k \in OffsetX + 1 .. Width : RowAbove(p, k)'
                        /\ \A k \in 1 .. OffsetX - 1 : RowBelow(p, k)'
                        /\ cx > 0 => RowBelow(p, OffsetX)'
                        /\ cy > 0 => savedLT'[p] = pic'[p][OffsetY - 1][OffsetX + N - 1]
      BY <1>7, <2>2 DEF RefTopOK
    <3>1. /\ cy > 0 => \A k \in OffsetX + 1 .. Width : RowAbove(p, k)
          /\ \A k \in 1 .. OffsetX - 1 : RowBelow(p, k)
          /\ cx > 0 => savedLT[p] = pic[p][OffsetY + N - 1][OffsetX - 1]
      BY <2>2 DEF RefInv, RefTopOK
    <3>2. /\ cy > 0 => \A k \in 1 .. Width :
               pic'[p][OffsetY - 1][k - 1] = pic[p][OffsetY - 1][k - 1]
          /\ \A k \in 1 .. OffsetX :
               pic'[p][OffsetY + N - 1][k - 1] = pic[p][OffsetY + N - 1][k - 1]
      BY <1>8, <1>9, BordersSame
    <3>3. DOMAIN refTop[p] = 0 .. Width + 8 /\ OffsetX \in DOMAIN refTop[p]
      BY <1>10 DEF RefInv, RefBuffersOK
    <3>4. refTop'[p] = [refTop[p] EXCEPT ![OffsetX] = savedLT[p]]
          /\ savedLT'[p] = refTop[p][OffsetX + N]
      BY <2>1
    <3>5. refTop'[p][OffsetX] = savedLT[p]
      BY <3>3, <3>4
    <3>6. \A k \in 0 .. Width : k # OffsetX => refTop'[p][k] = refTop[p][k]
      BY <1>10, <3>3, <3>4
    <3>7. ASSUME cy > 0, NEW k \in OffsetX + 1 .. Width PROVE RowAbove(p, k)'
      <4>1. k \in 0 .. Width /\ k # OffsetX /\ k \in 1 .. Width
        BY <1>10
      <4> QED BY <1>7, <3>1, <3>2, <3>6, <3>7, <4>1 DEF RowAbove
    <3>8. ASSUME NEW k \in 1 .. OffsetX - 1 PROVE RowBelow(p, k)'
      <4>1. k \in 0 .. Width /\ k # OffsetX /\ k \in 1 .. OffsetX
        BY <1>10
      <4> QED BY <1>7, <3>1, <3>2, <3>6, <4>1 DEF RowBelow
    <3>9. cx > 0 => RowBelow(p, OffsetX)'
      <4>1. cx > 0 => OffsetX \in 1 .. OffsetX
        BY <1>10
      <4> QED BY <1>7, <3>1, <3>2, <3>5, <4>1 DEF RowBelow
    <3>10. cy > 0 => savedLT'[p] = pic'[p][OffsetY - 1][OffsetX + N - 1]
      <4>1. OffsetX + N \in OffsetX + 1 .. Width /\ OffsetX + N \in 1 .. Width
        BY <1>10
      <4>2. cy > 0 => refTop[p][OffsetX + N] = pic[p][OffsetY - 1][(OffsetX + N) - 1]
        BY <3>1, <4>1 DEF RowAbove
      <4>3. cy > 0 => pic'[p][OffsetY - 1][(OffsetX + N) - 1] = pic[p][OffsetY - 1][(OffsetX + N) - 1]
        BY <3>2, <4>1
      <4>4. OffsetX + N - 1 = (OffsetX + N) - 1
        BY <1>10
      <4> QED BY <3>4, <4>2, <4>3, <4>4
    <3> QED BY <3>7, <3>8, <3>9, <3>10
  <2>5. RefBuffersOK'
    <3>1. \A p \in Planes : DOMAIN refTop'[p] = DOMAIN refTop[p]
      BY <2>1
    <3>2. DOMAIN refTop' = Planes /\ DOMAIN savedLT' = Planes
      BY <2>1
    <3> QED BY <1>1, <1>7, <1>18, <3>1, <3>2 DEF RefInv, RefBuffersOK
  <2> QED BY <1>12, <1>13, <1>14, <1>15, <1>16, <2>3, <2>4, <2>5 DEF RefInv
<1> QED BY <1>2, <1>17, <1>18

-----------------------------------------------------------------------------
(* The step to the next CTU.                                               *)

LEMMA NextPlace ==
  ASSUME CountersOK, ctu' = ctu + 1
  PROVE  /\ \/ cx' = cx + 1 /\ cy' = cy /\ cx + 1 \in 0 .. TileWidth - 1
            \/ cx' = 0 /\ cy' = cy + 1 /\ cx = TileWidth - 1
         /\ OffsetX' = 8 * cx' /\ OffsetY' = 8 * cy'
<1>1. /\ cx \in 0 .. TileWidth - 1 /\ cy \in Nat /\ ctu = cy * TileWidth + cx
      /\ TileWidth \in Nat \ {0}
  BY Offsets, CTUAssumption
<1>2. PICK i, j : i = cx /\ j = cy
  OBVIOUS
<1>3. i \in 0 .. TileWidth - 1 /\ j \in Nat /\ ctu' = (j * TileWidth + i) + 1
  BY <1>1, <1>2
<1>4. j * TileWidth \in Nat /\ (j + 1) * TileWidth = j * TileWidth + TileWidth
  BY <1>1, <1>3
<1>5. cx' = ctu' % TileWidth /\ cy' = ctu' \div TileWidth
  BY DEF cx, cy
<1>6. ctu' \in Nat
  BY <1>1, <1>3, <1>4
<1>7. /\ cx' \in 0 .. TileWidth - 1 /\ cy' \in Nat
      /\ ctu' = cy' * TileWidth + cx'
  BY <1>1, <1>5, <1>6, DivMod
<1>8. PICK u, v : u = cx' /\ v = cy'
  OBVIOUS
<1>9. u \in 0 .. TileWidth - 1 /\ v \in Nat /\ ctu' = v * TileWidth + u
  BY <1>7, <1>8
<1>10. \/ cx' = cx + 1 /\ cy' = cy /\ cx + 1 \in 0 .. TileWidth - 1
       \/ cx' = 0 /\ cy' = cy + 1 /\ cx = TileWidth - 1
  <2>1. CASE i + 1 < TileWidth
    <3>1. i + 1 \in 0 .. TileWidth - 1 /\ j * TileWidth + (i + 1) = v * TileWidth + u
      BY <1>1, <1>3, <1>4, <1>9, <2>1
    <3>2. j = v /\ i + 1 = u
      BY <1>1, <1>3, <1>9, <3>1, SameQuotient
    <3> QED BY <1>2, <1>8, <3>1, <3>2
  <2>2. CASE ~(i + 1 < TileWidth)
    <3>1. i = TileWidth - 1 /\ 0 \in 0 .. TileWidth - 1 /\ j + 1 \in Nat
      BY <1>1, <1>3, <2>2
    <3>2. (j + 1) * TileWidth + 0 = v * TileWidth + u
      BY <1>1, <1>3, <1>4, <1>9, <3>1
    <3>3. j + 1 = v /\ 0 = u
      BY <1>1, <1>9, <3>1, <3>2, SameQuotient
    <3> QED BY <1>2, <1>8, <3>1, <3>3
  <2> QED BY <2>1, <2>2
<1>11. OffsetX' = 8 * cx' /\ OffsetY' = 8 * cy'
  BY <1>7 DEF OffsetX, OffsetY, N, TOT_PUS_LINE
<1> QED BY <1>10, <1>11

(* After the last block the arrays have what the decoder has of the CTU.   *)
LEMMA CTUDone ==
  ASSUME CTUInv, SearchRefOK, pc = "UpdateBuffers"
  PROVE  /\ \A a, b \in PUs : PUDone(a, b)
         /\ \A p \in Planes : \A a, b \in PUs : Kept(p, a, b)
<1>1. \A a, b \in PUs : PUDone(a, b)
  <2>1. Lo = 64
    BY DEF Lo, N, TOT_PUS_LINE
  <2>2. \A a, b \in PUs : Z(a, b) \in 0 .. 63
    BY ZIs
  <2>3. \A a, b \in PUs : Z(a, b) < 64
    BY <2>2
  <2> QED BY <2>1, <2>3 DEF SearchRefOK
<1>2. \A a, b \in PUs : Kept("Y", a, b)
  BY <1>1 DEF PUDone
<1>3. \A a, b \in PUs : Kept("C", a, b)
  <2>1. \A t \in 0 .. 63 : Kept("C", Column(t), Row(t))
    BY DEF CTUInv, ChromaOK, ChromaDone, CTUCoded, N, TOT_PUS_LINE
  <2> QED BY <2>1, DispOnto
<1> QED BY <1>1, <1>2, <1>3 DEF Planes

(* The row of the border buffer up to the end of this CTU is the last row  *)
(* of the CTUs that have been coded.                                       *)
LEMMA BorderRow ==
  ASSUME CTUInv, RefInv, UpdateBuffers, NEW p \in Planes
  PROVE  /\ \A k \in 1 .. OffsetX + 8 : refTop'[p][k] = pic[p][(OffsetY + 8) - 1][k - 1]
         /\ \A k \in OffsetX + 9 .. Width : refTop'[p][k] = refTop[p][k]
<1>1. /\ pc = "UpdateBuffers"
      /\ refTop' = [q \in Planes |-> [k \in DOMAIN refTop[q] |->
                      IF InBlock(k, OffsetX + 1, N) THEN rec[q][N - 1][k - OffsetX - 1]
                      ELSE refTop[q][k]]]
  BY Zenon DEF UpdateBuffers
<1>2. /\ OffsetX \in Nat /\ OffsetY \in Nat /\ PUs = 0 .. 7 /\ N = 8
      /\ Width \in Nat /\ OffsetX + 8 <= Width /\ OffsetX = 8 * cx /\ cx \in Nat
  BY Place DEF CTUInv
<1>3. DOMAIN refTop[p] = 0 .. Width + 8
  BY <1>2 DEF RefInv, RefBuffersOK
<1>4. \A k \in 0 .. Width + 8 :
        refTop'[p][k] = IF InBlock(k, OffsetX + 1, N) THEN rec[p][N - 1][k - OffsetX - 1]
                        ELSE refTop[p][k]
  BY <1>1, <1>3
<1>5. ASSUME NEW k \in 1 .. OffsetX PROVE refTop'[p][k] = pic[p][(OffsetY + 8) - 1][k - 1]
  <2>1. k \in 0 .. Width + 8 /\ ~InBlock(k, OffsetX + 1, N)
    BY <1>2 DEF InBlock
  <2>2. (\A j \in 1 .. OffsetX - 1 : RowBelow(p, j)) /\ (cx > 0 => RowBelow(p, OffsetX))
    BY <1>1 DEF RefInv, RefTopOK, CTUCoded
  <2>3. k \in 1 .. OffsetX - 1 \/ (k = OffsetX /\ cx > 0)
    BY <1>2
  <2>4. RowBelow(p, k)
    BY <2>2, <2>3
  <2>5. OffsetY + N - 1 = (OffsetY + 8) - 1
    BY <1>2
  <2> QED BY <1>4, <2>1, <2>4, <2>5 DEF RowBelow
<1>6. ASSUME NEW k \in OffsetX + 1 .. OffsetX + 8
      PROVE  refTop'[p][k] = pic[p][(OffsetY + 8) - 1][k - 1]
  <2>1. k \in 0 .. Width + 8 /\ InBlock(k, OffsetX + 1, N)
    BY <1>2 DEF InBlock
  <2>2. PICK a : a = k - OffsetX - 1
    OBVIOUS
  <2>3. a \in PUs /\ OffsetX + a = k - 1 /\ 7 \in PUs
    BY <1>2, <2>2
  <2>4. rec[p][7][a] = pic[p][OffsetY + 7][OffsetX + a]
    BY <1>1, <2>3, CTUDone DEF RefInv, Kept
  <2>5. N - 1 = 7 /\ OffsetY + 7 = (OffsetY + 8) - 1
    BY <1>2
  <2>6. refTop'[p][k] = rec[p][7][a]
    BY <1>4, <2>1, <2>2, <2>5
  <2> QED BY <2>3, <2>4, <2>5, <2>6
<1>7. ASSUME NEW k \in 1 .. OffsetX + 8 PROVE refTop'[p][k] = pic[p][(OffsetY + 8) - 1][k - 1]
  <2>1. k \in 1 .. OffsetX \/ k \in OffsetX + 1 .. OffsetX + 8
    BY <1>2
  <2> QED BY <1>5, <1>6, <2>1
<1>8. ASSUME NEW k \in OffsetX + 9 .. Width PROVE refTop'[p][k] = refTop[p][k]
  <2>1. k \in 0 .. Width + 8 /\ ~InBlock(k, OffsetX + 1, N)
    BY <1>2 DEF InBlock
  <2> QED BY <1>4, <2>1
<1> QED BY <1>7, <1>8

LEMMA UpdateBuffersRef == CTUInv /\ RefInv /\ UpdateBuffers => RefInv'
<1> SUFFICES ASSUME CTUInv, RefInv, UpdateBuffers PROVE RefInv'
  OBVIOUS
<1>1. /\ pc = "UpdateBuffers" /\ UNCHANGED <<stack, tempPred, savedLT, refC, pic>>
      /\ neighMode' = [r \in 0 .. N + 1 |-> [c \in 0 .. N + 1 |->
                         IF r \in 1 .. N /\ c = 0 THEN neighMode[r][N]
                         ELSE IF r \in 1 .. N /\ c \in 1 .. N THEN INVALID_MODE
                         ELSE neighMode[r][c]]]
      /\ refTop' = [p \in Planes |-> [k \in DOMAIN refTop[p] |->
                      IF InBlock(k, OffsetX + 1, N) THEN rec[p][N - 1][k - OffsetX - 1]
                      ELSE refTop[p][k]]]
      /\ rec' = [p \in Planes |-> [r \in PUs |-> [rec[p][r] EXCEPT ![-1] = rec[p][r][N - 1]]]]
  BY Zenon DEF UpdateBuffers
<1>2. IF IsLastTileCTU THEN pc' = "Done" /\ UNCHANGED ctu
                       ELSE pc' = "PrepareCTU" /\ ctu' = ctu + 1
  BY Zenon DEF UpdateBuffers
<1>3. Width' = Width /\ Height' = Height
  BY DEF Width, Height
<1>4. PicOK' /\ ChromaRefOK'
  BY <1>1, <1>3, ChromaRefSame DEF RefInv, PicOK
<1>5. TestedOK'
  <2>1. stack' = <<>>
    BY <1>1 DEF CTUInv, StackOK, Searching
  <2>2. DOMAIN stack' = {}
    BY <2>1
  <2> QED BY <2>2 DEF TestedOK
<1>6. RefBuffersOK'
  <2>1. DOMAIN refTop' = Planes /\ \A p \in Planes : DOMAIN refTop'[p] = DOMAIN refTop[p]
    BY <1>1
  <2> QED BY <1>1, <1>2, <1>3, <2>1 DEF RefInv, RefBuffersOK
<1>7. CASE pc' = "Done"
  <2>1. SearchRefOK' /\ LeftOK' /\ RefTopOK' /\ AboveOK'
    BY <1>7 DEF SearchRefOK, LeftOK, RefTopOK, AboveOK, InCTU
  <2> QED BY <1>4, <1>5, <1>6, <2>1 DEF RefInv
<1>8. CASE pc' = "PrepareCTU" /\ ctu' = ctu + 1
  <2>1. /\ \/ cx' = cx + 1 /\ cy' = cy /\ cx + 1 \in 0 .. TileWidth - 1
           \/ cx' = 0 /\ cy' = cy + 1 /\ cx = TileWidth - 1
        /\ OffsetX' = 8 * cx' /\ OffsetY' = 8 * cy'
    BY <1>8, NextPlace DEF CTUInv
  <2>2. /\ cx \in 0 .. TileWidth - 1 /\ cy \in 0 .. TileHeight - 1
        /\ OffsetX = 8 * cx /\ OffsetY = 8 * cy /\ Width = 8 * TileWidth
        /\ TileWidth \in Nat \ {0} /\ TileHeight \in Nat \ {0}
        /\ OffsetX \in Nat /\ OffsetY \in Nat /\ PUs = 0 .. 7 /\ N = 8
    BY Place DEF CTUInv
  <2>3. /\ \A a, b \in PUs : PUDone(a, b)
        /\ \A p \in Planes : \A a, b \in PUs : Kept(p, a, b)
    BY <1>1, CTUDone DEF RefInv
  <2>4. \A r, c \in 0 .. 9 : neighMode'[r][c] =
          IF r \in 1 .. 8 /\ c = 0 THEN neighMode[r][8]
          ELSE IF r \in 1 .. 8 /\ c \in 1 .. 8 THEN INVALID_MODE
          ELSE neighMode[r][c]
    BY <1>1, <2>2
  <2>5. InCTU /\ ~InCTU' /\ pc \notin {"InitBuffersNewTile", "Done", "PrepareCTU"}
        /\ pc \in CTUCoded /\ pc' \notin Searching \cup {"CompressChromaCU"} /\ pc' \notin CTUCoded
    BY <1>1, <1>8 DEF InCTU, Searching, CTUCoded
  <2>6. SearchRefOK'
    <3>1. Lo' = 0 /\ Hi' = 0
      BY <1>8 DEF Lo, Hi
    <3>2. ASSUME NEW a \in PUs, NEW b \in PUs
          PROVE  ~(Z(a, b) < 0) /\ neighMode'[b + 1][a + 1] = INVALID_MODE
      <4>1. b + 1 \in 0 .. 9 /\ a + 1 \in 0 .. 9 /\ b + 1 \in 1 .. 8 /\ a + 1 \in 1 .. 8
            /\ a + 1 # 0
        BY <2>2
      <4>2. Z(a, b) \in 0 .. 63
        BY ZIs
      <4> QED BY <2>4, <4>1, <4>2
    <3> QED BY <3>1, <3>2 DEF SearchRefOK
  <2>7. LeftOK'
    <3>1. /\ \A c \in 0 .. 9 : neighMode[9][c] = INVALID_MODE
          /\ \A r \in 1 .. 9 : neighMode[r][9] = INVALID_MODE
      BY <2>2, <2>5 DEF RefInv, LeftOK
    <3>2. \A c \in 0 .. 9 : neighMode'[9][c] = INVALID_MODE
      BY <2>4, <3>1
    <3>3. \A r \in 1 .. 9 : neighMode'[r][9] = INVALID_MODE
      BY <2>4, <3>1
    <3>4. ASSUME cx' > 0, NEW b \in PUs
          PROVE  /\ neighMode'[b + 1][0] = pic'["Y"][(OffsetY + b)'][OffsetX' - 1]
                 /\ \A p \in Planes : rec'[p][b][-1] = pic'[p][(OffsetY + b)'][OffsetX' - 1]
      <4>1. OffsetX' - 1 = OffsetX + 7 /\ OffsetY' = OffsetY /\ 7 \in PUs
        BY <2>1, <2>2, <3>4
      <4>2. neighMode[b + 1][8] = pic["Y"][OffsetY + b][OffsetX + 7]
        BY <2>3, <4>1, 7 + 1 = 8 DEF PUDone
      <4>3. b + 1 \in 0 .. 9 /\ b + 1 \in 1 .. 8
        BY <2>2
      <4>4. neighMode'[b + 1][0] = neighMode[b + 1][8]
        BY <2>4, <4>3
      <4>5. \A p \in Planes : rec'[p][b][-1] = rec[p][b][7]
        <5>1. \A p \in Planes : DOMAIN rec[p][b] = -1 .. N - 1
          BY DEF CTUInv, BuffersOK, Grid
        <5>2. N - 1 = 7 /\ -1 \in -1 .. N - 1
          BY <2>2
        <5> QED BY <1>1, <5>1, <5>2
      <4>6. \A p \in Planes : rec[p][b][7] = pic[p][OffsetY + b][OffsetX + 7]
        BY <2>3, <4>1 DEF Kept
      <4> QED BY <1>1, <4>1, <4>2, <4>4, <4>5, <4>6
    <3> QED BY <1>8, <2>2, <3>2, <3>3, <3>4 DEF LeftOK
  <2>8. AboveOK'
    <3>1. ASSUME cx' > 0, NEW c \in 1 .. 8
          PROVE  neighMode'[0][c] # INVALID_MODE <=> cy' > 0
      <4>1. c \in 0 .. 9 /\ 0 \in 0 .. 9 /\ ~(0 \in 1 .. 8)
        OBVIOUS
      <4>2. neighMode'[0][c] = neighMode[0][c]
        BY <2>4, <4>1
      <4>3. neighMode[0][c] # INVALID_MODE <=> cy > 0
        BY <2>2, <2>5 DEF RefInv, AboveOK
      <4>4. cy' = cy
        BY <2>1, <3>1
      <4> QED BY <4>2, <4>3, <4>4
    <3> QED BY <2>2, <2>5, <3>1 DEF AboveOK
  <2>9. RefTopOK'
    <3> SUFFICES ASSUME NEW p \in Planes
                 PROVE  /\ cy' > 0 => \A k \in OffsetX' + 1 .. Width : RowAbove(p, k)'
                        /\ \A k \in 1 .. OffsetX' - 1 : RowBelow(p, k)'
                        /\ cx' > 0 => RowBelow(p, OffsetX)'
                        /\ cx' > 0 /\ cy' > 0 =>
                             savedLT'[p] = pic'[p][OffsetY' - 1][OffsetX' - 1]
      BY <1>3, <2>5 DEF RefTopOK
    <3>1. /\ \A k \in 1 .. OffsetX + 8 : refTop'[p][k] = pic[p][(OffsetY + 8) - 1][k - 1]
          /\ \A k \in OffsetX + 9 .. Width : refTop'[p][k] = refTop[p][k]
      BY BorderRow
    <3>2. /\ cy > 0 => \A k \in OffsetX + 1 .. Width : RowAbove(p, k)
          /\ cy > 0 => savedLT[p] = pic[p][OffsetY - 1][OffsetX + N - 1]
      BY <2>5 DEF RefInv, RefTopOK
    <3>3. CASE cx' = cx + 1 /\ cy' = cy
      <4>1. OffsetX' = OffsetX + 8 /\ OffsetY' = OffsetY
        BY <2>1, <2>2, <3>3
      <4>2. OffsetY' + N - 1 = (OffsetY + 8) - 1 /\ OffsetX' - 1 = OffsetX + N - 1
        BY <2>2, <4>1
      <4>3. ASSUME cy' > 0, NEW k \in OffsetX' + 1 .. Width PROVE RowAbove(p, k)'
        <5>1. k \in OffsetX + 9 .. Width /\ k \in OffsetX + 1 .. Width /\ cy > 0
          BY <2>2, <3>3, <4>1, <4>3
        <5> QED BY <1>1, <3>1, <3>2, <4>1, <5>1 DEF RowAbove
      <4>4. ASSUME NEW k \in 1 .. OffsetX' - 1 PROVE RowBelow(p, k)'
        <5>1. k \in 1 .. OffsetX + 8
          BY <2>2, <4>1
        <5> QED BY <1>1, <3>1, <4>2, <5>1 DEF RowBelow
      <4>5. RowBelow(p, OffsetX)'
        <5>1. OffsetX' \in 1 .. OffsetX + 8
          BY <2>2, <4>1
        <5> QED BY <1>1, <3>1, <4>2, <5>1 DEF RowBelow
      <4>6. cy' > 0 => savedLT'[p] = pic'[p][OffsetY' - 1][OffsetX' - 1]
        BY <1>1, <3>2, <3>3, <4>1, <4>2
      <4> QED BY <4>3, <4>4, <4>5, <4>6
    <3>4. CASE cx' = 0 /\ cy' = cy + 1 /\ cx = TileWidth - 1
      <4>1. OffsetX' = 0 /\ OffsetY' = OffsetY + 8 /\ Width = OffsetX + 8
        BY <2>1, <2>2, <3>4
      <4>2. ASSUME NEW k \in OffsetX' + 1 .. Width PROVE RowAbove(p, k)'
        <5>1. k \in 1 .. OffsetX + 8
          BY <2>2, <4>1
        <5> QED BY <1>1, <3>1, <4>1, <5>1 DEF RowAbove
      <4>3. ~(cx' > 0) /\ \A k \in 1 .. OffsetX' - 1 : FALSE
        BY <3>4, <4>1
      <4> QED BY <4>2, <4>3
    <3> QED BY <2>1, <3>3, <3>4
  <2> QED BY <1>4, <1>5, <1>6, <2>6, <2>7, <2>8, <2>9 DEF RefInv
<1> QED BY <1>2, <1>7, <1>8

LEMMA StutterRef == CTUInv /\ RefInv /\ UNCHANGED vars => RefInv'
<1> SUFFICES ASSUME CTUInv, RefInv, UNCHANGED vars PROVE RefInv'
  OBVIOUS
<1>1. UNCHANGED <<pc, ctu, stack, neighMode, infoL, tempPred, rec, refTop, savedLT, refC, pic>>
  BY DEF vars
<1>2. UNCHANGED <<cx, cy, OffsetX, OffsetY>> /\ Width' = Width /\ Height' = Height
  BY <1>1, SameCTU
<1>3. LeftOK' /\ AboveOK' /\ RefTopOK'
  BY <1>1, <1>2 DEF RefInv, LeftOK, AboveOK, RefTopOK, InCTU, RowAbove, RowBelow
<1>4. PicOK' /\ RefBuffersOK' /\ ChromaRefOK'
  BY <1>1, <1>2, ChromaRefSame DEF RefInv, PicOK, RefBuffersOK
<1>5. SearchRefOK'
  <2>1. \A x, y \in PUs : PUDone(x, y) => PUDone(x, y)'
    BY <1>1, PUDoneSame
  <2>2. cu' = cu
    BY <1>1 DEF cu
  <2>3. Lo' = Lo /\ Hi' = Hi
    BY <1>1, <2>2 DEF Lo, Hi
  <2> QED BY <1>1, <2>1, <2>3 DEF RefInv, SearchRefOK
<1>6. TestedOK'
  <2> SUFFICES ASSUME NEW k \in DOMAIN stack, k < Len(stack) \/ pc \in {"CodeCU", "PartDone"}
               PROVE  Tested(stack[k])'
    BY <1>1 DEF TestedOK
  <2>1. Tested(stack[k]) /\ stack[k].size \in Sizes
    BY ActivationIs DEF CTUInv, RefInv, TestedOK
  <2>2. SamePlace(stack'[k], stack[k])
    BY <1>1 DEF SamePlace
  <2> QED BY <1>1, <2>1, <2>2, TestedStays
<1> QED BY <1>3, <1>4, <1>5, <1>6 DEF RefInv

-----------------------------------------------------------------------------
(* The theorems.                                                           *)

LEMMA StepRef == CTUInv /\ RefInv /\ [Next]_vars => RefInv'
<1> SUFFICES ASSUME CTUInv, RefInv, [Next]_vars PROVE RefInv'
  OBVIOUS
<1>1. CASE InitBuffersNewTile
  BY <1>1, InitBuffersNewTileRef
<1>2. CASE PrepareCTU
  BY <1>2, PrepareCTURef
<1>3. CASE TestModes
  BY <1>3, TestModesRef
<1>4. CASE CodeCU
  BY <1>4, CodeCURef
<1>5. CASE SplitIsBad
  BY <1>5, SplitIsBadRef
<1>6. CASE NextPart
  BY <1>6, NextPartRef
<1>7. CASE SplitIsGood
  BY <1>7, SplitIsGoodRef
<1>8. CASE CompressChromaCU
  BY <1>8, CompressChromaCURef
<1>9. CASE EncodeCTU
  BY <1>9, EncodeCTURef
<1>10. CASE UpdateBuffers
  BY <1>10, UpdateBuffersRef
<1>11. CASE UNCHANGED vars
  BY <1>11, StutterRef
<1> QED
  BY <1>1, <1>2, <1>3, <1>4, <1>5, <1>6, <1>7, <1>8, <1>9, <1>10, <1>11 DEF Next

(* At every moment of a tile of any size, whatever parts the search has      *)
(* given up: the arrays of the CTU hold the decoder's samples and modes up   *)
(* to the place that is being coded and nothing after it, the border buffers *)
(* hold the row above and the column to the left of it, and what each        *)
(* activation of xCompressLumaCU found is still what a decoder has.        *)
THEOREM RefInvariant == Spec => [](CTUInv /\ RefInv)
<1>1. Init => CTUInv /\ RefInv
  BY InitOK, InitRef
<1>2. CTUInv /\ RefInv /\ [Next]_vars => (CTUInv /\ RefInv)'
  BY StepOK, StepRef
<1> QED BY <1>1, <1>2, PTL DEF Spec

(* When xCompressLumaCU codes a CU, the prediction in the buffer of its size *)
(* was made from the samples that a decoder has there, and the candidates    *)
(* are those that it derives, in a tile of any size and after any trials of  *)
(* its parts: no trial leaves a trace in the buffers that it shares.       *)
THEOREM LumaReferences == Spec => []LumaReferencesAreDecoders
<1>1. CTUInv /\ RefInv => LumaReferencesAreDecoders
  <2> SUFFICES ASSUME CTUInv, RefInv, pc = "CodeCU"
               PROVE  /\ tempPred[cu.size] =
                           DecoderReferences("Y", OffsetX + cu.x, OffsetY + cu.y, cu.size)
                      /\ cu.cand = DecoderCandidates(OffsetX + cu.x, OffsetY + cu.y)
    BY DEF LumaReferencesAreDecoders
  <2>1. Len(stack) \in DOMAIN stack /\ cu = stack[Len(stack)]
    BY StackFacts DEF CTUInv, Searching
  <2>2. Tested(cu)
    BY <2>1 DEF RefInv, TestedOK
  <2> QED BY <2>2 DEF Tested
<1> QED BY <1>1, RefInvariant, PTL

(* Every chroma block that CompressChromaCU predicts, in a tile of any size, *)
(* is predicted from the samples that a decoder has there, although its      *)
(* availability comes from what the luma search left for other blocks.     *)
THEOREM ChromaReferences == Spec => []ChromaReferencesAreDecoders
<1>1. CTUInv /\ RefInv => ChromaReferencesAreDecoders
  BY DEF RefInv, ChromaRefOK, ChromaReferencesAreDecoders
<1> QED BY <1>1, RefInvariant, PTL

=============================================================================
