-------------------------- MODULE IntraPrediction --------------------------
(***************************************************************************)
(* The 35 intra predictions from a line of reference samples, and how the  *)
(* chosen mode is coded.  A line of references has 4 * size + 1 samples,   *)
(* from the bottom left up to the corner (the sample 2 * size + 1) and on  *)
(* to the top right.  Then the same from the standard, in its coordinates  *)
(* p[x][y]: what a decoder predicts, and which mode it reads.              *)
(***************************************************************************)
EXTENDS H265Transform

PLANAR_MODE_IDX == 0
DC_MODE_IDX     == 1
HOR_MODE_IDX    == 10
VER_MODE_IDX    == 26
CHROMA_DM_MODE  == 4
NoMode          == 255      \* INVALID_MODE
Modes           == 0 .. 34

-----------------------------------------------------------------------------
(* The tables. *)

IntraFilterUsage(size) ==
  CASE size = 8  -> {0, 2, 18, 34}
    [] size = 16 -> {0} \cup (2 .. 8) \cup (12 .. 24) \cup (28 .. 34)
    [] size = 32 -> {0} \cup (2 .. 9) \cup (11 .. 25) \cup (27 .. 34)
    [] OTHER -> {}

(* Angles and their inverses from mode 2 to 10; the modes to 18 mirror them *)
(* about 10 with the angle negated, those to 34 mirror all that about 18.  *)
Angles        == <<32, 26, 21, 17, 13, 9, 5, 2, 0>>
InverseAngles == <<256, 315, 390, 482, 630, 910, 1638, 4096, 0>>
Mirrored(mode) == IF mode > 18 THEN 36 - mode ELSE mode
IntraPredAngle(mode) ==
  LET m == Mirrored(mode) IN IF m > 10 THEN -Angles[19 - m] ELSE Angles[m - 1]
InvAngle(mode) ==
  LET m == Mirrored(mode) IN InverseAngles[IF m > 10 THEN 19 - m ELSE m - 1]

ChromaQPFromLuma(qp) ==
  IF qp < 29 THEN qp
  ELSE <<29, 29, 30, 31, 32, 32, 33, 34, 34, 35, 35, 36, 36,
         37, 37, 37, 38, 38, 38, 39, 39, 39, 39>>[qp - 28]

-----------------------------------------------------------------------------
(* GenIntraPrediction. *)

(* The filtered references; their ends stay. *)
Filtered(ref) ==
  Line(Len(ref), LAMBDA i :
    IF i \in {1, Len(ref)} THEN ref[i]
    ELSE (ref[i - 1] + 2 * ref[i] + ref[i + 1] + 2) \div 4)

GenIntraPredDC(ref, isLuma) ==
  LET n == (Len(ref) - 1) \div 4
      Top(i) == ref[2 * n + 1 + i]
      Left(i) == ref[2 * n + 1 - i]
      dc == (Sum[Line(n, LAMBDA i : Top(i) + Left(i))] + n) \div (2 * n)
  IN  Block(n, LAMBDA i, j :
        IF ~isLuma \/ (i > 1 /\ j > 1) THEN dc
        ELSE IF i = 1 /\ j = 1 THEN (Left(1) + 2 * dc + Top(1) + 2) \div 4
        ELSE IF i = 1 THEN (Top(j) + 3 * dc + 2) \div 4
        ELSE (Left(i) + 3 * dc + 2) \div 4)

GenIntraPredPlanar(ref) ==
  LET n == (Len(ref) - 1) \div 4
      Top(i) == ref[2 * n + 1 + i]
      Left(i) == ref[2 * n + 1 - i]
  IN  Block(n, LAMBDA i, j :
        ((n - i) * Top(j) + i * Left(n + 1) + (n - j) * Left(i) + j * Top(n + 1) + n)
          \div 2 ^ (LOG2(n) + 1))

NotWritten == 10000     \* a cell of pbRefBuff that nothing was stored in

(* Faulty variant: the extension starts from the corner itself. *)
MainRefFromCorner(ref, mode) ==
  LET n == (Len(ref) - 1) \div 4
      TopLeft(k) == ref[2 * n + 1 + (IF mode >= 18 THEN k ELSE -k)]
      minX == (n * IntraPredAngle(mode)) \div 32
  IN  [x \in -n .. 2 * n |->
         IF x >= 0 THEN TopLeft(x) ELSE IF x <= minX THEN NotWritten
         ELSE TopLeft(-((128 - (x + 1) * InvAngle(mode)) \div 256))]

(* The main reference: for negative angles it is extended by samples of the *)
(* other side down to, not including, iMinX; the rest is not written.      *)
MainRef(ref, mode) ==
  LET n == (Len(ref) - 1) \div 4
      TopLeft(k) == ref[2 * n + 1 + (IF mode >= 18 THEN k ELSE -k)]
      angle == IntraPredAngle(mode)
      minX == (n * angle) \div 32
  IN  [x \in -n .. 2 * n |->
         IF x > n /\ angle < 0 THEN NotWritten
         ELSE IF x >= 0 THEN TopLeft(x)
         ELSE IF angle >= 0 \/ x <= minX THEN NotWritten
         ELSE TopLeft(-((128 - x * InvAngle(mode)) \div 256))]

(* Lines along the direction of the main reference; the exact horizontal and *)
(* vertical ones smooth their first column; transposed for modes below 18. *)
GenIntraPredAngular(ref, mode, isLuma) ==
  LET n == (Len(ref) - 1) \div 4
      vertical == mode >= 18
      main == MainRef(ref, mode)
      Idx(k) == (k * IntraPredAngle(mode)) \div 32
      Fact(k) == (k * IntraPredAngle(mode)) % 32
      Plain(k, x) ==
        IF Fact(k) = 0 THEN main[x + Idx(k)]
        ELSE ((32 - Fact(k)) * main[x + Idx(k)] + Fact(k) * main[x + Idx(k) + 1] + 16)
               \div 32
      Side(k) == ref[2 * n + 1 + (IF vertical THEN -k ELSE k)]
      Pel(k, x) ==
        IF isLuma /\ mode \in {HOR_MODE_IDX, VER_MODE_IDX} /\ x = 1
          THEN Clip1(Plain(k, x) + ((Side(k) - Side(0)) \div 2))
        ELSE Plain(k, x)
  IN  Block(n, LAMBDA i, j : IF vertical THEN Pel(i, j) ELSE Pel(j, i))

GenIntraPrediction(ref, mode, isLuma) ==
  CASE mode = DC_MODE_IDX     -> GenIntraPredDC(ref, isLuma)
    [] mode = PLANAR_MODE_IDX -> GenIntraPredPlanar(ref)
    [] OTHER                  -> GenIntraPredAngular(ref, mode, isLuma)

-----------------------------------------------------------------------------
(* The mode: candidates, index, bins.  A bin is <<context, increment, bin>>, *)
(* bins without a context are <<"bypass", how many, value>>.               *)

GetCandModeListIntra(leftMode, topMode, firstRow) ==
  LET top  == IF topMode = NoMode \/ firstRow THEN DC_MODE_IDX ELSE topMode
      left == IF leftMode = NoMode THEN DC_MODE_IDX ELSE leftMode
  IN  IF top # left
        THEN <<left, top,
               IF PLANAR_MODE_IDX \notin {left, top} THEN PLANAR_MODE_IDX
               ELSE IF DC_MODE_IDX \notin {left, top} THEN DC_MODE_IDX
               ELSE VER_MODE_IDX>>
      ELSE IF left < 2 THEN <<PLANAR_MODE_IDX, DC_MODE_IDX, VER_MODE_IDX>>
      ELSE <<left, 2 + ((left + 29) % 32), 2 + ((left - 1) % 32)>>

(* Faulty variant: the comparisons in the order of the list, not the sorted *)
(* one, each with what the earlier ones left.                              *)
MapUnsorted(mode, cand) ==
  IF mode \in {cand[1], cand[2], cand[3]} THEN CHOOSE k \in 0 .. 2 : cand[k + 1] = mode
  ELSE LET Less(m, c) == IF m > c THEN m - 1 ELSE m
       IN  Less(Less(Less(mode, cand[1]), cand[2]), cand[3]) + 3

(* The candidates are sorted and the mode compared with the largest first:  *)
(* each candidate below the mode takes one off.                            *)
MapModeToIndex(mode, cand) ==
  IF mode \in {cand[1], cand[2], cand[3]}
    THEN CHOOSE k \in 0 .. 2 : cand[k + 1] = mode /\ \A j \in 1 .. k : cand[j] # mode
  ELSE LET Lower(c) == IF mode > c THEN 1 ELSE 0
       IN  mode - Lower(cand[1]) - Lower(cand[2]) - Lower(cand[3]) + 3

EncodeIntraDirAngGrpL(idx) ==
  LET Flag(i) == <<"prev_intra_luma_pred_flag", 0, IF i < 3 THEN 1 ELSE 0>>
      Rest(i) == CASE i = 0 -> <<"bypass", 1, 0>>
                   [] i \in {1, 2} -> <<"bypass", 2, i + 1>>
                   [] OTHER -> <<"bypass", 5, i - 3>>
  IN  [k \in DOMAIN idx |-> Flag(idx[k])] \o [k \in DOMAIN idx |-> Rest(idx[k])]

EncodeIntraDirAngC(idx) ==
  IF idx = CHROMA_DM_MODE THEN <<<<"intra_chroma_pred_mode", 0, 0>>>>
  ELSE <<<<"intra_chroma_pred_mode", 0, 1>>, <<"bypass", 2, idx>>>>

(* The chroma mode of an index: a repeated DM mode becomes 34.             *)
ChromaMode(idx, modeL) ==
  LET mode == <<PLANAR_MODE_IDX, VER_MODE_IDX, HOR_MODE_IDX, DC_MODE_IDX, modeL>>[idx + 1]
  IN  IF idx < CHROMA_DM_MODE /\ mode = modeL THEN 34 ELSE mode

-----------------------------------------------------------------------------
(* The decoder's prediction (8.4.4.2), in the coordinates p[x][y] of the    *)
(* standard: p[-1][-1] is the corner.  nTbS is the size.                   *)

DecoderFilters(nTbS, mode) ==
  LET distance == CHOOSE d \in 0 .. 26 :
                    /\ d \in {Abs(mode - 26), Abs(mode - 10)}
                    /\ d <= Abs(mode - 26) /\ d <= Abs(mode - 10)
  IN  /\ mode # DC_MODE_IDX /\ nTbS # 4
      /\ distance > (CASE nTbS = 8 -> 7 [] nTbS = 16 -> 1 [] nTbS = 32 -> 0)

DecoderDC(nTbS, P(_, _), edges) ==
  LET dcVal == (Sum[Line(nTbS, LAMBDA k : P(k - 1, -1) + P(-1, k - 1))] + nTbS)
                 \div (2 * nTbS)
      Edge(v) == (v + 3 * dcVal + 2) \div 4
  IN  Block(nTbS, LAMBDA b, a :
        LET x == a - 1  y == b - 1
        IN  CASE ~edges \/ (x > 0 /\ y > 0) -> dcVal
              [] edges /\ x = 0 /\ y = 0 -> (P(-1, 0) + 2 * dcVal + P(0, -1) + 2) \div 4
              [] edges /\ x > 0 /\ y = 0 -> Edge(P(x, -1))
              [] edges /\ x = 0 /\ y > 0 -> Edge(P(-1, y)))

DecoderPlanar(nTbS, P(_, _)) ==
  Block(nTbS, LAMBDA b, a :
    LET x == a - 1  y == b - 1
    IN  ((nTbS - 1 - x) * P(-1, y) + (x + 1) * P(nTbS, -1)
           + (nTbS - 1 - y) * P(x, -1) + (y + 1) * P(-1, nTbS) + nTbS) \div (2 * nTbS))

(* Angles by their distance from the horizontal or the vertical mode.      *)
DecoderAngular(nTbS, mode, P(_, _), edges) ==
  LET vertical == mode >= 18
      off   == IF vertical THEN mode - 26 ELSE 10 - mode
      size  == <<0, 2, 5, 9, 13, 17, 21, 26, 32>>[Abs(off) + 1]
      angle == IF off < 0 THEN -size ELSE size
      Main(k) == IF vertical THEN P(k - 1, -1) ELSE P(-1, k - 1)
      Side(k) == IF vertical THEN P(-1, k - 1) ELSE P(k - 1, -1)
      Reference(k) ==
        IF k >= 0 THEN Main(k)
        ELSE Side((-k * ((8192 + size \div 2) \div size) + 128) \div 256)
      Along(across, along) ==       \* along the main reference, across it
        LET iIdx == ((across + 1) * angle) \div 32
            iFact == ((across + 1) * angle) % 32
        IN  IF iFact = 0 THEN Reference(along + iIdx + 1)
            ELSE ((32 - iFact) * Reference(along + iIdx + 1)
                    + iFact * Reference(along + iIdx + 2) + 16) \div 32
      Smoothed(across, along) ==
        IF edges /\ off = 0 /\ along = 0
          THEN Clip1(Main(1) + ((Side(across + 1) - Side(0)) \div 2))
        ELSE Along(across, along)
  IN  Block(nTbS, LAMBDA b, a :
        IF vertical THEN Smoothed(b - 1, a - 1) ELSE Smoothed(a - 1, b - 1))

DecoderPrediction(samples, mode, isLuma) ==
  LET nTbS == (Len(samples) - 1) \div 4
      Raw(x, y) == IF y = -1 THEN samples[2 * nTbS + 2 + x] ELSE samples[2 * nTbS - y]
      Between(a, b, c) == (a + 2 * b + c + 2) \div 4
      Smooth(x, y) ==
        CASE x = -1 /\ y = -1 -> Between(Raw(-1, 0), Raw(-1, -1), Raw(0, -1))
          [] 2 * nTbS - 1 \in {x, y} -> Raw(x, y)
          [] x = -1 /\ y \in 0 .. 2 * nTbS - 2 -> Between(Raw(-1, y + 1), Raw(-1, y), Raw(-1, y - 1))
          [] y = -1 /\ x \in 0 .. 2 * nTbS - 2 -> Between(Raw(x - 1, -1), Raw(x, -1), Raw(x + 1, -1))
      Used(x, y) == IF isLuma /\ DecoderFilters(nTbS, mode) THEN Smooth(x, y) ELSE Raw(x, y)
      above == Line(2 * nTbS + 1, LAMBDA k : Used(k - 2, -1))
      beside == Line(2 * nTbS, LAMBDA k : Used(-1, k - 1))
      P(x, y) == IF y = -1 THEN above[x + 2] ELSE beside[y + 1]
      edges == isLuma /\ nTbS < 32      \* 8.4.4.2.5, 8.4.4.2.6
  IN  CASE mode = DC_MODE_IDX     -> DecoderDC(nTbS, P, edges)
        [] mode = PLANAR_MODE_IDX -> DecoderPlanar(nTbS, P)
        [] OTHER                  -> DecoderAngular(nTbS, mode, P, edges)

(* Table 8-10 of the published standard, for 4:2:0. *)
DecoderChromaQP(qPi) ==
  IF qPi < 30 THEN qPi ELSE IF qPi > 43 THEN qPi - 6
  ELSE <<29, 30, 31, 32, 33, 33, 34, 34, 35, 35, 36, 36, 37, 37>>[qPi - 29]

-----------------------------------------------------------------------------
(* The decoder's modes (7.3.8.5, 8.4.2, 8.4.3).  Bins come one at a time;   *)
(* what is read is NotRead when a bin was coded with another context.      *)

NotRead == 1000

SingleBins(groups) ==
  LET Single(g) == IF g[1] # "bypass" THEN <<g>>
                   ELSE [k \in 1 .. g[2] |-> <<"bypass", 0, (g[3] \div 2 ^ (g[2] - k)) % 2>>]
      all[k \in 0 .. Len(groups)] == IF k = 0 THEN <<>> ELSE all[k - 1] \o Single(groups[k])
  IN  all[Len(groups)]

BinIs(b, at, context) == at <= Len(b) /\ b[at][1] = context /\ b[at][2] = 0
BypassValue(b, at, n) ==
  LET num[k \in 0 .. n] == IF k = 0 THEN 0 ELSE 2 * num[k - 1] + b[at + k - 1][3]
  IN  num[n]
AllBypass(b, at, n) == \A k \in at .. at + n - 1 : BinIs(b, k, "bypass")

DecoderCandModes(leftMode, aboveMode, aboveOutsideCTU) ==
  LET A == IF leftMode = NoMode THEN 1 ELSE leftMode
      B == IF aboveMode = NoMode \/ aboveOutsideCTU THEN 1 ELSE aboveMode
      third == CHOOSE m \in {0, 1, 26} : /\ m \notin {A, B}
                                         /\ \A o \in {0, 1, 26} \ {A, B} : m <= o
  IN  CASE A = B /\ A < 2  -> <<0, 1, 26>>
        [] A = B /\ A >= 2 -> <<A, 2 + ((A + 29) % 32), 2 + ((A - 2 + 1) % 32)>>
        [] A # B           -> <<A, B, third>>

(* rem is the number of the mode among those that are no candidates. *)
DecoderRemaining(rem, cand) ==
  CHOOSE m \in Modes : /\ m \notin {cand[1], cand[2], cand[3]}
                       /\ rem = m - (IF cand[1] < m THEN 1 ELSE 0)
                                  - (IF cand[2] < m THEN 1 ELSE 0)
                                  - (IF cand[3] < m THEN 1 ELSE 0)

(* The modes of the prediction units of a CU, cands their candidate lists. *)
DecoderLumaModes(b, cands) ==
  LET K == Len(cands)
      read[k \in 0 .. K] ==
        IF k = 0 THEN [at |-> K + 1, modes |-> <<>>]
        ELSE LET r == read[k - 1]
                 flag == b[k][3] = 1
                 n == IF ~flag THEN 5 ELSE IF b[r.at][3] = 0 THEN 1 ELSE 2
                 v == BypassValue(b, r.at, n)
                 mode == IF ~flag THEN DecoderRemaining(v, cands[k])
                         ELSE cands[k][IF v = 0 THEN 1 ELSE v]
             IN  [at |-> r.at + n, modes |-> Append(r.modes, mode)]
  IN  IF /\ \A k \in 1 .. K : BinIs(b, k, "prev_intra_luma_pred_flag")
         /\ AllBypass(b, K + 1, Len(b) - K)
         /\ read[K].at = Len(b) + 1
      THEN read[K].modes ELSE <<NotRead>>

DecoderChromaMode(b, lumaMode) ==
  LET table == IF b[1][3] = 0 THEN lumaMode
               ELSE <<0, 26, 10, 1>>[BypassValue(b, 2, 2) + 1]
  IN  IF ~BinIs(b, 1, "intra_chroma_pred_mode")
         \/ ~AllBypass(b, 2, Len(b) - 1) \/ Len(b) # (IF b[1][3] = 0 THEN 1 ELSE 3)
      THEN NotRead
      ELSE IF b[1][3] = 1 /\ table = lumaMode THEN 34 ELSE table

=============================================================================
