------------------------- MODULE H265CTUCompressor -------------------------
(***************************************************************************)
(* The CTU compressor of one tile: the recursive search of the luma        *)
(* quadtree (a trial of the four parts overwrites the buffers before the   *)
(* CU that holds them is coded), the chroma pass over what the search      *)
(* left, the syntax of the CTU, and the border buffers that carry samples, *)
(* modes and availability from one CTU to the next.                        *)
(*                                                                         *)
(* Positions are in PUs (MIN_CU_SIZE = 4 luma pixels).  A sample, a mode   *)
(* or a block of coefficients is known by the coding unit that wrote it:   *)
(* the tag <<x, y, size>>, in PUs from the tile's corner.  What a mode     *)
(* predicts from its references is in IntraPrediction; which trial is kept *)
(* (the SADs of lines 754 and 786) is a choice here.                       *)
(***************************************************************************)
EXTENDS Integers, Sequences, FiniteSets, SequencesExt

CONSTANTS
  TileWidth,        \* CTUs in a row of the tile
  TileHeight,       \* CTUs in a column of the tile
  LastTileOfSlice,  \* whether the slice ends with this tile
  MaxTrials         \* bound: splits of the tile tried beyond their first part,
                    \* counted again when they are given up

ASSUME CTUAssumption ==
  /\ TileWidth \in Nat \ {0} /\ TileHeight \in Nat \ {0}
  /\ LastTileOfSlice \in BOOLEAN /\ MaxTrials \in Nat

TOT_PUS_LINE == 8       \* CTU_WIDTH / MIN_CU_SIZE
N == TOT_PUS_LINE

VARIABLES
  pc,         \* where CompressTile is: see the actions
  ctu,        \* index of the CTU in the tile, i of CompressTile
  stack,      \* the activations of xCompressLumaCU, the innermost last
  tot4x4s,    \* uiTot4x4s of CompressChromaCU
  neighMode,  \* m_pbNeighIntraModeL, a row above and below, a column each side
  infoL,      \* m_pbIntraModeInfoL, with a row above and a column to the left
  infoC,      \* m_puiIntraModeInfoC
  topInfoL,   \* m_pbTopLineIntraModeInfoL
  tempPred,   \* m_pppbTempPred: the best prediction of each size
  rec,        \* m_pbRecY and m_pbRecCb/Cr, with a column to the left
  refTop,     \* m_pbRefTopBuffY and m_pbRefTopBuffCb/Cr, with a cell to the left
  savedLT,    \* m_bSavedLTY and m_bSavedLTCb/Cr
  coeff,      \* m_piCoeffY and m_piCoeffCb/Cr
  refC,       \* m_pbRefCb/Cr of the last chroma block, and its place
  syntax,     \* what EncodeCTU gave to the CABAC engine for the CTU
  frame,      \* the YUV buffer: source, then reconstruction
  pic,        \* history: what a decoder of the CUs coded so far has
  trials      \* what MaxTrials bounds

vars == <<pc, ctu, stack, tot4x4s, neighMode, infoL, infoC, topInfoL, tempPred,
          rec, refTop, savedLT, coeff, refC, syntax, frame, pic, trials>>

INVALID_MODE == <<>>
VALID_MODE   == <<0>>
DC_MODE      == <<1>>
Zero         == <<0>>       \* the sample 0
Grey         == <<128>>     \* 0x80, when nothing is available
Stale        == <<-1>>      \* left by another frame, or never written
Source       == <<-2>>      \* a sample of the file

Planes == {"Y", "C"}        \* Cb and Cr are treated alike
PUs == 0 .. N - 1
Log2 == [s \in {1, 2, 4, 8} |-> CHOOSE l \in 0 .. 3 : 2 ^ l = s]
InBlock(i, at, s) == at <= i /\ i < at + s

(* The cell of the CU at (x, y) in an array with d extra rows and columns   *)
(* set to v, the others as they are.                                       *)
Fill(array, x, y, s, v) ==
  [r \in DOMAIN array |->
     [c \in DOMAIN array[r] |->
        IF InBlock(r, y, s) /\ InBlock(c, x, s) THEN v ELSE array[r][c]]]

cx == ctu % TileWidth
cy == ctu \div TileWidth
OffsetX == cx * N           \* uiCTUOffsetXFromTile
OffsetY == cy * N
Tag(x, y, s) == <<OffsetX + x, OffsetY + y, s>>

-----------------------------------------------------------------------------
(* The references of a block: CheckNeighAvail, GenReferenceSamplesIntra and *)
(* SubstituteReference.  The zones are LB, L, LT, T and TR.                *)

CheckNeighAvail(x, y, s) ==
  <<neighMode[y + 1 + s][x] # INVALID_MODE, neighMode[y + 1][x] # INVALID_MODE,
    neighMode[y][x] # INVALID_MODE, neighMode[y][x + 1] # INVALID_MODE,
    neighMode[y][x + 1 + s] # INVALID_MODE>>

InitRefPointers(s) == <<0, s, 2 * s, 2 * s + 1, 3 * s + 1, 4 * s + 1>>

SubstituteReference(raw, valid, s) ==
  LET offset == InitRefPointers(s)
      first  == Min({z \in 1 .. 5 : valid[z]})
      Zone(i) == CHOOSE z \in 1 .. 5 : offset[z] <= i /\ i < offset[z + 1]
      sub[i \in 0 .. 4 * s] ==
        IF i < offset[first] THEN raw[offset[first]]
        ELSE IF valid[Zone(i)] THEN raw[i]
        ELSE sub[offset[Zone(i)] - 1]
  IN  sub

(* The left column is read upwards, the row above to the right; a read that *)
(* leaves the CTU's array finds something stale.                           *)
GenReferenceSamplesIntra(p, x, y, s, valid) ==
  LET Left(r)  == IF r \in PUs THEN rec[p][r][x - 1] ELSE Stale
      Above(k) == IF y = 0 THEN refTop[p][OffsetX + x + k]
                  ELSE IF x - 1 + k \in PUs \cup {-1} THEN rec[p][y - 1][x - 1 + k]
                  ELSE Stale
      raw == [i \in 0 .. 4 * s |-> IF i < 2 * s THEN Left(y + 2 * s - 1 - i)
                                   ELSE Above(i - 2 * s)]
  IN  IF \E z \in 1 .. 5 : valid[z] THEN SubstituteReference(raw, valid, s)
      ELSE [i \in 0 .. 4 * s |-> Grey]

(* The neighbours' modes that GetCandModeListIntra builds its list from.   *)
GetCandModeListIntra(x, y) ==
  <<IF neighMode[y + 1][x] = INVALID_MODE THEN DC_MODE ELSE neighMode[y + 1][x],
    IF neighMode[y][x + 1] = INVALID_MODE \/ y = 0 THEN DC_MODE
    ELSE neighMode[y][x + 1]>>

-----------------------------------------------------------------------------
(* CompressTile starts: InitBuffersNewTile.                                *)
InitBuffersNewTile ==
  /\ pc = "InitBuffersNewTile"
  /\ neighMode' = [r \in 0 .. N + 1 |-> [c \in 0 .. N + 1 |-> INVALID_MODE]]
  /\ infoL' = [r \in 0 .. N |-> [c \in 0 .. N |-> [cu |-> INVALID_MODE, valid |-> <<>>]]]
  /\ infoC' = [r \in PUs |-> [c \in PUs |-> [idx |-> INVALID_MODE, c |-> INVALID_MODE]]]
  /\ topInfoL' = [k \in DOMAIN topInfoL |-> [cu |-> INVALID_MODE, valid |-> <<>>]]
  /\ savedLT' = [p \in Planes |-> Zero]
  /\ pc' = "PrepareCTU"
  /\ UNCHANGED <<ctu, stack, tot4x4s, tempPred, rec, refTop, coeff, refC, syntax,
                 frame, pic, trials>>

NewCU(x, y, s) == [x |-> x, y |-> y, size |-> s, part |-> 0,
                   valid |-> <<>>, cand |-> <<>>]

(* The availability of the row above, with the clearing of a new CTU line  *)
(* (InitBuffersNewCTULine); the info of the row above; and the top-left    *)
(* sample of the row above put back for the time of this CTU.              *)
PrepareCTU ==
  LET above(c) == IF c = 0 THEN cx > 0 /\ cy > 0
                  ELSE IF c = N + 1 THEN cx < TileWidth - 1 /\ cy > 0
                  ELSE cy > 0
  IN  /\ pc = "PrepareCTU"
      /\ neighMode' =
           [r \in 0 .. N + 1 |-> [c \in 0 .. N + 1 |->
              IF r = 0 /\ (cx = 0 \/ c \in {0, N + 1})
                THEN IF above(c) THEN VALID_MODE ELSE INVALID_MODE
              ELSE IF cx = 0 THEN INVALID_MODE ELSE neighMode[r][c]]]
      /\ infoL' = [infoL EXCEPT ![0] = [c \in 0 .. N |->
                     IF c = 0 THEN infoL[0][0] ELSE topInfoL[OffsetX + c - 1]]]
      /\ refTop' = [p \in Planes |-> [refTop[p] EXCEPT ![OffsetX] = savedLT[p]]]
      /\ savedLT' = [p \in Planes |-> refTop[p][OffsetX]]
      /\ stack' = <<NewCU(0, 0, N)>>
      /\ pc' = "TestModes"
      /\ UNCHANGED <<ctu, tot4x4s, infoC, topInfoL, tempPred, rec, coeff, refC,
                     syntax, frame, pic, trials>>

-----------------------------------------------------------------------------
(* xCompressLumaCU.                                                        *)

cu == Last(stack)

(* Faulty variant: displaced by the size of the whole CU. *)
PartTooFar(c, k) == NewCU(c.x + c.size * (k % 2), c.y + c.size * (k \div 2), c.size \div 2)

Part(c, k) == NewCU(c.x + (c.size \div 2) * (k % 2),
                    c.y + (c.size \div 2) * (k \div 2), c.size \div 2)

(* References, candidates and the best of the modes; its prediction goes to *)
(* the buffer of the CU's size.  A CU larger than a PU then tries its parts *)
(* (the best SAD includes the QP, which is at least 1).                    *)
TestModes ==
  LET valid == CheckNeighAvail(cu.x, cu.y, cu.size)
      known == [cu EXCEPT !.valid = valid, !.cand = GetCandModeListIntra(cu.x, cu.y)]
  IN  /\ pc = "TestModes"
      /\ tempPred' = [tempPred EXCEPT
                        ![cu.size] = GenReferenceSamplesIntra("Y", cu.x, cu.y, cu.size, valid)]
      /\ IF cu.size > 1
           THEN /\ stack' = Append(Front(stack) \o <<known>>, Part(cu, 0))
                /\ UNCHANGED pc
           ELSE /\ stack' = Front(stack) \o <<known>>
                /\ pc' = "CodeCU"
      /\ UNCHANGED <<ctu, tot4x4s, neighMode, infoL, infoC, topInfoL, rec, refTop,
                     savedLT, coeff, refC, syntax, frame, pic, trials>>

(* bSplit is false: transform, reconstruct and note what was chosen.       *)
CodeCU ==
  LET tag == Tag(cu.x, cu.y, cu.size)
  IN  /\ pc = "CodeCU"
      /\ coeff' = [coeff EXCEPT !["Y"] = Fill(@, cu.x, cu.y, cu.size, tag)]
      /\ rec' = [rec EXCEPT !["Y"] = Fill(@, cu.x, cu.y, cu.size, tag)]
      /\ infoC' = [infoC EXCEPT ![cu.y][cu.x] =
                     [idx |-> <<tag>> \o cu.cand, c |-> INVALID_MODE]]
      /\ infoL' = Fill(infoL, cu.x + 1, cu.y + 1, cu.size,
                       [cu |-> tag, valid |-> cu.valid])
      /\ neighMode' = Fill(neighMode, cu.x + 1, cu.y + 1, cu.size, tag)
      /\ pic' = [pic EXCEPT !["Y"] = Fill(@, tag[1], tag[2], cu.size, tag)]
      /\ stack' = Front(stack)
      /\ pc' = IF Len(stack) = 1 THEN "CompressChromaCU" ELSE "PartDone"
      /\ UNCHANGED <<ctu, tot4x4s, topInfoL, tempPred, refTop, savedLT, refC,
                     syntax, frame, trials>>

(* A part has returned.  Splitting is not good so far, and the CU is coded  *)
(* whole; or the next part is tried; or the four parts stay.               *)
SplitIsBad ==
  /\ pc = "PartDone"
  /\ trials' = IF cu.part > 0 THEN trials + 1 ELSE trials
  /\ trials' <= MaxTrials
  /\ pc' = "CodeCU"
  /\ UNCHANGED <<ctu, stack, tot4x4s, neighMode, infoL, infoC, topInfoL, tempPred,
                 rec, refTop, savedLT, coeff, refC, syntax, frame, pic>>

NextPart ==
  /\ pc = "PartDone" /\ cu.part < 3
  /\ trials' = IF cu.part = 0 THEN trials + 1 ELSE trials
  /\ trials' <= MaxTrials
  /\ stack' = Append(Front(stack) \o <<[cu EXCEPT !.part = @ + 1]>>,
                     Part(cu, cu.part + 1))
  /\ pc' = "TestModes"
  /\ UNCHANGED <<ctu, tot4x4s, neighMode, infoL, infoC, topInfoL, tempPred, rec,
                 refTop, savedLT, coeff, refC, syntax, frame, pic>>

SplitIsGood ==
  /\ pc = "PartDone" /\ cu.part = 3
  /\ stack' = Front(stack)
  /\ pc' = IF Len(stack) = 1 THEN "CompressChromaCU" ELSE "PartDone"
  /\ UNCHANGED <<ctu, tot4x4s, neighMode, infoL, infoC, topInfoL, tempPred, rec,
                 refTop, savedLT, coeff, refC, syntax, frame, pic, trials>>

-----------------------------------------------------------------------------
(* The even and the odd bits of the count of 4x4 blocks are the place.     *)
GetDispFrom4x4s(tot) ==
  LET Bit(b) == (tot \div 2 ^ b) % 2
  IN  <<Bit(0) + 2 * Bit(2) + 4 * Bit(4), Bit(1) + 2 * Bit(3) + 4 * Bit(5)>>

(* Faulty variant: the sample above the CTU's last column is not kept. *)
TopLeftNotSaved ==
  /\ refTop' = [p \in Planes |-> [refTop[p] EXCEPT ![OffsetX] = savedLT[p]]]
  /\ UNCHANGED savedLT

(* The last step of CompressCTU: the newer sample back into the row above,  *)
(* and the last sample of this CTU's row above kept for the next CTU.      *)
FinishCTU ==
  /\ refTop' = [p \in Planes |-> [refTop[p] EXCEPT ![OffsetX] = savedLT[p]]]
  /\ savedLT' = [p \in Planes |-> refTop[p][OffsetX + N]]

(* Faulty variant: the availability of the first of four 4x4 blocks. *)
AvailOfFirst(x, y) == infoL[y + 1][x + 1].valid

(* The availability for the chroma block at (x, y).  Four 4x4 luma blocks share a *)
(* 4x4 chroma block, whose lower left neighbour is that of the third of    *)
(* them and whose upper right neighbour that of the second.                *)
ChromaAvail(x, y) ==
  LET info == infoL[y + 1][x + 1]
  IN  IF info.cu[3] # 1 THEN info.valid
      ELSE [info.valid EXCEPT ![1] = infoL[y + 2][x + 1].valid[1],
                              ![5] = infoL[y + 1][x + 2].valid[5]]

(* One round of the loop of CompressChromaCU. *)
CompressChromaCU ==
  LET x == GetDispFrom4x4s(tot4x4s)[1]
      y == GetDispFrom4x4s(tot4x4s)[2]
      sizeL == infoL[y + 1][x + 1].cu[3]
      sizeC == IF sizeL = 1 THEN 2 ELSE sizeL
      modeL == neighMode[y + 1][x + 1]
      next  == tot4x4s + sizeC * sizeC
  IN  /\ pc = "CompressChromaCU"
      /\ refC' = [x |-> OffsetX + x, y |-> OffsetY + y, size |-> sizeC,
                  ref |-> GenReferenceSamplesIntra("C", x, y, sizeC, ChromaAvail(x, y))]
      /\ coeff' = [coeff EXCEPT !["C"] = Fill(@, x, y, sizeC, modeL)]
      /\ rec' = [rec EXCEPT !["C"] = Fill(@, x, y, sizeC, modeL)]
      /\ infoC' = [infoC EXCEPT ![y][x].c = @ \o modeL]
      /\ pic' = [pic EXCEPT !["C"] = Fill(@, OffsetX + x, OffsetY + y, sizeC, modeL)]
      /\ IF next < N * N
           THEN /\ tot4x4s' = next
                /\ UNCHANGED <<pc, refTop, savedLT>>
           ELSE /\ tot4x4s' = 0
                /\ FinishCTU
                /\ pc' = "EncodeCTU"
      /\ UNCHANGED <<ctu, stack, neighMode, infoL, topInfoL, tempPred, syntax, frame, trials>>

-----------------------------------------------------------------------------
(* EncodeCTU: the syntax elements, with their context increments where the  *)
(* CTU compressor computes them.                                           *)

Coefficients(p, x, y, s) ==
  {coeff[p][b[2]][b[1]] : b \in (x .. x + s - 1) \X (y .. y + s - 1)}

(* Faulty variant: the lower left PU before the upper right one. *)
PUsColumnwise == <<<<0, 0>>, <<0, 1>>, <<1, 0>>, <<1, 1>>>>

PUsOf8x8 == <<<<0, 0>>, <<1, 0>>, <<0, 1>>, <<1, 1>>>>

(* One round of the loop: the elements for the 4x4 block number tot.       *)
EncodeCU(tot) ==
  LET x == GetDispFrom4x4s(tot)[1]
      y == GetDispFrom4x4s(tot)[2]
      info == infoL[y + 1][x + 1]
      flag == Log2[info.cu[3]]
      leftFlag == IF info.valid[2] THEN Log2[infoL[y + 1][x].cu[3]] ELSE 7
      topFlag  == IF info.valid[4] THEN Log2[infoL[y][x + 1].cu[3]] ELSE 7
      Split(l) == <<<<"split_cu_flag", flag < l,
                      (IF topFlag < l THEN 1 ELSE 0) + (IF leftFlag < l THEN 1 ELSE 0)>>>>
      pus == IF flag = 0 THEN PUsOf8x8 ELSE <<<<0, 0>>>>
      firstPU == tot % 4 = 0
      lastPU  == flag = 0 /\ tot % 4 = 3
      xc == IF lastPU THEN x - 1 ELSE x     \* back to the first of the four
      yc == IF lastPU THEN y - 1 ELSE y
  IN  (IF tot = 0 THEN Split(3) ELSE <<>>)
      \o (IF flag <= 2 /\ tot % 16 = 0 THEN Split(2) ELSE <<>>)
      \o (IF firstPU /\ flag <= 1 THEN <<<<"part_mode", flag # 0>>>> ELSE <<>>)
      \o (IF ~firstPU THEN <<>>
          ELSE [k \in DOMAIN pus |->
                  <<"luma_mode", infoC[y + pus[k][2]][x + pus[k][1]].idx>>]
               \o <<<<"chroma_mode_cbf", infoC[y][x].c>>>>)
      \o <<<<"cbf_luma", info.cu, flag # 0>>,
           <<"luma_coeff", Coefficients("Y", x, y, info.cu[3]), neighMode[y + 1][x + 1]>>>>
      \o (IF flag # 0 \/ lastPU
            THEN <<<<"chroma_coeff",
                     Coefficients("C", xc, yc, IF lastPU THEN 2 ELSE info.cu[3]),
                     infoC[yc][xc].c, neighMode[yc + 1][xc + 1]>>>>
            ELSE <<>>)

IsLastTileCTU == ctu = TileWidth * TileHeight - 1
IsLastSliceCTU == IsLastTileCTU /\ LastTileOfSlice

EncodeCTU ==
  LET loop[tot \in 0 .. N * N] ==
        IF tot >= N * N THEN <<>>
        ELSE LET d == GetDispFrom4x4s(tot)
                 s == infoL[d[2] + 1][d[1] + 1].cu[3]
             IN  EncodeCU(tot) \o loop[tot + s * s]
      terminate == (IF IsLastSliceCTU THEN <<>> ELSE <<<<"terminate", FALSE>>>>)
                   \o (IF IsLastTileCTU THEN <<<<"terminate", TRUE>>>> ELSE <<>>)
  IN  /\ pc = "EncodeCTU"
      /\ syntax' = loop[0] \o terminate
      /\ pc' = "UpdateBuffers"
      /\ UNCHANGED <<ctu, stack, tot4x4s, neighMode, infoL, infoC, topInfoL, tempPred,
                     rec, refTop, savedLT, coeff, refC, frame, pic, trials>>

(* Faulty variant: rows are copied in pairs, the last one is left out. *)
ReplacedButLastRow(r, c) == InBlock(r, OffsetY, N - 1) /\ InBlock(c, OffsetX, N)

Replaced(r, c) == InBlock(r, OffsetY, N) /\ InBlock(c, OffsetX, N)

(* The reconstruction replaces the source, the last column and the last row *)
(* become the borders of the next CTU and of the row below.                *)
UpdateBuffers ==
  /\ pc = "UpdateBuffers"
  /\ frame' = [p \in Planes |-> [r \in DOMAIN frame[p] |-> [c \in DOMAIN frame[p][r] |->
                 IF Replaced(r, c)
                   THEN rec[p][r - OffsetY][c - OffsetX] ELSE frame[p][r][c]]]]
  /\ neighMode' = [r \in 0 .. N + 1 |-> [c \in 0 .. N + 1 |->
                     IF r \in 1 .. N /\ c = 0 THEN neighMode[r][N]
                     ELSE IF r \in 1 .. N /\ c \in 1 .. N THEN INVALID_MODE
                     ELSE neighMode[r][c]]]
  /\ infoL' = [r \in 0 .. N |-> [c \in 0 .. N |->
                 IF r > 0 /\ c = 0 THEN infoL[r][N] ELSE infoL[r][c]]]
  /\ refTop' = [p \in Planes |-> [k \in DOMAIN refTop[p] |->
                  IF InBlock(k, OffsetX + 1, N) THEN rec[p][N - 1][k - OffsetX - 1]
                  ELSE refTop[p][k]]]
  /\ topInfoL' = [k \in DOMAIN topInfoL |->
                    IF InBlock(k, OffsetX, N) THEN infoL[N][k - OffsetX + 1]
                    ELSE topInfoL[k]]
  /\ rec' = [p \in Planes |-> [r \in PUs |-> [rec[p][r] EXCEPT ![-1] = rec[p][r][N - 1]]]]
  /\ IF IsLastTileCTU THEN pc' = "Done" /\ UNCHANGED ctu
                      ELSE pc' = "PrepareCTU" /\ ctu' = ctu + 1
  /\ UNCHANGED <<stack, tot4x4s, infoC, tempPred, savedLT, coeff, refC, syntax, pic, trials>>

-----------------------------------------------------------------------------
Width == TileWidth * N
Height == TileHeight * N
Picture(v) == [p \in Planes |-> [r \in 0 .. Height - 1 |-> [c \in 0 .. Width - 1 |-> v]]]

(* Every buffer holds what another frame left: only what InitBuffersNewTile *)
(* and the CTUs write may matter.                                          *)
Init ==
  LET info == [cu |-> Stale, valid |-> <<TRUE, TRUE, TRUE, TRUE, TRUE>>]
      refs == [p \in Planes |-> [k \in 0 .. Width + N |-> Stale]]
  IN  /\ pc = "InitBuffersNewTile"
      /\ ctu = 0 /\ stack = <<>> /\ tot4x4s = 0
      /\ neighMode = [r \in 0 .. N + 1 |-> [c \in 0 .. N + 1 |-> Stale]]
      /\ infoL = [r \in 0 .. N |-> [c \in 0 .. N |-> info]]
      /\ infoC = [r \in PUs |-> [c \in PUs |-> [idx |-> Stale, c |-> Stale]]]
      /\ topInfoL = [k \in 0 .. Width |-> info]
      /\ tempPred = [s \in {1, 2, 4, 8} |-> [i \in 0 .. 4 * s |-> Stale]]
      /\ rec = [p \in Planes |-> [r \in PUs |-> [c \in -1 .. N - 1 |-> Stale]]]
      /\ refTop = refs
      /\ savedLT = [p \in Planes |-> Stale]
      /\ coeff = [p \in Planes |-> [r \in PUs |-> [c \in PUs |-> Stale]]]
      /\ refC = [x |-> 0, y |-> 0, size |-> 0, ref |-> <<>>]
      /\ syntax = <<>>
      /\ frame = Picture(Source)
      /\ pic = Picture(Stale) /\ trials = 0

Next ==
  \/ InitBuffersNewTile \/ PrepareCTU
  \/ TestModes \/ CodeCU \/ SplitIsBad \/ NextPart \/ SplitIsGood
  \/ CompressChromaCU \/ EncodeCTU \/ UpdateBuffers

Spec == Init /\ [][Next]_vars

-----------------------------------------------------------------------------
(* The decoder's side, written from the standard over the whole tile: what  *)
(* is available is what precedes in decoding order (6.4.1), a sample that   *)
(* is not takes the nearest one before it, from the bottom left up and to   *)
(* the right (8.4.4.2.2).                                                  *)

Z(x, y) == LET Bit(v, b) == (v \div 2 ^ b) % 2
           IN  Bit(x, 0) + 2 * Bit(y, 0) + 4 * Bit(x, 1) + 8 * Bit(y, 1)
                 + 16 * Bit(x, 2) + 32 * Bit(y, 2)
Order(x, y) == ((y \div N) * TileWidth + x \div N) * N * N + Z(x % N, y % N)
Decoded(at, X, Y) ==
  /\ at[1] \in 0 .. Width - 1 /\ at[2] \in 0 .. Height - 1
  /\ Order(at[1], at[2]) < Order(X, Y)

DecoderReferences(p, X, Y, s) ==
  LET At(i) == IF i <= 2 * s THEN <<X - 1, Y + 2 * s - 1 - i>>
                             ELSE <<X + i - 2 * s - 1, Y - 1>>
      known == {i \in 0 .. 4 * s : Decoded(At(i), X, Y)}
      Nearest(i) == IF \E k \in known : k <= i THEN Max({k \in known : k <= i})
                                              ELSE Min(known)
  IN  [i \in 0 .. 4 * s |-> IF known = {} THEN Grey
                            ELSE pic[p][At(Nearest(i))[2]][At(Nearest(i))[1]]]

(* The modes of the left and upper neighbours (8.4.2): that of a block above *)
(* the CTU counts as DC.                                                   *)
DecoderCandidates(X, Y) ==
  <<IF Decoded(<<X - 1, Y>>, X, Y) THEN pic["Y"][Y][X - 1] ELSE DC_MODE,
    IF Decoded(<<X, Y - 1>>, X, Y) /\ Y % N # 0 THEN pic["Y"][Y - 1][X] ELSE DC_MODE>>

CUAt(at) == pic["Y"][at[2]][at[1]]

(* 7.3.8: the coding units of the CTU in order, with the context of         *)
(* split_cu_flag (9.3.4.2.2), and the two flags that end a CTU.            *)
SplitFlag(X, Y, s) ==
  <<"split_cu_flag", CUAt(<<X, Y>>)[3] < s,
    Cardinality({at \in {<<X - 1, Y>>, <<X, Y - 1>>} :
                   Decoded(at, X, Y) /\ CUAt(at)[3] < s})>>

CodingUnit(X, Y, s) ==
  LET nxn   == CUAt(<<X, Y>>)[3] = 1
      parts == IF nxn THEN <<<<X, Y>>, <<X + 1, Y>>, <<X, Y + 1>>, <<X + 1, Y + 1>>>>
                      ELSE <<<<X, Y>>>>
      of    == [k \in DOMAIN parts |-> CUAt(parts[k])]
  IN  (IF s = 2 THEN <<<<"part_mode", ~nxn>>>> ELSE <<>>)
      \o [k \in DOMAIN parts |->
            <<"luma_mode", <<of[k]>> \o DecoderCandidates(parts[k][1], parts[k][2])>>]
      \o <<<<"chroma_mode_cbf", of[1]>>>>
      \o FlattenSeq([k \in DOMAIN parts |->
            <<<<"cbf_luma", of[k], ~nxn>>, <<"luma_coeff", {of[k]}, of[k]>>>>])
      \o <<<<"chroma_coeff", {of[1]}, of[1], of[1]>>>>

CodingTreeUnit ==
  LET tree[b \in (PUs \X PUs) \X {2, 4, 8}] ==
        LET x == b[1][1]  y == b[1][2]  s == b[2]  h == s \div 2
            X == OffsetX + x  Y == OffsetY + y
        IN  (IF s > 2 THEN <<SplitFlag(X, Y, s)>> ELSE <<>>)
            \o IF s > 2 /\ CUAt(<<X, Y>>)[3] < s
                 THEN tree[<<<<x, y>>, h>>] \o tree[<<<<x + h, y>>, h>>]
                      \o tree[<<<<x, y + h>>, h>>] \o tree[<<<<x + h, y + h>>, h>>]
                 ELSE CodingUnit(X, Y, s)
      lastCTU == ctu = TileWidth * TileHeight - 1
  IN  tree[<<<<0, 0>>, N>>]
      \o <<<<"terminate", lastCTU /\ LastTileOfSlice>>>>
      \o IF lastCTU /\ ~LastTileOfSlice THEN <<<<"terminate", TRUE>>>> ELSE <<>>

-----------------------------------------------------------------------------
(* Types of what controls the search: the activations are nested CUs, each  *)
(* half as large as the one that called it.                                *)
CTUTypeOK ==
  /\ pc \in {"InitBuffersNewTile", "PrepareCTU", "TestModes", "CodeCU", "PartDone",
             "CompressChromaCU", "EncodeCTU", "UpdateBuffers", "Done"}
  /\ ctu \in 0 .. TileWidth * TileHeight - 1
  /\ tot4x4s \in 0 .. N * N - 1 /\ trials \in 0 .. MaxTrials
  /\ \A k \in DOMAIN stack :
       /\ stack[k].size = N \div 2 ^ (k - 1)
       /\ stack[k].x \in PUs /\ stack[k].y \in PUs /\ stack[k].part \in 0 .. 3
       /\ k > 1 => LET up == stack[k - 1]
                   IN  stack[k].x \div up.size = up.x \div up.size

(* When a CU is coded, after whatever trials of its parts, the prediction    *)
(* it codes was made from the samples a decoder has there, and its mode is   *)
(* coded against the candidates a decoder derives: the availability arrays,  *)
(* the border buffers, the swapped top-left sample and the prediction        *)
(* buffers of CheckNeighAvail, GenReferenceSamplesIntra, UpdateBuffers and   *)
(* xCompressLumaCU agree with the decoding order.                          *)
LumaReferencesAreDecoders ==
  pc = "CodeCU" =>
    LET X == OffsetX + cu.x  Y == OffsetY + cu.y
    IN  /\ tempPred[cu.size] = DecoderReferences("Y", X, Y, cu.size)
        /\ cu.cand = DecoderCandidates(X, Y)

(* The chroma pass walks the CTU with the availability that the luma search  *)
(* left in m_pbIntraModeInfoL, and takes that of two other blocks for four   *)
(* 4x4 luma blocks (CompressChromaCU): its references are the decoder's.    *)
ChromaReferencesAreDecoders ==
  refC.size > 0 /\ pc \in {"CompressChromaCU", "EncodeCTU"} =>
    refC.ref = DecoderReferences("C", refC.x, refC.y, refC.size)

(* What EncodeCTU gives to the CABAC engine, walking 4x4 blocks by the       *)
(* interleaved bits of a counter, is the coding quadtree of the CUs in the   *)
(* standard's order, with its contexts, whatever trials were abandoned.     *)
SyntaxIsStandard == pc = "UpdateBuffers" => syntax = CodingTreeUnit

(* Between two CTUs the YUV buffer holds the decoder's samples for those that *)
(* are done and the source for the others (UpdateBuffers writes over the   *)
(* source).                                                                *)
FrameIsDecoders ==
  pc \in {"PrepareCTU", "Done"} =>
    \A p \in Planes : \A r \in 0 .. Height - 1 : \A c \in 0 .. Width - 1 :
      LET of == (r \div N) * TileWidth + c \div N
      IN  frame[p][r][c] = IF of < ctu \/ pc = "Done" THEN pic[p][r][c] ELSE Source

=============================================================================
