----------------------------- MODULE BlockCodec ------------------------------
(***************************************************************************)
(* One transform block from its reference samples to its bins: prediction, *)
(* transform, quantisation, reconstruction (xCompressLumaCU, lines 734 to  *)
(* 740 and 794 to 814, or a plane in CompressChromaCU), the mode and the   *)
(* coefficients as bins.                                                   *)
(* Beside it goes a decoder of the standard: it reads the bins of every    *)
(* action and builds the block from what it read alone.                    *)
(***************************************************************************)
EXTENDS CabacResidual

CONSTANTS
  Blocks  \* the blocks coded: luma or not, reference samples, source, QP of the
          \* slice; pus are the prediction units whose modes are coded together,
          \* the block's own first: <<mode, left, above, first row of the CTU>>
          \* in luma, <<index, luma mode>> in chroma

ASSUME BlockAssumption ==
  \A b \in Blocks :
    /\ b.qp \in 0 .. 51 /\ Len(b.pus) \in {1, 4}
    /\ Len(b.source) \in {4, 8, 16, 32} /\ Len(b.refs) = 4 * Len(b.source) + 1

VARIABLES
  job,            \* the block
  stage,          \* the next action
  prediction,     \* the prediction buffer of the chosen mode
  levels,         \* m_piCoeffY or m_piCoeffCb/Cr
  reconstruction, \* m_pbRecY or m_pbRecCb/Cr
  scanPosLast,    \* iScanPosLast
  sigGroups,      \* ubSigCoeffGroupFlag, the sub-blocks where it is set
  carriedC1,      \* whether c1 is 0
  round,          \* iSubSet
  modesRead,      \* decoder: the modes
  reader,         \* decoder: its state in the coefficients
  decoded         \* decoder: the block

blockVars == <<job, stage, prediction, levels, reconstruction, scanPosLast, sigGroups,
               carriedC1, round, modesRead, reader, decoded>>

Size == Len(job.source)
Coded(block) == \E i, j \in DOMAIN block : block[i][j] # 0
ModeOf(pu) == IF job.luma THEN pu[1] ELSE ChromaMode(pu[1], pu[2])
Mode == ModeOf(job.pus[1])
QP == IF job.luma THEN job.qp ELSE ChromaQPFromLuma(job.qp)
ScanIdx == GetCoeffScanIdx(Size, Mode, job.luma)

-----------------------------------------------------------------------------
Init ==
  /\ job \in Blocks /\ stage = "Predict"
  /\ prediction = <<>> /\ levels = <<>> /\ reconstruction = <<>>
  /\ scanPosLast = 0 /\ sigGroups = {} /\ carriedC1 = FALSE /\ round = 0
  /\ modesRead = <<>> /\ decoded = <<>>
  /\ reader = [ok |-> TRUE, last |-> 0, groups |-> {}, greater1Ctx |-> 1,
               level |-> Block(Len(job.source), LAMBDA i, j : 0)]

(* GenIntraPrediction, from the filtered references where the table says so. *)
Predict ==
  /\ stage = "Predict"
  /\ prediction' =
       GenIntraPrediction(IF job.luma /\ Mode \in IntraFilterUsage(Size)
                          THEN Filtered(job.refs) ELSE job.refs, Mode, job.luma)
  /\ stage' = "TransformLoop"
  /\ UNCHANGED <<job, levels, reconstruction, scanPosLast, sigGroups, carriedC1, round,
                 modesRead, reader, decoded>>

(* The inverse is left out, and the prediction copied, when no level is left. *)
TransformLoop ==
  /\ stage = "TransformLoop"
  /\ levels' = Quant(QP, ResDCT(job.source, prediction, job.luma))
  /\ reconstruction' = IF Coded(levels')
                       THEN IDCTRec(InvQuant(QP, levels'), prediction, job.luma)
                       ELSE prediction
  /\ stage' = "EncodeMode"
  /\ UNCHANGED <<job, prediction, scanPosLast, sigGroups, carriedC1, round, modesRead,
                 reader, decoded>>

(* The modes of all prediction units; without levels no coefficients (cbf).  *)
EncodeMode ==
  /\ stage = "EncodeMode"
  /\ LET Idx(pu) == MapModeToIndex(pu[1], GetCandModeListIntra(pu[2], pu[3], pu[4]))
         pus == job.pus
     IN  modesRead' =
           IF job.luma
             THEN DecoderLumaModes(
                    SingleBins(EncodeIntraDirAngGrpL([k \in DOMAIN pus |-> Idx(pus[k])])),
                    [k \in DOMAIN pus |-> DecoderCandModes(pus[k][2], pus[k][3], pus[k][4])])
           ELSE <<DecoderChromaMode(SingleBins(EncodeIntraDirAngC(pus[1][1])), pus[1][2])>>
  /\ stage' = IF Coded(levels) THEN "CodeLastSignifXY" ELSE "Decode"
  /\ UNCHANGED <<job, prediction, levels, reconstruction, scanPosLast, sigGroups, carriedC1,
                 round, reader, decoded>>

(* The number of a position: that of its sub-block, and that inside it. *)
PosInScan(scanIdx, n, p) ==
  LET cg == ScanCG(scanIdx, n)
      inside == ScanInside(scanIdx)
  IN  16 * ((CHOOSE k \in DOMAIN cg : cg[k] = <<p[1] \div 4, p[2] \div 4>>) - 1)
        + (CHOOSE k \in DOMAIN inside : inside[k] = <<p[1] % 4, p[2] % 4>>) - 1

DecoderScan == DecoderScanIdx(Size, modesRead[1], job.luma)

(* EncodeCoeffNxN up to its loop over the sub-blocks. *)
CodeLast ==
  LET groups == SigCoeffGroups(levels)
      last   == ScanPosLast(levels, groups, ScanIdx)
      bins   == CodeLastSignifXY(Scan(ScanIdx, Size, last), Size, ScanIdx, job.luma)
      read   == DecoderLast(bins, Size, DecoderScan, job.luma)
  IN  /\ stage = "CodeLastSignifXY"
      /\ sigGroups' = groups /\ scanPosLast' = last /\ round' = last \div 16
      /\ carriedC1' = FALSE
      /\ reader' = [reader EXCEPT !.ok = read.ok /\ modesRead # <<NotRead>>,
                                  !.last = PosInScan(DecoderScan, Size, read.pos)]
      /\ stage' = "EncodeCoeffNxN"
      /\ UNCHANGED <<job, prediction, levels, reconstruction, modesRead, decoded>>

(* The decoder reads a sub-block. *)
ReadSubBlock(bins) ==
  DecoderSubBlock(bins, Size, DecoderScan, job.luma, reader.last, reader.groups,
                  reader.greater1Ctx, round)

(* The decoder's state when it has read the sub-block g, from its state. *)
AfterSubBlock(state, read, g, inside) ==
  LET Put(i, j) == IF <<(j - 1) \div 4, (i - 1) \div 4>> = g
                   THEN read.level[CHOOSE m \in 1 .. 16 : inside[m] = <<(j - 1) % 4, (i - 1) % 4>>]
                   ELSE state.level[i][j]
  IN  [ok |-> state.ok /\ state.last \div 16 >= round /\ read.ok,
       last |-> state.last,
       groups |-> IF read.group THEN state.groups \cup {g} ELSE state.groups,
       greater1Ctx |-> read.greater1Ctx,
       level |-> Block(Size, Put)]

(* One round of the loop; ubSigCoeffGroupFlag is set for the first and the  *)
(* last sub-block.                                                         *)
EncodeCoeffNxN ==
  LET Code(coded) ==
        /\ carriedC1' = coded.greater
        /\ reader' = AfterSubBlock(reader, ReadSubBlock(coded.bins),
                                   ScanCG(DecoderScan, Size)[round + 1], ScanInside(DecoderScan))
  IN  /\ stage = "EncodeCoeffNxN"
      /\ sigGroups' = IF round \in {0, scanPosLast \div 16}
                      THEN sigGroups \cup {ScanCG(ScanIdx, Size)[round + 1]} ELSE sigGroups
      /\ Code(EncodeSubSet(levels, ScanIdx, job.luma, scanPosLast, sigGroups, carriedC1, round))
      /\ round' = IF round > 0 THEN round - 1 ELSE 0
      /\ stage' = IF round > 0 THEN stage ELSE "Decode"
      /\ UNCHANGED <<job, prediction, levels, reconstruction, scanPosLast, modesRead, decoded>>

(* The decoder's block, from the modes and the levels that it has read. *)
Decode ==
  /\ stage = "Decode"
  /\ LET own == DecoderPrediction(job.refs, modesRead[1], job.luma)
         qp == IF job.luma THEN job.qp ELSE DecoderChromaQP(job.qp)
     IN  decoded' = IF modesRead[1] = NotRead THEN <<>>
                    ELSE IF Coded(reader.level) THEN DecoderBlock(qp, reader.level, own, job.luma)
                    ELSE own
  /\ stage' = "Done"
  /\ UNCHANGED <<job, prediction, levels, reconstruction, scanPosLast, sigGroups, carriedC1,
                 round, modesRead, reader>>

Next == Predict \/ TransformLoop \/ EncodeMode \/ CodeLast \/ EncodeCoeffNxN \/ Decode

BlockSpec == Init /\ [][Next]_blockVars

-----------------------------------------------------------------------------
(* A decoder of the standard that predicts from the same samples, with the  *)
(* mode and the levels it has read, builds the very block that the encoder  *)
(* predicts the next ones from: every angle, filter, butterfly, rounding    *)
(* and 16 bit store of the encoder's faster forms (GenIntraPrediction,      *)
(* ResDCT to IDCTRec) does what the standard's formulas do.                *)
DecoderReconstructs == stage = "Done" => decoded = reconstruction

(* The levels that EncodeCoeffNxN coded are read back, with the contexts    *)
(* that a decoder derives: positions, pattern of the neighbouring sub-blocks *)
(* and c1 carried from one to the next, signs, Rice parameters.            *)
CoefficientsReadBack ==
  stage \in {"Decode", "Done"} => reader.ok /\ reader.level = levels

(* The modes that EncodeIntraDirAngGrpL and EncodeIntraDirAngC code against *)
(* the candidates are those that a decoder chooses with the same neighbours. *)
ModeReadBack ==
  stage \notin {"Predict", "TransformLoop", "EncodeMode"} =>
    modesRead = [k \in DOMAIN job.pus |-> ModeOf(job.pus[k])]

(* With steps below one (QP under 4) the reconstruction is the source up to *)
(* the rounding of the passes: no intermediate i16 overflows, whatever the  *)
(* residual.                                                               *)
SourceIsKept ==
  stage = "EncodeMode" /\ QP < 4 =>
    \A i, j \in DOMAIN reconstruction : Abs(reconstruction[i][j] - job.source[i][j]) <= 2

=============================================================================
