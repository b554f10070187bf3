---------------------------- MODULE CabacResidual ----------------------------
(***************************************************************************)
(* The binarisation of a block of levels, EncodeCoeffNxN: the last position *)
(* and then one sub-block of 4x4 levels after the other, backwards along   *)
(* the scan.  A bin is <<context, increment, bin>>; bins without a context *)
(* are <<"bypass", how many, value>>, and <<"remain", parameter, value>>   *)
(* stands for what WriteCoeffRemainExGolomb codes.  Then, from the standard, *)
(* what a decoder reads.                                                   *)
(***************************************************************************)
EXTENDS IntraPrediction

SCAN_HOR  == "horizontal"
SCAN_VER  == "vertical"
SCAN_DIAG == "diagonal"
C1FLAG_NUMBER == 8

-----------------------------------------------------------------------------
(* The scans g_puiScanIdx4 to g_puiScanIdx32: 4x4 sub-blocks one after the   *)
(* other, the positions inside each in the same kind of order; horizontal  *)
(* and vertical ones up to 8x8.  Positions are <<x, y>>.                   *)

(* Up along the anti-diagonals, those behind the longest one counted from  *)
(* the end.                                                                *)
DiagRank(side, x, y) ==
  LET d == x + y
      e == 2 * (side - 1) - d
  IN  IF d < side THEN ((d * (d + 1)) \div 2) + x
      ELSE side * side - 1 - (((e * (e + 1)) \div 2) + side - 1 - x)

Ordered(side, Rank(_, _)) ==
  Line(side * side, LAMBDA k :
    CHOOSE p \in (0 .. side - 1) \X (0 .. side - 1) : Rank(p[1], p[2]) = k - 1)

Diagonal2   == Ordered(2, LAMBDA x, y : DiagRank(2, x, y))
Diagonal4   == Ordered(4, LAMBDA x, y : DiagRank(4, x, y))
Diagonal8   == Ordered(8, LAMBDA x, y : DiagRank(8, x, y))
Horizontal2 == Ordered(2, LAMBDA x, y : 2 * y + x)
Horizontal4 == Ordered(4, LAMBDA x, y : 4 * y + x)
Vertical2   == Ordered(2, LAMBDA x, y : 2 * x + y)
Vertical4   == Ordered(4, LAMBDA x, y : 4 * x + y)

(* The positions in a sub-block, and the sub-blocks of a block (uiScanCG).  *)
ScanInside(scanIdx) ==
  CASE scanIdx = SCAN_DIAG -> Diagonal4
    [] scanIdx = SCAN_HOR  -> Horizontal4
    [] scanIdx = SCAN_VER  -> Vertical4

ScanCG(scanIdx, size) ==
  CASE size = 4  -> <<<<0, 0>>>>
    [] size = 8  -> (CASE scanIdx = SCAN_DIAG -> Diagonal2
                       [] scanIdx = SCAN_HOR  -> Horizontal2
                       [] scanIdx = SCAN_VER  -> Vertical2)
    [] size = 16 -> Diagonal4
    [] size = 32 -> Diagonal8

Scan(scanIdx, size, k) ==
  LET g == ScanCG(scanIdx, size)[(k \div 16) + 1]
      p == ScanInside(scanIdx)[(k % 16) + 1]
  IN  <<4 * g[1] + p[1], 4 * g[2] + p[2]>>

At(block, p) == block[p[2] + 1][p[1] + 1]

-----------------------------------------------------------------------------
GetCoeffScanIdx(size, mode, isLuma) ==
  IF size # 4 /\ ~(size = 8 /\ isLuma) THEN SCAN_DIAG
  ELSE IF Abs(mode - VER_MODE_IDX) < 5 THEN SCAN_HOR
  ELSE IF Abs(mode - HOR_MODE_IDX) < 5 THEN SCAN_VER
  ELSE SCAN_DIAG

FloorLog2(v) == CHOOSE l \in 0 .. 5 : 2 ^ l <= v /\ v < 2 ^ (l + 1)

(* g_pbGroupIdx and g_pbMinInGroup: two groups for each power of two.      *)
GroupIdx(v) ==
  IF v < 4 THEN v
  ELSE 2 * FloorLog2(v) + (IF 2 * v < 3 * 2 ^ FloorLog2(v) THEN 0 ELSE 1)
MinInGroup == <<0, 1, 2, 3, 4, 6, 8, 12, 16, 24>>

CodeLastSignifXY(pos, size, scanIdx, isLuma) ==
  LET x == IF scanIdx = SCAN_VER THEN pos[2] ELSE pos[1]
      y == IF scanIdx = SCAN_VER THEN pos[1] ELSE pos[2]
      log2 == LOG2(size)
      offset == IF isLuma THEN 3 * (log2 - 2) + ((log2 - 1) \div 4) ELSE 15
      shift  == IF isLuma THEN (log2 + 1) \div 4 ELSE log2 - 2
      Prefix(name, v) ==
        LET g == GroupIdx(v)
            longest == GroupIdx(size - 1)
        IN  [k \in 1 .. (IF g < longest THEN g + 1 ELSE g) |->
               <<name, offset + ((k - 1) \div 2 ^ shift), IF k <= g THEN 1 ELSE 0>>]
      Suffix(v) ==
        LET g == GroupIdx(v)
        IN  IF g > 3 THEN <<<<"bypass", (g - 2) \div 2, v - MinInGroup[g + 1]>>>> ELSE <<>>
  IN  Prefix("last_x", x) \o Prefix("last_y", y) \o Suffix(x) \o Suffix(y)

-----------------------------------------------------------------------------
(* The sub-block at <<gx, gy>>; groups are those with ubSigCoeffGroupFlag. *)

SigCoeffGroups(lev) ==
  {g \in (0 .. (Len(lev) \div 4) - 1) \X (0 .. (Len(lev) \div 4) - 1) :
     \E p \in (0 .. 3) \X (0 .. 3) : lev[4 * g[2] + p[2] + 1][4 * g[1] + p[1] + 1] # 0}

(* The last position in scan order: in the last sub-block that has one.    *)
ScanPosLast(lev, groups, scanIdx) ==
  LET cg  == ScanCG(scanIdx, Len(lev))
      set == CHOOSE m \in DOMAIN cg : /\ cg[m] \in groups
                                      /\ \A o \in m + 1 .. Len(cg) : cg[o] \notin groups
      Sig(k) == At(lev, Scan(scanIdx, Len(lev), k)) # 0
  IN  CHOOSE k \in 16 * (set - 1) .. 16 * set - 1 :
        Sig(k) /\ \A o \in k + 1 .. 16 * set - 1 : ~Sig(o)

GetSigCoeffGroupCtxInc(groups, g) ==
  IF <<g[1] + 1, g[2]>> \in groups \/ <<g[1], g[2] + 1>> \in groups THEN 1 ELSE 0

CalcPatternSigCtx(groups, g) ==
  (IF <<g[1] + 1, g[2]>> \in groups THEN 1 ELSE 0)
    + (IF <<g[1], g[2] + 1>> \in groups THEN 2 ELSE 0)

CtxIndMap == <<0, 1, 4, 5, 2, 3, 4, 5, 6, 6, 8, 8, 7, 7, 8, 8>>

GetSigCtxInc(pattern, scanIdx, p, size, isLuma) ==
  LET px == p[1] % 4  py == p[2] % 4
      offset == CASE size = 8 -> (IF scanIdx = SCAN_DIAG THEN 9 ELSE 15)
                  [] size > 8 -> (IF isLuma THEN 21 ELSE 12)
      cnt == CASE pattern = 0 -> (IF px + py = 0 THEN 2 ELSE IF px + py <= 2 THEN 1 ELSE 0)
               [] pattern = 1 -> (IF py = 0 THEN 2 ELSE IF py = 1 THEN 1 ELSE 0)
               [] pattern = 2 -> (IF px = 0 THEN 2 ELSE IF px = 1 THEN 1 ELSE 0)
               [] pattern = 3 -> 2
  IN  IF p = <<0, 0>> THEN 0
      ELSE IF size = 4 THEN CtxIndMap[4 * p[2] + p[1] + 1]
      ELSE offset + cnt + (IF isLuma /\ (p[1] > 3 \/ p[2] > 3) THEN 3 ELSE 0)

(* The bins of the levels found in a sub-block, a sequence of them that are *)
(* not zero: flags of the first eight, one flag more for the first that is *)
(* greater than one, the signs, and what remains.                          *)
Flags(found) == SubSeq(found, 1, IF Len(found) < C1FLAG_NUMBER THEN Len(found) ELSE C1FLAG_NUMBER)
NumGreater(found, k) == Len(SelectSeq(SubSeq(found, 1, k), LAMBDA v : Abs(v) > 1))
FirstC2FlagIdx(found) == CHOOSE k \in DOMAIN found :
                           Abs(found[k]) > 1 /\ NumGreater(found, k - 1) = 0

OneFlags(found, ctxSet, isLuma) ==
  [k \in DOMAIN Flags(found) |->
     LET c1 == IF NumGreater(found, k - 1) > 0 THEN 0 ELSE IF k < 3 THEN k ELSE 3
     IN  <<"one", 4 * ctxSet + c1 + (IF isLuma THEN 0 ELSE 16),
           IF Abs(found[k]) > 1 THEN 1 ELSE 0>>]

AbsFlag(found, ctxSet, isLuma) ==
  IF NumGreater(Flags(found), Len(Flags(found))) = 0 THEN <<>>
  ELSE <<<<"abs", ctxSet + (IF isLuma THEN 0 ELSE 4),
           IF Abs(found[FirstC2FlagIdx(found)]) > 2 THEN 1 ELSE 0>>>>

Signs(found) ==
  LET bits[k \in 0 .. Len(found)] ==
        IF k = 0 THEN 0 ELSE 2 * bits[k - 1] + (IF found[k] < 0 THEN 1 ELSE 0)
  IN  <<<<"bypass", Len(found), bits[Len(found)]>>>>

(* Faulty variant: the parameter grows with every level that is coded. *)
GoRiceParamAlwaysUp(param, abs) == IF param < 4 THEN param + 1 ELSE 4

GoRiceParam(param, abs) ==
  IF abs > 3 * 2 ^ param THEN IF param < 4 THEN param + 1 ELSE 4 ELSE param

Remaining(found) ==
  LET base(k) == IF k > C1FLAG_NUMBER THEN 1
                 ELSE IF NumGreater(found, k - 1) = 0 THEN 3 ELSE 2
      upto[k \in 0 .. Len(found)] ==
        IF k = 0 THEN [param |-> 0, bins |-> <<>>]
        ELSE LET r == upto[k - 1]
                 v == Abs(found[k])
             IN  IF v < base(k) THEN r
                 ELSE [param |-> GoRiceParam(r.param, v),
                       bins |-> Append(r.bins, <<"remain", r.param, v - base(k)>>)]
  IN  upto[Len(found)].bins

(* One round of the loop: sub-block number subset.  greater is c1 = 0 of the *)
(* round before it that coded levels.                                      *)
EncodeSubSet(lev, scanIdx, isLuma, last, groups, greater, subset) ==
  LET n == Len(lev)
      g == ScanCG(scanIdx, n)[subset + 1]
      lastSet == last \div 16
      flagged == subset \notin {0, lastSet}
      flag == <<<<"sig_group", GetSigCoeffGroupCtxInc(groups, g) + (IF isLuma THEN 0 ELSE 2),
                  IF g \in groups THEN 1 ELSE 0>>>>
      pattern == CalcPatternSigCtx(groups, g)
      top == IF subset = lastSet THEN last ELSE 16 * subset + 15
      lvl == Line(top - 16 * subset + 1, LAMBDA k : At(lev, Scan(scanIdx, n, top + 1 - k)))
      found == SelectSeq(lvl, LAMBDA v : v # 0)
      Sig(k) ==         \* of the k-th level, counted backwards from top
        IF (k = 1 /\ subset = lastSet)
           \/ (k = Len(lvl) /\ subset > 0 /\ \A m \in 1 .. k - 1 : lvl[m] = 0)
          THEN <<>>
        ELSE <<<<"sig", GetSigCtxInc(pattern, scanIdx, Scan(scanIdx, n, top + 1 - k), n, isLuma)
                          + (IF isLuma THEN 0 ELSE 27),
                 IF lvl[k] # 0 THEN 1 ELSE 0>>>>
      sigs[k \in 0 .. Len(lvl)] == IF k = 0 THEN <<>> ELSE sigs[k - 1] \o Sig(k)
      ctxSet == (IF subset > 0 /\ isLuma THEN 2 ELSE 0) + (IF greater THEN 1 ELSE 0)
  IN  [bins |-> (IF flagged THEN flag ELSE <<>>)
                \o (IF flagged /\ g \notin groups THEN <<>> ELSE sigs[Len(lvl)])
                \o (IF found = <<>> THEN <<>>
                    ELSE OneFlags(found, ctxSet, isLuma) \o AbsFlag(found, ctxSet, isLuma)
                         \o Signs(found)
                         \o Remaining(found)),
       greater |-> IF found = <<>> THEN greater
                   ELSE NumGreater(Flags(found), Len(Flags(found))) > 0]

-----------------------------------------------------------------------------
(* The decoder (7.3.8.11, 9.3.4.2).  scanIdx is that of 7.4.9.11; a read     *)
(* that finds another context than it derives says so in ok.               *)

DecoderScanIdx(size, mode, isLuma) ==
  CASE ~(size = 4 \/ (size = 8 /\ isLuma)) -> SCAN_DIAG
    [] (size = 4 \/ (size = 8 /\ isLuma)) /\ mode \in 6 .. 14  -> SCAN_VER
    [] (size = 4 \/ (size = 8 /\ isLuma)) /\ mode \in 22 .. 30 -> SCAN_HOR
    [] OTHER -> SCAN_DIAG

(* One coordinate: the prefix at at, then its value with its suffix.       *)
LastPrefix(b, at, name, size, isLuma) ==
  LET log2 == LOG2(size)
      ctxOffset == IF isLuma THEN 3 * (log2 - 2) + ((log2 - 1) \div 4) ELSE 15
      ctxShift  == IF isLuma THEN (log2 + 1) \div 4 ELSE log2 - 2
      cMax == 2 * log2 - 1
      ones == CHOOSE k \in 0 .. cMax :
                /\ \A m \in 0 .. k - 1 : at + m <= Len(b) /\ b[at + m][3] = 1
                /\ k = cMax \/ at + k > Len(b) \/ b[at + k][3] = 0
      bins == IF ones = cMax THEN ones ELSE ones + 1
  IN  [prefix |-> ones, at |-> at + bins,
       ok |-> \A m \in 0 .. bins - 1 :
                /\ at + m <= Len(b)
                /\ b[at + m][1] = name /\ b[at + m][2] = ctxOffset + (m \div 2 ^ ctxShift)]

DecoderLast(b, size, scanIdx, isLuma) ==
  LET px == LastPrefix(b, 1, "last_x", size, isLuma)
      py == LastPrefix(b, px.at, "last_y", size, isLuma)
      Suffixed(prefix) == prefix > 3
      wanted == (IF Suffixed(px.prefix) THEN <<(px.prefix \div 2) - 1>> ELSE <<>>)
                  \o (IF Suffixed(py.prefix) THEN <<(py.prefix \div 2) - 1>> ELSE <<>>)
      suffixes == SubSeq(b, py.at, Len(b))
      ok == /\ px.ok /\ py.ok
            /\ Len(suffixes) = Len(wanted)
            /\ \A k \in DOMAIN wanted : suffixes[k][1] = "bypass" /\ suffixes[k][2] = wanted[k]
      Value(prefix, suffix) ==
        IF Suffixed(prefix) THEN 2 ^ ((prefix \div 2) - 1) * (2 + (prefix % 2)) + suffix[3]
        ELSE prefix
      x == Value(px.prefix, IF Suffixed(px.prefix) THEN suffixes[1] ELSE <<>>)
      y == Value(py.prefix, IF Suffixed(py.prefix) THEN suffixes[Len(suffixes)] ELSE <<>>)
  IN  [ok |-> ok, pos |-> IF ~ok THEN <<0, 0>> ELSE IF scanIdx = SCAN_VER THEN <<y, x>> ELSE <<x, y>>]

DecoderSigCtx(csbf, scanIdx, p, size, isLuma) ==
  LET xP == p[1] % 4  yP == p[2] % 4
      near == CASE csbf = 0 -> (IF xP + yP = 0 THEN 2 ELSE IF xP + yP < 3 THEN 1 ELSE 0)
                [] csbf = 1 -> (IF yP = 0 THEN 2 ELSE IF yP = 1 THEN 1 ELSE 0)
                [] csbf = 2 -> (IF xP = 0 THEN 2 ELSE IF xP = 1 THEN 1 ELSE 0)
                [] csbf = 3 -> 2
      sigCtx ==
        CASE size = 4 -> <<0, 1, 4, 5, 2, 3, 4, 5, 6, 6, 8, 8, 7, 7, 8>>[4 * p[2] + p[1] + 1]
          [] size > 4 /\ p = <<0, 0>> -> 0
          [] size > 4 /\ p # <<0, 0>> /\ isLuma ->
               near + (IF <<p[1] \div 4, p[2] \div 4>> # <<0, 0>> THEN 3 ELSE 0)
                 + (IF size = 8 THEN IF scanIdx = SCAN_DIAG THEN 9 ELSE 15 ELSE 21)
          [] size > 4 /\ p # <<0, 0>> /\ ~isLuma -> near + (IF size = 8 THEN 9 ELSE 12)
  IN  IF isLuma THEN sigCtx ELSE 27 + sigCtx

(* The sub-block number i of a block, from the bins b of its round.         *)

(* coded_sub_block_flag, which is inferred for the first and the last; at is *)
(* where the flags of the levels begin.                                    *)
DecoderGroup(b, csbf, isLuma, inferred) ==
  [inferred |-> inferred,
   coded |-> inferred \/ (b # <<>> /\ b[1][3] = 1),
   at |-> IF inferred THEN 1 ELSE 2,
   ok |-> \/ inferred
          \/ /\ b # <<>> /\ b[1][1] = "sig_group"
             /\ b[1][2] = (IF csbf = 0 THEN 0 ELSE 1) + (IF isLuma THEN 0 ELSE 2)]

(* sig_coeff_flag of the positions from start down to 0; last is whether the *)
(* last level of the block is at start.                                    *)
DecoderSigs(b, group, csbf, size, scanIdx, isLuma, i, start, last) ==
  LET sig[n \in 0 .. 16] ==
        IF n > start THEN [at |-> group.at, sig |-> <<>>, ok |-> group.ok]
        ELSE LET r == sig[n + 1]
                 absent == ~group.coded \/ (last /\ n = start)
                             \/ (n = 0 /\ ~group.inferred /\ r.sig = <<>>)
             IN  IF absent
                   THEN [r EXCEPT !.sig = IF group.coded THEN Append(@, n) ELSE @]
                 ELSE [at |-> r.at + 1,
                       sig |-> IF r.at <= Len(b) /\ b[r.at][3] = 1 THEN Append(r.sig, n) ELSE r.sig,
                       ok |-> /\ r.ok /\ r.at <= Len(b)
                              /\ b[r.at][1] = "sig"
                              /\ b[r.at][2] = DecoderSigCtx(csbf, scanIdx, Scan(scanIdx, size, 16 * i + n),
                                                            size, isLuma)]
  IN  sig[0]

(* coeff_abs_level_greater1_flag of the first eight; ctx is greater1Ctx after *)
(* them, first is lastGreater1ScanPos.                                     *)
DecoderOnes(b, at, num, ctxSet, isLuma) ==
  LET one[k \in 0 .. 8] ==
        IF k = 0 THEN [ctx |-> 1, ok |-> TRUE, first |-> 0, num |-> num, at |-> at]
        ELSE LET r == one[k - 1]
                 v == b[r.at]
             IN  IF r.at > Len(b) THEN [r EXCEPT !.ok = FALSE]
                 ELSE [ctx |-> IF v[3] = 1 THEN 0 ELSE IF r.ctx = 0 THEN 0 ELSE r.ctx + 1,
                       ok |-> /\ r.ok /\ v[1] = "one"
                              /\ v[2] = 4 * ctxSet + (IF r.ctx < 3 THEN r.ctx ELSE 3)
                                        + (IF isLuma THEN 0 ELSE 16),
                       first |-> IF r.first = 0 /\ v[3] = 1 THEN k ELSE r.first,
                       num |-> num, at |-> r.at + 1]
  IN  one[num]

(* The level so far of the k-th, and what it is when more of it follows.   *)
DecoderBase(b, ones, k) ==
  1 + (IF k <= ones.num THEN b[ones.at - ones.num + k - 1][3] ELSE 0)
    + (IF k = ones.first THEN b[ones.at][3] ELSE 0)
DecoderLimit(ones, k) == IF k > 8 THEN 1 ELSE IF k = ones.first THEN 3 ELSE 2

(* coeff_abs_level_remaining, where the flags do not say it all.           *)
DecoderAbs(b, at, num, ones) ==
  LET abs[k \in 0 .. num] ==
        IF k = 0 THEN [at |-> at, rice |-> 0, ok |-> TRUE, abs |-> <<>>]
        ELSE LET r == abs[k - 1]
                 base == DecoderBase(b, ones, k)
                 v == base + b[r.at][3]
             IN  IF base # DecoderLimit(ones, k) THEN [r EXCEPT !.abs = Append(@, base)]
                 ELSE IF r.at > Len(b) THEN [r EXCEPT !.ok = FALSE, !.abs = Append(@, 0)]
                 ELSE [at |-> r.at + 1,
                       rice |-> IF v > 3 * 2 ^ r.rice /\ r.rice < 4 THEN r.rice + 1 ELSE r.rice,
                       ok |-> r.ok /\ b[r.at][1] = "remain" /\ b[r.at][2] = r.rice,
                       abs |-> Append(r.abs, v)]
  IN  abs[num]

(* The sixteen levels in the order of the scan, from what has been read.    *)
DecoderValues(b, atSigns, where, abs) ==
  LET num == Len(where)
      Sign(k) == IF (b[atSigns][3] \div 2 ^ (num - k)) % 2 = 1 THEN -1 ELSE 1
      Value(k) == Sign(k) * abs[k]
  IN  Line(16, LAMBDA m : IF \E k \in 1 .. num : where[k] = m - 1
                          THEN Value(CHOOSE k \in 1 .. num : where[k] = m - 1) ELSE 0)

NoLevels == Line(16, LAMBDA m : 0)

(* The flag of the first level above one, the signs and what remains, after  *)
(* sigs and ones.                                                          *)
DecoderLevels(b, group, sigs, ones, ctxSet, isLuma) ==
  LET num == Len(sigs.sig)
      atSigns == IF ones.first = 0 THEN ones.at ELSE ones.at + 1
      flagsOk ==
        /\ sigs.ok /\ ones.ok
        /\ ones.first > 0 => /\ ones.at <= Len(b) /\ b[ones.at][1] = "abs"
                             /\ b[ones.at][2] = ctxSet + (IF isLuma THEN 0 ELSE 4)
        /\ atSigns <= Len(b)
        /\ b[atSigns][1] = "bypass" /\ b[atSigns][2] = num
      Whole(r) == r.ok /\ r.at = Len(b) + 1
      Read(r) == [ok |-> Whole(r), group |-> group.coded, greater1Ctx |-> ones.ctx,
                  level |-> IF Whole(r) THEN DecoderValues(b, atSigns, sigs.sig, r.abs) ELSE NoLevels]
  IN  IF flagsOk THEN Read(DecoderAbs(b, atSigns + 1, num, ones))
      ELSE [ok |-> FALSE, group |-> group.coded, greater1Ctx |-> 1, level |-> NoLevels]

(* A sub-block without levels leaves greater1Ctx as it was. *)
DecoderAfterSigs(b, group, sigs, isLuma, greater1Ctx, i) ==
  LET num == Len(sigs.sig)
      ctxSet == (IF i = 0 \/ ~isLuma THEN 0 ELSE 2) + (IF greater1Ctx = 0 THEN 1 ELSE 0)
  IN  IF num = 0
        THEN [ok |-> sigs.ok /\ sigs.at = Len(b) + 1, group |-> group.coded,
              greater1Ctx |-> greater1Ctx, level |-> NoLevels]
      ELSE DecoderLevels(b, group, sigs,
                         DecoderOnes(b, sigs.at, IF num < 8 THEN num ELSE 8, ctxSet, isLuma),
                         ctxSet, isLuma)

(* groups are the sub-blocks read with coded_sub_block_flag, greater1Ctx is  *)
(* that of the last call for the sub-block before, or 1.                   *)
DecoderSubBlock(b, size, scanIdx, isLuma, last, groups, greater1Ctx, i) ==
  LET lastSub == last \div 16
      Csbf(g) == (IF <<g[1] + 1, g[2]>> \in groups THEN 1 ELSE 0)
                   + (IF <<g[1], g[2] + 1>> \in groups THEN 2 ELSE 0)
      AfterGroup(group, csbf) ==
        DecoderAfterSigs(b, group,
          DecoderSigs(b, group, csbf, size, scanIdx, isLuma, i,
                      IF i = lastSub THEN last % 16 ELSE 15, i = lastSub),
          isLuma, greater1Ctx, i)
      AfterCsbf(csbf) == AfterGroup(DecoderGroup(b, csbf, isLuma, i \in {0, lastSub}), csbf)
  IN  AfterCsbf(Csbf(ScanCG(scanIdx, size)[i + 1]))

=============================================================================
