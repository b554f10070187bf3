--------------------------------- MODULE Cabac --------------------------------
(***************************************************************************)
(* The arithmetic coding engine of one tile: bins narrow the interval      *)
(* [low, low + range), finished bytes leave the register, and a byte that  *)
(* a carry could still reach is held back with the 0xff bytes behind it.   *)
(*                                                                         *)
(* A context may be in any state: EncodeBin takes any row of the table of  *)
(* LPS ranges, and a bin is the more or the less probable one; how the     *)
(* contexts adapt is left out.  The register stays below 32 bits           *)
(* (CarryHasRoom), so the arithmetic of u32 is that of the integers.       *)
(***************************************************************************)
EXTENDS BitStreamHandler, FiniteSetsExt

CONSTANTS LPSRows,    \* rows of g_pbLPSTable
          BypassBins, \* what EncodeBinsEP is called with: <<bins, their number>>
          Remainders, \* what WriteCoeffRemainExGolomb is called with
          MaxCalls    \* bound: calls that encode bins, in a tile

(* The first row of the table bounds the others. *)
ASSUME LPSRowsAssumption ==
  /\ LPSRows \subseteq [1..4 -> 6..240]
  /\ \A row \in LPSRows : row[1] <= 128 /\ row[2] <= 176 /\ row[3] <= 208

ASSUME BypassBinsAssumption ==
  \A v \in BypassBins : v[2] \in 1..20 /\ v[1] \in 0..(2^v[2] - 1)

ASSUME RemaindersAssumption ==
  \A r \in Remainders : r[1] \in 0..(2^15 - 1) /\ r[2] \in 0..4

ASSUME MaxCallsAssumption == MaxCalls \in Nat

VARIABLES
  engine,  \* m_uiLow, m_uiRange, m_iBitsLeft, m_bBuffer, m_uiNumByte, and the
           \* codes put into the bitstream handler as <<code, bits>>
  phase,   \* "code", and "flushed" when the tile has ended
  calls,   \* calls so far, bounded
  bins     \* the bins coded, for the properties

cabacVars == <<engine, phase, calls, bins>>

--------------------------------------------------------------------------------
Put(c, code, bits) == [c EXCEPT !.codes = Append(@, <<code, bits>>)]

PutBytes(c, code, times) ==
  [c EXCEPT !.codes = @ \o [i \in 1..times |-> <<code, BYTE>>]]

(* ResetCabac, and the stream of a new frame. *)
ResetCabac ==
  [low |-> 0, range |-> 510, bitsLeft |-> 23, buffer |-> 255, numByte |-> 0, codes |-> <<>>]

(* Faulty variant: the lead byte stays in the register. *)
NotMasked(low, bitsLeft) == low

(* m_uiLow &= 0xFFFFFFFF >> m_iBitsLeft *)
Masked(low, bitsLeft) == low % 2^(32 - bitsLeft)

(* Faulty variant: the carry stops at the byte held back. *)
AlwaysFF(carry) == 255

(* What the outstanding 0xff bytes become. *)
Outstanding(carry) == (255 + carry) % 256

(* Faulty variant: 0xff bytes are held back like any other. *)
NeverOutstanding(lead) == FALSE

IsOutstanding(lead) == lead = 255

WriteOutputBitstream(c) ==
  LET lead  == c.low \div 2^(24 - c.bitsLeft)
      carry == lead \div 256
      rest  == [c EXCEPT !.bitsLeft = @ + 8, !.low = Masked(@, c.bitsLeft + 8)]
      held  == PutBytes(Put(rest, c.buffer + carry, BYTE), Outstanding(carry), c.numByte - 1)
  IN  CASE c.bitsLeft >= 12 -> c
        [] c.bitsLeft < 12 /\ IsOutstanding(lead) -> [rest EXCEPT !.numByte = @ + 1]
        [] c.bitsLeft < 12 /\ ~IsOutstanding(lead) ->
             [IF c.numByte > 0 THEN held ELSE rest
                EXCEPT !.numByte = 1, !.buffer = lead % 256]

(* low and range move up by n bits. *)
Shifted(c, low, range, n) ==
  WriteOutputBitstream([c EXCEPT !.low = low * 2^n, !.range = range * 2^n,
                                 !.bitsLeft = @ - n])

(* Faulty variant: the table read one entry too far. *)
RenormOneLess(uiLPS) == 6 - LOG2(uiLPS \div 8 + 1)

(* g_pbRenormTable[uiLPS >> 3]: 6, 5, 4 twice, 3 four times, and so on. *)
RenormBits(uiLPS) == 6 - LOG2(uiLPS \div 8)

(* m_uiRange < 256 *)
MPSShift(range) == IF range < 256 THEN 1 ELSE 0

LPSRange(row, range) == row[((range \div 64) % 4) + 1]

EncodeBin(c, row, lps) ==
  LET uiLPS == LPSRange(row, c.range)
      range == c.range - uiLPS
  IN  IF lps THEN Shifted(c, c.low + range, uiLPS, RenormBits(uiLPS))
             ELSE Shifted(c, c.low, range, MPSShift(range))

(* n bins at once, at most eight. *)
EncodeEP(c, value, n) ==
  WriteOutputBitstream([c EXCEPT !.low = @ * 2^n + c.range * value, !.bitsLeft = @ - n])

(* Eight bins at a time, and the one to eight that are left. *)
EncodeBinsEP(c, value, n) ==
  LET chunks == (n - 1) \div 8
      put[k \in 0..chunks] ==
        IF k = 0 THEN c ELSE EncodeEP(put[k-1], (value \div 2^(n - 8*k)) % 256, 8)
  IN  EncodeEP(put[chunks], value % 2^(n - 8*chunks), n - 8*chunks)

COEF_REMAIN_BIN_REDUCTION == 3

(* The length the loop of WriteCoeffRemainExGolomb ends with: from param,  *)
(* 2^length is taken off the number while it is not smaller.               *)
GolombLength(number, param) ==
  Min({n \in param..20 : number < 2^(n + 1) - 2^param})

(* Its codes: a prefix of ones that ends in a zero, and a suffix. *)
CoeffRemainCodes(symbol, param) ==
  LET number == symbol - COEF_REMAIN_BIN_REDUCTION * 2^param
      length == GolombLength(number, param)
      ones   == IF number < 0 THEN symbol \div 2^param
                              ELSE COEF_REMAIN_BIN_REDUCTION + length - param
      suffix == IF number < 0 THEN <<symbol % 2^param, param>>
                              ELSE <<number - (2^length - 2^param), length>>
  IN  <<<<2^(ones + 1) - 2, ones + 1>>>> \o IF suffix[2] > 0 THEN <<suffix>> ELSE <<>>

(* The prefix, and the suffix if there is one. *)
EncodeCodes(c, codes) ==
  LET prefix == EncodeBinsEP(c, codes[1][1], codes[1][2])
  IN  IF Len(codes) = 1 THEN prefix ELSE EncodeBinsEP(prefix, codes[2][1], codes[2][2])

EncodeTerminatingBit(c, bin) ==
  LET range == c.range - 2
  IN  IF bin = 1 THEN Shifted(c, c.low + range, 2, 7)
                 ELSE Shifted(c, c.low, range, MPSShift(range))

Flush(c) ==
  LET carry == c.low \div 2^(32 - c.bitsLeft)
      held  == IF carry # 0 \/ c.numByte > 0
               THEN Put(c, c.buffer + (IF carry # 0 THEN 1 ELSE 0), BYTE) ELSE c
      bytes == PutBytes(held, IF carry # 0 THEN 0 ELSE 255, c.numByte - 1)
      low   == IF carry # 0 THEN c.low - 2^(32 - c.bitsLeft) ELSE c.low
  IN  [Put(bytes, low \div 256, 24 - c.bitsLeft)
         EXCEPT !.low = low, !.numByte = IF @ > 1 THEN 1 ELSE @]

--------------------------------------------------------------------------------
Init ==
  /\ engine = ResetCabac /\ phase = "code" /\ calls = 0 /\ bins = <<>>

Code(c, coded) ==
  /\ phase = "code" /\ calls < MaxCalls
  /\ calls' = calls + 1
  /\ engine' = c /\ bins' = Append(bins, coded)
  /\ UNCHANGED phase

CodeBin(row, lps) ==
  Code(EncodeBin(engine, row, lps), [kind |-> "context", row |-> row, val |-> lps])

CodeBypass(v) ==
  Code(EncodeBinsEP(engine, v[1], v[2]), [kind |-> "bypass", row |-> v[2], val |-> v[1]])

(* WriteCoeffRemainExGolomb *)
CodeRemainder(symbol, param) ==
  Code(EncodeCodes(engine, CoeffRemainCodes(symbol, param)),
       [kind |-> "remainder", row |-> param, val |-> symbol])

End(bit) == [kind |-> "terminating", row |-> 0, val |-> bit]

(* FinishEncodeCTU for a CTU that ends neither its tile nor the slice. *)
FinishCTU == Code(EncodeTerminatingBit(engine, 0), End(0))

(* FinishEncodeCTU for the last CTU of a tile: end_of_slice_segment_flag   *)
(* is 0 and end_of_subset_one_bit 1, or there is only the former.          *)
FinishTile(isLastSliceCTU) ==
  /\ phase = "code"
  /\ phase' = "flushed"
  /\ LET c == IF isLastSliceCTU THEN engine ELSE EncodeTerminatingBit(engine, 0)
     IN  engine' = Flush(EncodeTerminatingBit(c, 1))
  /\ bins' = bins \o (IF isLastSliceCTU THEN <<>> ELSE <<End(0)>>) \o <<End(1)>>
  /\ UNCHANGED calls

(* InitCabac for the tile of the next frame, in an emptied handler. *)
NextFrame ==
  /\ phase = "flushed"
  /\ engine' = ResetCabac
  /\ phase' = "code" /\ calls' = 0 /\ bins' = <<>>

Next ==
  \/ \E row \in LPSRows, lps \in BOOLEAN : CodeBin(row, lps)
  \/ \E v \in BypassBins : CodeBypass(v)
  \/ \E r \in Remainders : CodeRemainder(r[1], r[2])
  \/ FinishCTU
  \/ \E isLastSliceCTU \in BOOLEAN : FinishTile(isLastSliceCTU)
  \/ NextFrame

CabacSpec == Init /\ [][Next]_cabacVars

--------------------------------------------------------------------------------
(* The arithmetic decoder, from the standard: a register of nine bits.  A  *)
(* decoding state d is its range, its offset, the number of bits read and  *)
(* the value decoded last; bits are the stream.                            *)

Fetch(bits, pos, n) ==
  LET num[i \in 0..n] ==
        IF i = 0 THEN 0
        ELSE 2 * num[i-1] + IF pos + i <= Len(bits) THEN bits[pos + i] ELSE 0
  IN  num[n]

StartDecoder(bits) == [range |-> 510, offset |-> Fetch(bits, 0, 9), read |-> 9, val |-> 0]

Renormalized(bits, d) ==
  LET n == Min({k \in 0..8 : d.range * 2^k >= 256})
  IN  [d EXCEPT !.range = @ * 2^n, !.offset = @ * 2^n + Fetch(bits, d.read, n), !.read = @ + n]

DecodeDecision(bits, d, row) ==
  LET lps == LPSRange(row, d.range)
      mps == d.range - lps
  IN  Renormalized(bits, IF d.offset >= mps
                         THEN [d EXCEPT !.range = lps, !.offset = @ - mps, !.val = TRUE]
                         ELSE [d EXCEPT !.range = mps, !.val = FALSE])

(* n bypass bins at once: doubling the offset, comparing and subtracting n *)
(* times is one division.                                                  *)
DecodeBypass(bits, d, n) ==
  LET offset == d.offset * 2^n + Fetch(bits, d.read, n)
  IN  [d EXCEPT !.offset = offset % d.range, !.read = @ + n, !.val = offset \div d.range]

(* coeff_abs_level_remaining: ones up to a zero, then the suffix. *)
DecodeRemainder(bits, d, param) ==
  LET ones   == Min({k \in 0..19 : k = 19
                       \/ DecodeBypass(bits, d, k + 1).val = 2^(k + 1) - 2})
      prefix == DecodeBypass(bits, d, ones + 1)
      long   == ones > 3
      suffix == DecodeBypass(bits, prefix, IF long THEN ones - 3 + param ELSE param)
      base   == IF long THEN (2^(ones - 3) + 2) * 2^param ELSE ones * 2^param
  IN  [suffix EXCEPT !.val = @ + base]

DecodeTerminate(bits, d) ==
  LET range == d.range - 2
  IN  IF d.offset >= range THEN [d EXCEPT !.range = range, !.val = 1]
                           ELSE Renormalized(bits, [d EXCEPT !.range = range, !.val = 0])

Decode(bits, d, b) ==
  CASE b.kind = "context"     -> DecodeDecision(bits, d, b.row)
    [] b.kind = "bypass"      -> DecodeBypass(bits, d, b.row)
    [] b.kind = "remainder"   -> DecodeRemainder(bits, d, b.row)
    [] b.kind = "terminating" -> DecodeTerminate(bits, d)

(* What the tile's handler holds behind its header, with the stop bit. *)
TileBits(c) ==
  FlattenSeq([i \in DOMAIN c.codes |-> BitsOf(c.codes[i][1], c.codes[i][2])]) \o <<1>>

--------------------------------------------------------------------------------
(* The registers between two calls. *)
CabacTypeOK ==
  /\ phase \in {"code", "flushed"}
  /\ calls \in 0..MaxCalls
  /\ engine.range \in 256..510
  /\ engine.bitsLeft \in 12..23
  /\ engine.low \in Nat
  /\ engine.buffer \in 0..255
  /\ engine.numByte \in Nat

(* A decoder that knows the contexts decodes the bins that were coded, all *)
(* of them, and the last bit it has read is then the stop bit behind the   *)
(* tile: carries through the bytes held back, the rest of the register     *)
(* written by Flush and the codes of WriteCoeffRemainExGolomb included.    *)
DecoderReadsBins ==
  LET bits == TileBits(engine)
      after[k \in 0..Len(bins)] ==
        IF k = 0 THEN StartDecoder(bits) ELSE Decode(bits, after[k-1], bins[k])
  IN  phase = "flushed" =>
        /\ \A k \in DOMAIN bins : after[k].val = bins[k].val
        /\ after[Len(bins)].read = Len(bits)

(* Every code handed to the handler fits the bits it is put in, although   *)
(* it is the byte held back plus a carry or the register at the end, and   *)
(* Flush ends with the 5 to 12 bits that SliceStream assumes.              *)
CodesFit ==
  /\ \A i \in DOMAIN engine.codes : engine.codes[i][1] \in 0..(2^engine.codes[i][2] - 1)
  /\ phase = "flushed" => Last(engine.codes)[2] \in 5..12

(* A carry that leaves the register finds a byte to go to: none is on its  *)
(* way while nothing is held back or the byte held back is 0xff.           *)
CarryHasRoom ==
  phase = "code" =>
    engine.low + engine.range <=
      2^(32 - engine.bitsLeft) * IF engine.numByte = 0 \/ engine.buffer = 255 THEN 1 ELSE 2
================================================================================
