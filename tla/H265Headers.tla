----------------------------- MODULE H265Headers -----------------------------
(***************************************************************************)
(* What the headers put in the bitstream, and how a decoder reads it.      *)
(*                                                                         *)
(* A header is a list of fields; the functions of H265Headers.cpp are the  *)
(* lists, in the order of the code, written with the handler's operations. *)
(* Encode makes every slice an I_SLICE, so the fields of other slices are  *)
(* left out.  Parameters that ImageParameters fixes are definitions.       *)
(***************************************************************************)
EXTENDS BitStreamHandler, FiniteSets, FiniteSetsExt

U(val, len) == [kind |-> "u",  val |-> val, len |-> len]
UE(val)     == [kind |-> "ue", val |-> val, len |-> 0]
SE(val)     == [kind |-> "se", val |-> val, len |-> 0]
Trailing    == [kind |-> "trailing", val |-> 0, len |-> 0]

Flags(bits) == [i \in DOMAIN bits |-> U(bits[i], 1)]
Codes(vals) == [i \in DOMAIN vals |-> UE(vals[i])]

PutField(h, f) ==
  CASE f.kind = "u"        -> PutUNInBitstream(h, f.val, f.len)
    [] f.kind = "ue"       -> PutUVInBitstream(h, f.val)
    [] f.kind = "se"       -> PutSVInBitstream(h, f.val)
    [] f.kind = "trailing" -> WriteRBSPTrailingBits(h)

PutFields(h, fields) ==
  LET put[k \in 0..Len(fields)] ==
        IF k = 0 THEN h ELSE PutField(put[k-1], fields[k])
  IN  put[Len(fields)]

--------------------------------------------------------------------------------
CTU_WIDTH     == 32
maxCUDepth    == LOG2(CTU_WIDTH - 1) - 2
log2MinTUSize == 2
log2MaxTUSize == 5
maxRefFrames  == 1
bitsForPOC    == 8

(* The lists below start with the NAL unit header of 16 bits. *)

VPSFields ==
  <<U(12801, 16), U(0, 3), U(0, 5), UE(0), U(0, 1), UE(1), UE(0), UE(0), U(0, 1)>>

SPSFields(width, height) ==
  LET splitCUSize == CTU_WIDTH \div 2^maxCUDepth
      minCUSize   == CTU_WIDTH \div 2^(maxCUDepth - 1)
      amvpNum     == maxCUDepth + IF splitCUSize > 2
                                  THEN LOG2(splitCUSize - 1) - LOG2(log2MinTUSize) ELSE 0
  IN  <<U(13313, 16), U(0, 3), U(0, 5), U(0, 16), U(0, 8), U(0, 32)>>
      \o Codes(<<0, 0, 1>>) \o <<U(0, 3), UE(width), UE(height), U(0, 1)>>
      \o Codes(<<0, 0>>) \o <<U(0, 1)>>
      \o Codes(<<bitsForPOC - 4, 1, 0, 0>>) \o Flags(<<1, 0>>)
      \o Codes(<<LOG2(minCUSize - 1) - 3, maxCUDepth - 1,
                 log2MinTUSize - 2, log2MaxTUSize - 2, 0, 0>>)
      \o Flags(<<0, 1, 0, 0>>) \o <<UE(1), U(0, 1)>>
      \o Codes(<<1, 0, 0>>) \o Flags(<<1, 0, 0>>)
      \o Flags([i \in 1..amvpNum |-> 1]) \o <<U(0, 1), Trailing>>

PPSFields(widthInTiles, heightInTiles) ==
  LET tiles == widthInTiles * heightInTiles > 1
  IN  <<U(13825, 16), UE(0), UE(0)>> \o Flags(<<0, 1>>)
      \o Codes(<<maxRefFrames - 1, 0>>) \o <<SE(0)>> \o Flags(<<0, 0, 0>>)
      \o <<SE(0), SE(0)>> \o Flags(<<0, 0, 0, 0, 0, 0>>)
      \o (IF tiles THEN <<U(1, 2), UE(widthInTiles - 1), UE(heightInTiles - 1),
                          U(1, 1), U(0, 1)>>
                   ELSE <<U(0, 2)>>)
      \o Flags(<<0, 1, 0, 0>>) \o <<UE(0)>> \o Flags(<<0, 0>>) \o <<Trailing>>

SliceHdrFields(uiCurrSliceNum, uiQP, tiles) ==
  <<U(IF uiCurrSliceNum = 0 THEN 16 ELSE 2, 8), U(1, 8), U(1, 1)>>
  \o (IF uiCurrSliceNum = 0 THEN <<U(0, 1)>> ELSE <<>>)
  \o <<UE(0), UE(2), U(0, 1)>>
  \o (IF uiCurrSliceNum # 0
      THEN <<U(uiCurrSliceNum % 2^bitsForPOC, bitsForPOC), U(1, 1), UE(0)>> ELSE <<>>)
  \o <<SE(uiQP - 26), U(1, 1), UE(0)>>
  \o (IF tiles = 1 THEN <<Trailing>> ELSE <<>>)

(* Faulty variant: a power of two is thought to fit in its own bits. *)
MaxOffsetLengthShort(offsets) ==
  LET largest == Max({offsets[i] : i \in DOMAIN offsets})
  IN  Min({n \in 0..29 : largest <= 2^(n + 1)})

(* uiMaxOffsetLengthMinus1: the loop's first value that is long enough. *)
MaxOffsetLengthMinus1(offsets) ==
  LET largest == Max({offsets[i] : i \in DOMAIN offsets})
  IN  Min({n \in 0..29 : largest < 2^(n + 1)})

EntryPointFields(offsets) ==
  <<UE(Len(offsets))>>
  \o (IF offsets = <<>> THEN <<>> ELSE <<UE(MaxOffsetLengthMinus1(offsets))>>)
  \o [i \in DOMAIN offsets |-> U(offsets[i], MaxOffsetLengthMinus1(offsets) + 1)]
  \o <<Trailing>>

(* Faulty variant: room for the entry points of half a dozen tiles. *)
HeaderBytesOfSixTiles == 30

(* The size of the handler that a slice header has for itself. *)
HeaderBytes == 50

(* The start code of a slice and its first NAL byte are put as one word,   *)
(* with the emulation prevention off.                                      *)
WriteSliceHdrInBitstream(h, fields) ==
  PutFields(PutCodeInBitstream(h, BitsOf(1, 24) \o BitsOf(fields[1].val, 8), FALSE),
            Tail(fields))

WriteTilesEntryPointsInSliceHeader(h, offsets) ==
  FlushRemBytes(PutFields(h, EntryPointFields(offsets)))

--------------------------------------------------------------------------------
(* The decoder, from the syntax of the standard: how many bits a field of  *)
(* a kind takes from a position on, and the value they stand for.          *)

ZeroBits(bits, pos) ==
  Min({n \in 0..(Len(bits) - pos) : pos + n = Len(bits) \/ bits[pos + n + 1] = 1})

FieldLength(bits, pos, f) ==
  CASE f.kind = "u"             -> f.len
    [] f.kind \in {"ue", "se"}  -> 2 * ZeroBits(bits, pos) + 1
    [] f.kind = "trailing"      -> BYTE - (pos % BYTE)

FieldValue(bits, pos, f) ==
  LET n  == ZeroBits(bits, pos)
      ue == NumberAt(bits, pos + n, n + 1) - 1
  IN  CASE f.kind = "u"  -> NumberAt(bits, pos, f.len)
        [] f.kind = "ue" -> ue
        [] f.kind = "se" -> IF ue % 2 = 1 THEN (ue + 1) \div 2 ELSE -(ue \div 2)
        [] f.kind = "trailing" ->   \* a one and zeros up to a byte
             NumberAt(bits, pos, BYTE - (pos % BYTE)) - 2^(BYTE - 1 - (pos % BYTE))

(* These bits are these fields, and nothing follows. *)
ReadsAs(bits, fields) ==
  LET read[k \in 0..Len(fields)] ==   \* bits read by the first k, -1 on a mismatch
        IF k = 0 THEN 0
        ELSE LET pos == read[k-1]
                 len == FieldLength(bits, pos, fields[k])
             IN  IF pos # -1 /\ pos + len <= Len(bits)
                    /\ FieldValue(bits, pos, fields[k]) = fields[k].val
                 THEN pos + len ELSE -1
  IN  read[Len(fields)] = Len(bits)

(* The emulation prevention bytes are those of 0x03 behind two zeros. *)
Unescape(bytes) ==
  LET kept[k \in 0..Len(bytes)] ==
        IF k = 0 THEN <<>>
        ELSE IF k > 2 /\ bytes[k] = 3 /\ bytes[k-1] = 0 /\ bytes[k-2] = 0 THEN kept[k-1]
        ELSE Append(kept[k-1], bytes[k])
  IN  kept[Len(bytes)]

BitsOfBytes(bytes) == FlattenSeq([i \in DOMAIN bytes |-> BitsOf(bytes[i], BYTE)])

Payload(bytes) == BitsOfBytes(Unescape(bytes))

(* The places of the start codes in a byte stream: three bytes 0, 0, 1. *)
StartCodes(bytes) ==
  {i \in 1..(Len(bytes) - 2) : bytes[i] = 0 /\ bytes[i+1] = 0 /\ bytes[i+2] = 1}

(* The bytes of the NAL unit behind the start code at i, without the zero  *)
(* bytes before the next start code.                                       *)
NALUnit(bytes, i) ==
  LET later == {j \in StartCodes(bytes) : j > i}
      limit == IF later = {} THEN Len(bytes) ELSE Min(later) - 1
      last  == Max({k \in (i + 2)..limit : k = i + 2 \/ bytes[k] # 0})
  IN  SubSeq(bytes, i + 3, last)
================================================================================
