----------------------------- MODULE EntryPoints -----------------------------
(***************************************************************************)
(* The slice header of a slice with several tiles, in a handler of its own *)
(* of HeaderBytes bytes, for tiles of sizes that SliceStream does not      *)
(* reach: the header is put before the tiles are compressed, and the bytes *)
(* of all tiles but the last behind it when they are known.                *)
(*                                                                         *)
(* The sizes are those of a frame of 1920x1088 pixels: with 24 tiles the   *)
(* largest has 90 CTUs and so fewer than 72000 bytes.                      *)
(***************************************************************************)
EXTENDS H265Headers

CONSTANTS TileCounts,   \* how many tiles the slices may have
          SliceNums, QPs,
          TileBytes     \* the bytes a tile may have

ASSUME EntryPointsAssumption ==
  /\ TileCounts \subseteq 2..24 /\ SliceNums \subseteq 0..255 /\ QPs \subseteq 1..51
  /\ TileBytes \subseteq 1..71999

VARIABLES
  step,          \* what CompressSlice does next with the header
  m_uiTotalTiles, uiCurrSliceNum, m_uiQP,
  uiEntryPointOffsets,  \* bytes of every tile but the last
  handler,       \* m_pcSliceHeaderBitStreamHandler
  fields         \* what was put, for the properties

slice == <<m_uiTotalTiles, uiCurrSliceNum, m_uiQP, uiEntryPointOffsets>>
vars  == <<step, slice, handler, fields>>

(* One tile may be larger than the others. *)
Offsets(n) ==
  {[i \in 1..n |-> IF i = at THEN large ELSE other] :
     at \in {1, n}, large \in TileBytes, other \in TileBytes}

Init ==
  /\ m_uiTotalTiles \in TileCounts
  /\ uiCurrSliceNum \in SliceNums /\ m_uiQP \in QPs
  /\ uiEntryPointOffsets \in Offsets(m_uiTotalTiles - 1)
  /\ step = "header"
  /\ handler = NewHandler(HeaderBytes)
  /\ fields = <<>>

WriteSliceHeader ==
  /\ step = "header" /\ step' = "entry points"
  /\ fields' = SliceHdrFields(uiCurrSliceNum, m_uiQP, m_uiTotalTiles)
  /\ handler' = WriteSliceHdrInBitstream(InitBitStreamWordLevel(handler), fields')
  /\ UNCHANGED slice

(* A MAKE_SURE that fails on the way ends the program. *)
WriteTilesEntryPoint ==
  /\ step = "entry points" /\ handler.sure /\ handler.room /\ step' = "done"
  /\ fields' = fields \o EntryPointFields(uiEntryPointOffsets)
  /\ handler' = WriteTilesEntryPointsInSliceHeader(handler, uiEntryPointOffsets)
  /\ UNCHANGED slice

Next == WriteSliceHeader \/ WriteTilesEntryPoint

EntrySpec == Init /\ [][Next]_vars

--------------------------------------------------------------------------------
(* A decoder finds the entry points behind the header: the offsets have    *)
(* the bits of the longest, from one bit up to seventeen, at the powers of *)
(* two and beside them, and the header's emulation prevention takes out    *)
(* what they imitate (the loop of WriteTilesEntryPointsInSliceHeader).     *)
EntryPointsReadBack ==
  step = "done" /\ InBuffer(handler) =>
    ReadsAs(Payload(NALUnit(handler.buffer, 1)), fields)

(* The header of ten tiles of any of these sizes fits in its handler,      *)
(* with its escapes and the bytes of the last word (BitStreamHandler(50)   *)
(* in H265SliceCompressor.cpp:92).                                         *)
TenTilesFit == m_uiTotalTiles <= 10 => InBuffer(handler) /\ handler.room
================================================================================
