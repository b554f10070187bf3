----------------------------- MODULE SliceStream -----------------------------
(***************************************************************************)
(* The way of the coded bits to the bitstream file: EncTop::WritePS, then  *)
(* for every slice InitialToCompression, the slice header, the tiles'      *)
(* codes, the entry points, and the handlers written one after the other.  *)
(*                                                                         *)
(* The tiles are compressed one after the other here.  Threads compress    *)
(* them in any order, but each into its own handler (TileExclusive of      *)
(* SliceCompressor), so the order makes no difference to any handler.      *)
(* A tile's codes are what Cabac puts: bytes, and when it ends some bits   *)
(* of its register, the stop bit and zeros.                                *)
(***************************************************************************)
EXTENDS H265Headers

CONSTANTS Width, Height, \* of the frame, in pixels
          MaxTiles,      \* the slices have 1 .. MaxTiles tiles
          MaxUnits,      \* bound: tiles coded in a run, over all slices
          MaxBytes,      \* bound: bytes Cabac puts in a run, over all tiles
          ByteValues,    \* the bytes Cabac puts
          LastCodes,     \* the codes Flush ends a tile with: <<bits, value>>
          QPs            \* the QP arguments

ASSUME SliceStreamAssumption ==
  /\ Width \in 64..8192 /\ Height \in 64..8192
  /\ Width % CTU_WIDTH = 0 /\ Height % CTU_WIDTH = 0
  /\ MaxTiles \in 1..24 /\ 2 * MaxTiles <= Width \div CTU_WIDTH
  /\ MaxUnits \in Nat /\ MaxBytes \in Nat
  /\ ByteValues \subseteq 0..255
  /\ \A c \in LastCodes : c[1] \in 5..12 /\ c[2] \in 0..(2^c[1] - 1)
  /\ QPs \subseteq 1..51

VARIABLES
  m_uiTotalTiles, m_uiQP,
  step,        \* what the encoder does next
  todo,        \* the fields of a parameter set not yet put
  handlers,    \* the tiles' handlers and, with several tiles, the header's
  tile,        \* the tile that is being compressed
  uiCurrSliceNum,
  headerFields, tileFields, \* what was put in this slice, for the properties
  units, bytes,             \* tiles coded and bytes put so far, bounded
  file,        \* m_ofsBitStream
  nals         \* the fields of every NAL unit in the file, for the properties

ghosts == <<headerFields, tileFields, nals>>
vars   == <<m_uiTotalTiles, m_uiQP, step, todo, handlers, tile, uiCurrSliceNum,
            units, bytes, file, ghosts>>

Tiles    == 0 .. (m_uiTotalTiles - 1)
LastTile == m_uiTotalTiles - 1

BYTES_PER_CTU == 800

(* The tiles stand in one row: the widest part of a uniform division of    *)
(* the frame's columns of CTUs, over all rows.                             *)
CTUsOfLargestTile ==
  ((Width \div CTU_WIDTH + LastTile) \div m_uiTotalTiles) * (Height \div CTU_WIDTH)

TotalBytesPerTile == BYTES_PER_CTU * CTUsOfLargestTile

(* m_pcSliceHeaderBitStreamHandler *)
SliceHeader == IF m_uiTotalTiles > 1 THEN m_uiTotalTiles ELSE 0

Init ==
  /\ m_uiTotalTiles \in 1..MaxTiles
  /\ m_uiQP \in QPs
  /\ step = "VPS" /\ todo = <<>>
  /\ handlers = [i \in Tiles \cup {SliceHeader} |->
                   NewHandler(IF i \in Tiles THEN TotalBytesPerTile ELSE HeaderBytes)]
  /\ tile = 0 /\ uiCurrSliceNum = 0 /\ units = 0 /\ bytes = 0
  /\ headerFields = <<>> /\ tileFields = [t \in Tiles |-> <<>>]
  /\ file = <<>> /\ nals = <<>>

--------------------------------------------------------------------------------
(* WritePS: the parameter sets use the first tile's handler.  Their fields *)
(* are put one in a step.                                                  *)
ParameterSet ==
  [VPS |-> VPSFields, SPS |-> SPSFields(Width, Height), PPS |-> PPSFields(m_uiTotalTiles, 1)]

AfterParameterSet == [VPS |-> "SPS", SPS |-> "PPS", PPS |-> "slice"]

StartParameterSet ==
  /\ step \in DOMAIN ParameterSet /\ headerFields = <<>>
  /\ headerFields' = ParameterSet[step]
  /\ todo' = ParameterSet[step]
  /\ handlers' = [handlers EXCEPT ![0] = PutStartCodeWordLevel(InitBitStreamWordLevel(@))]
  /\ UNCHANGED <<m_uiTotalTiles, m_uiQP, step, tile, uiCurrSliceNum, units, bytes,
                 tileFields, file, nals>>

PutParameter ==
  /\ todo # <<>>
  /\ todo' = Tail(todo)
  /\ handlers' = [handlers EXCEPT ![0] = PutField(@, Head(todo))]
  /\ UNCHANGED <<m_uiTotalTiles, m_uiQP, step, tile, uiCurrSliceNum, units, bytes, file,
                 ghosts>>

FinishParameterSet ==
  /\ step \in DOMAIN ParameterSet /\ headerFields # <<>> /\ todo = <<>>
  /\ LET h == FlushRemBytes(handlers[0])
     IN  /\ handlers' = [handlers EXCEPT ![0] = h]
         /\ file' = file \o h.buffer
  /\ nals' = Append(nals, headerFields)
  /\ headerFields' = <<>>
  /\ step' = AfterParameterSet[step]
  /\ UNCHANGED <<m_uiTotalTiles, m_uiQP, tile, uiCurrSliceNum, units, bytes, tileFields,
                 todo>>

(* InitialToCompression *)
EmptyHandlers == [i \in DOMAIN handlers |-> InitBitStreamWordLevel(handlers[i])]

(* CompressSlice up to the first tile. *)
StartSlice ==
  /\ step = "slice"
  /\ units + m_uiTotalTiles <= MaxUnits
  /\ LET fields == SliceHdrFields(uiCurrSliceNum, m_uiQP, m_uiTotalTiles)
     IN  /\ handlers' = [EmptyHandlers EXCEPT
                           ![SliceHeader] = WriteSliceHdrInBitstream(@, fields)]
         /\ headerFields' = fields
  /\ tileFields' = [t \in Tiles |-> <<>>]
  /\ step' = "tile" /\ tile' = 0
  /\ UNCHANGED <<todo, m_uiTotalTiles, m_uiQP, uiCurrSliceNum, units, bytes, file, nals>>

(* A byte leaves Cabac, from WriteOutputBitstream or Flush. *)
PutByte(b) ==
  /\ step = "tile" /\ bytes < MaxBytes
  /\ bytes' = bytes + 1
  /\ handlers' = [handlers EXCEPT ![tile] = PutField(@, U(b, BYTE))]
  /\ tileFields' = [tileFields EXCEPT ![tile] = Append(@, U(b, BYTE))]
  /\ UNCHANGED <<todo, m_uiTotalTiles, m_uiQP, step, tile, uiCurrSliceNum, units,
                 headerFields, file, nals>>

(* The tile's last CTU: the end of Flush, then FinishEncodeCTU. *)
FinishTile(code) ==
  LET last == <<U(code[2], code[1]), Trailing>>
  IN  /\ step = "tile"
      /\ units' = units + 1
      /\ handlers' = [handlers EXCEPT ![tile] = FlushRemBytes(PutFields(@, last))]
      /\ tileFields' = [tileFields EXCEPT ![tile] = @ \o last]
      /\ IF tile = LastTile THEN step' = "entry" /\ tile' = tile
                            ELSE tile' = tile + 1 /\ step' = step
      /\ UNCHANGED <<todo, m_uiTotalTiles, m_uiQP, uiCurrSliceNum, bytes, headerFields,
                     file, nals>>

(* Faulty variant: the bytes are counted without emulation prevention. *)
PayloadOffsets ==
  [i \in 1..LastTile |-> Len(Unescape(handlers[i - 1].buffer))]

(* uiEntryPointOffsets; with one tile there are none. *)
EntryPointOffsets ==
  [i \in 1..LastTile |-> GetTotalBytesWritten(handlers[i - 1])]

(* The rest of CompressSlice, which first asserts on the tiles' sizes. *)
FinishSlice ==
  /\ step = "entry"
  /\ \A i \in Tiles : GetTotalBytesWritten(handlers[i]) < handlers[i].allocBytes
  /\ LET header == IF m_uiTotalTiles > 1
                   THEN [handlers EXCEPT ![SliceHeader] =
                           WriteTilesEntryPointsInSliceHeader(@, EntryPointOffsets)]
                   ELSE handlers
     IN  handlers' = [header EXCEPT ![LastTile] = FixZeroTermination(@)]
  /\ headerFields' = headerFields \o
       IF m_uiTotalTiles > 1 THEN EntryPointFields(EntryPointOffsets) ELSE <<>>
  /\ step' = "write"
  /\ UNCHANGED <<todo, m_uiTotalTiles, m_uiQP, tile, uiCurrSliceNum, units, bytes,
                 tileFields, file, nals>>

(* Encode follows the links of CatTileBitStreamHandlers. *)
SliceBytes ==
  (IF m_uiTotalTiles > 1 THEN handlers[SliceHeader].buffer ELSE <<>>)
  \o FlattenSeq([i \in 1..m_uiTotalTiles |-> handlers[i - 1].buffer])

SliceFields ==
  headerFields \o FlattenSeq([i \in 1..m_uiTotalTiles |-> tileFields[i - 1]])

WriteSlice ==
  /\ step = "write"
  /\ file' = file \o SliceBytes
  /\ nals' = Append(nals, SliceFields)
  /\ uiCurrSliceNum' = uiCurrSliceNum + 1
  /\ step' = "slice"
  /\ UNCHANGED <<todo, m_uiTotalTiles, m_uiQP, handlers, tile, units, bytes,
                 headerFields, tileFields>>

(* A MAKE_SURE that fails ends the program. *)
AllSure == \A i \in DOMAIN handlers : handlers[i].sure /\ handlers[i].room

Next ==
  /\ AllSure
  /\ \/ StartParameterSet \/ PutParameter \/ FinishParameterSet
     \/ StartSlice
     \/ \E b \in ByteValues : PutByte(b)
     \/ \E code \in LastCodes : FinishTile(code)
     \/ FinishSlice
     \/ WriteSlice

StreamSpec == Init /\ [][Next]_vars

--------------------------------------------------------------------------------
(* Every handler is a handler. *)
StreamTypeOK ==
  /\ step \in {"VPS", "SPS", "PPS", "slice", "tile", "entry", "write"}
  /\ tile \in Tiles
  /\ \A i \in DOMAIN handlers : HandlerOK(handlers[i])

(* The file, read by a decoder, is the NAL units written and nothing else: *)
(* a start code appears only where one was put, and behind the emulation   *)
(* prevention every field and code reads back (FLUSH_BITS, the word cache, *)
(* the cut of a slice into handlers, the NAL without trailing bits).       *)
FileReadsBack ==
  LET starts == StartCodes(file)
      at(k)  == CHOOSE i \in starts : Cardinality({j \in starts : j <= i}) = k
  IN  step \in {"SPS", "PPS", "slice"} =>
        /\ Cardinality(starts) = Len(nals)
        /\ \A k \in DOMAIN nals : ReadsAs(Payload(NALUnit(file, at(k))), nals[k])

(* The entry points lead a decoder to the tiles: the slice data, cut at    *)
(* the offsets it reads in the header, gives every tile its own codes even *)
(* when it is decoded alone (WriteTilesEntryPointInSliceHeader).           *)
TilesDecodableAlone ==
  (step = "write" /\ m_uiTotalTiles > 1) =>
     LET data     == SubSeq(SliceBytes, Len(handlers[SliceHeader].buffer) + 1, Len(SliceBytes))
         first    == Len(headerFields) - m_uiTotalTiles  \* the field before the offsets
         upTo[k \in 0..LastTile] ==
           IF k = 0 THEN 0 ELSE upTo[k-1] + headerFields[first + k].val
         end(k)   == IF k = LastTile THEN Len(data) ELSE upTo[k + 1]
     IN  \A k \in Tiles :
           ReadsAs(Payload(SubSeq(data, upTo[k] + 1, end(k))), tileFields[k])

(* No MAKE_SURE on the use of the handlers fails: start codes are put on a *)
(* word boundary, no code is empty, and what FlushRemBytes finds is whole  *)
(* bytes (the VPS has no trailing bits and must come out even).            *)
AssertionsHold == \A i \in DOMAIN handlers : handlers[i].sure

(* FixZeroTermination never finds a last byte of zero, and neither would a *)
(* decoder at the end of any tile: before it is called, every tile's       *)
(* handler has bytes and the last is not zero (BitStreamHandler.cpp's      *)
(* "Check this").                                                          *)
NoZeroTermination ==
  step = "entry" => \A i \in Tiles :
                      handlers[i].buffer # <<>> /\ Before(handlers[i].buffer, 1) # 0

(* Emulation prevention adds at most one byte to every two: of two escapes *)
(* in a row the second needs two zeros of its own, across words, flushes   *)
(* and the end of the codes.  With one tile the slice header's 78 bits are *)
(* in the same buffer.  This is what a tile's buffer must have room for.   *)
HeaderShare == IF m_uiTotalTiles = 1 THEN 10 ELSE 0

TileBytesBounded ==
  step \in {"tile", "entry", "write"} =>
    \A i \in Tiles : 2 * Len(handlers[i].buffer) <= 3 * (Len(tileFields[i]) + HeaderShare)
================================================================================
