------------------------------ MODULE TileStruct ------------------------------
(***************************************************************************)
(* From the "-Ntiles" argument to the CTUs each tile compresses: the tile  *)
(* part of EncTop::ConfigureEncoder, ImageParameters::InitImgProp and      *)
(* SetTileStruct, H265SliceCompressor::GenTileBoundingPixels, and the      *)
(* address map of every H265TileCompressor.                                *)
(*                                                                         *)
(* The frame size is any the program accepts, given in CTUs.  The options  *)
(* are i32 and the grid is u32, so negative options wrap and so does their *)
(* product.  Behind that, u32 arithmetic wraps in one place only: a tile   *)
(* of no width or height makes GenTileBoundingPixels subtract one from     *)
(* zero.  Such a grid also has a tile of one CTU, which the assertion on   *)
(* it stops, so the number is left negative instead of wrapped.            *)
(***************************************************************************)
EXTENDS Integers, Sequences, FiniteSets, FiniteSetsExt

CONSTANTS MaxWidthInCTUs,   \* bounds on the frame sizes considered
          MaxHeightInCTUs,
          TileArgs,         \* the totaltiles arguments considered
          GridArgs,         \* the totaltilecols and totaltilerows arguments
          WordSize          \* how many values a u32 has: 2^32

ASSUME TileStructAssumption ==
  /\ MaxWidthInCTUs \in Nat \ {0}
  /\ MaxHeightInCTUs \in Nat \ {0}
  /\ TileArgs \subseteq Int
  /\ GridArgs \subseteq Int
  /\ WordSize \in Nat \ {0}

CTU       == 32    \* CTU_WIDTH and CTU_HEIGHT
MAX_TILES == 24

VARIABLES
  step,        \* what the program does next; "abort" when it has stopped
  totaltiles, totaltilecols, totaltilerows,
  m_uiFrameWidthInCTUs, m_uiFrameHeightInCTUs,
  m_uiFrameSizeInTiles, m_uiFrameWidthInTiles, m_uiFrameHeightInTiles,
  puiTileWidthInCTUs, puiTileHeightInCTUs, \* of each tile
  maxCTUsInTile,       \* m_u64TotalBytesPerTile, in units of BYTES_PER_CTU
  puiTileCTUNumX, puiTileCTUNumY,          \* of each tile's first CTU
  m_pcTileStartCTUPel, m_pcTileEndCTUPel,  \* first and last CTU's pixels
  m_puiCTUAddrMap      \* the pixels of each tile's CTUs, in coding order

args     == <<totaltiles, totaltilecols, totaltilerows,
              m_uiFrameWidthInCTUs, m_uiFrameHeightInCTUs>>
grid     == <<m_uiFrameSizeInTiles, m_uiFrameWidthInTiles, m_uiFrameHeightInTiles>>
sizes    == <<puiTileWidthInCTUs, puiTileHeightInCTUs, maxCTUsInTile>>
corners  == <<puiTileCTUNumX, puiTileCTUNumY>>
pixels   == <<m_pcTileStartCTUPel, m_pcTileEndCTUPel>>
tileVars == <<step, args, grid, sizes, corners, pixels, m_puiCTUAddrMap>>

--------------------------------------------------------------------------------
Tiles  == 0 .. (m_uiFrameSizeInTiles - 1)
Col(t) == t % m_uiFrameWidthInTiles
Row(t) == t \div m_uiFrameWidthInTiles

(* Faulty variant: the remainder of the division is left to nobody. *)
EqualPart(k, n, parts) == n \div parts

(* The size of part k when n CTUs are divided uniformly in parts parts. *)
UniformPart(k, n, parts) == ((k + 1) * n) \div parts - (k * n) \div parts

GetCTUStartPel(num) ==
  [x |-> (num % m_uiFrameWidthInCTUs) * CTU,
   y |-> (num \div m_uiFrameWidthInCTUs) * CTU]

(* MAKE_SURE(cond): the next step, or the end of the program. *)
MakeSure(cond, next) == step' = IF cond THEN next ELSE "abort"

Init ==
  /\ step = "ConfigureEncoder"
  /\ totaltiles \in TileArgs
  /\ totaltilecols \in GridArgs
  /\ totaltilerows \in GridArgs
  /\ m_uiFrameWidthInCTUs \in 1 .. MaxWidthInCTUs
  /\ m_uiFrameHeightInCTUs \in 1 .. MaxHeightInCTUs
  /\ m_uiFrameSizeInTiles = 0
  /\ m_uiFrameWidthInTiles = 0
  /\ m_uiFrameHeightInTiles = 0
  /\ puiTileWidthInCTUs = << >>
  /\ puiTileHeightInCTUs = << >>
  /\ maxCTUsInTile = 0
  /\ puiTileCTUNumX = << >>
  /\ puiTileCTUNumY = << >>
  /\ m_pcTileStartCTUPel = << >>
  /\ m_pcTileEndCTUPel = << >>
  /\ m_puiCTUAddrMap = << >>

(* An i32 becomes a u32. *)
U32(n) == n % WordSize

(* The assertion on the grid multiplies in 32 bits. *)
ProductIsTotal(cols, rows, tiles) == U32(cols * rows) = tiles

(* Faulty variant: a number above MAX_TILES is kept. *)
ConfigureWithoutMaximum ==
  LET tiles == IF totaltiles < 1 THEN 1 ELSE totaltiles IN
  /\ step = "ConfigureEncoder"
  /\ m_uiFrameSizeInTiles' = tiles
  /\ m_uiFrameWidthInTiles' = IF totaltiles < 1 THEN 1 ELSE U32(totaltilecols)
  /\ m_uiFrameHeightInTiles' = IF totaltiles < 1 THEN 1 ELSE U32(totaltilerows)
  /\ MakeSure(ProductIsTotal(m_uiFrameWidthInTiles', m_uiFrameHeightInTiles', tiles),
              "SetTileStruct")
  /\ UNCHANGED <<args, sizes, corners, pixels, m_puiCTUAddrMap>>

(* ConfigureEncoder brings the number of tiles between 1 and MAX_TILES; a  *)
(* number it had to change gets a grid of its own.                         *)
ConfigureEncoder ==
  LET tiles == IF totaltiles < 1 THEN 1
               ELSE IF totaltiles > MAX_TILES THEN MAX_TILES ELSE totaltiles
      side  == IF tiles = 1 THEN 1 ELSE tiles \div 2
      given == totaltiles \in 1 .. MAX_TILES
  IN
  /\ step = "ConfigureEncoder"
  /\ m_uiFrameSizeInTiles' = tiles
  /\ m_uiFrameWidthInTiles' = IF given THEN U32(totaltilecols) ELSE side
  /\ m_uiFrameHeightInTiles' = IF given THEN U32(totaltilerows) ELSE side
  /\ MakeSure(ProductIsTotal(m_uiFrameWidthInTiles', m_uiFrameHeightInTiles', tiles),
              "SetTileStruct")
  /\ UNCHANGED <<args, sizes, corners, pixels, m_puiCTUAddrMap>>

GridHasTotalTiles ==
  m_uiFrameSizeInTiles = m_uiFrameWidthInTiles * m_uiFrameHeightInTiles

(* A grid whose product wrapped has WordSize tiles more than were asked    *)
(* for, or a multiple; the first loop of SetTileStruct leaves its tables   *)
(* of at most MAX_TILES entries by gigabytes, and the program crashes.     *)
SetTileSizesOffTables ==
  /\ step = "SetTileStruct" /\ ~GridHasTotalTiles
  /\ step' = "abort"
  /\ UNCHANGED <<args, grid, sizes, corners, pixels, m_puiCTUAddrMap>>

(* Faulty variant: the buffers are sized by the first tile. *)
SetTileSizesFirstTile ==
  /\ step = "SetTileStruct" /\ GridHasTotalTiles
  /\ puiTileWidthInCTUs' =
       [t \in Tiles |-> UniformPart(Col(t), m_uiFrameWidthInCTUs, m_uiFrameWidthInTiles)]
  /\ puiTileHeightInCTUs' =
       [t \in Tiles |-> UniformPart(Row(t), m_uiFrameHeightInCTUs, m_uiFrameHeightInTiles)]
  /\ maxCTUsInTile' = puiTileWidthInCTUs'[0] * puiTileHeightInCTUs'[0]
  /\ step' = "TileBoundaries"
  /\ UNCHANGED <<args, grid, corners, pixels, m_puiCTUAddrMap>>

(* The two loops over the tiles' sizes; InitImgProp derives the size of a  *)
(* tile's bitstream buffer from the largest.                               *)
SetTileSizes ==
  /\ step = "SetTileStruct" /\ GridHasTotalTiles
  /\ puiTileWidthInCTUs' =
       [t \in Tiles |-> UniformPart(Col(t), m_uiFrameWidthInCTUs, m_uiFrameWidthInTiles)]
  /\ puiTileHeightInCTUs' =
       [t \in Tiles |-> UniformPart(Row(t), m_uiFrameHeightInCTUs, m_uiFrameHeightInTiles)]
  /\ maxCTUsInTile' = Max({puiTileWidthInCTUs'[t] : t \in Tiles})
                        * Max({puiTileHeightInCTUs'[t] : t \in Tiles})
  /\ step' = "TileBoundaries"
  /\ UNCHANGED <<args, grid, corners, pixels, m_puiCTUAddrMap>>

(* The third loop: a tile begins where the tiles left of it in its row,    *)
(* and above it in its column, end.                                        *)
SetTileBoundaries ==
  /\ step = "TileBoundaries"
  /\ puiTileCTUNumX' =
       [t \in Tiles |-> SumFunctionOnSet(puiTileWidthInCTUs,
          {Row(t) * m_uiFrameWidthInTiles + m : m \in 0 .. (Col(t) - 1)})]
  /\ puiTileCTUNumY' =
       [t \in Tiles |-> SumFunctionOnSet(puiTileHeightInCTUs,
          {Col(t) + m * m_uiFrameWidthInTiles : m \in 0 .. (Row(t) - 1)})]
  /\ step' = "GenTileBoundingPixels"
  /\ UNCHANGED <<args, grid, sizes, pixels, m_puiCTUAddrMap>>

StartCTUNum(t) == puiTileCTUNumX[t] + puiTileCTUNumY[t] * m_uiFrameWidthInCTUs
EndCTUNum(t)   == StartCTUNum(t) + (puiTileWidthInCTUs[t] - 1)
                    + (puiTileHeightInCTUs[t] - 1) * m_uiFrameWidthInCTUs

(* Faulty variant: the assertion lets equal pixels pass. *)
GenTileBoundingPixelsLax ==
  /\ step = "GenTileBoundingPixels"
  /\ m_pcTileStartCTUPel' = [t \in Tiles |-> GetCTUStartPel(StartCTUNum(t))]
  /\ m_pcTileEndCTUPel' = [t \in Tiles |-> GetCTUStartPel(EndCTUNum(t))]
  /\ MakeSure(\A t \in Tiles :
                /\ m_pcTileEndCTUPel'[t].x >= m_pcTileStartCTUPel'[t].x
                /\ m_pcTileEndCTUPel'[t].y >= m_pcTileStartCTUPel'[t].y,
              "MakeCTUAddrMap")
  /\ UNCHANGED <<args, grid, sizes, corners, m_puiCTUAddrMap>>

(* A tile must have at least two columns and two rows of CTUs. *)
GenTileBoundingPixels ==
  /\ step = "GenTileBoundingPixels"
  /\ m_pcTileStartCTUPel' = [t \in Tiles |-> GetCTUStartPel(StartCTUNum(t))]
  /\ m_pcTileEndCTUPel' = [t \in Tiles |-> GetCTUStartPel(EndCTUNum(t))]
  /\ MakeSure(\A t \in Tiles :
                /\ m_pcTileEndCTUPel'[t].x > m_pcTileStartCTUPel'[t].x
                /\ m_pcTileEndCTUPel'[t].y > m_pcTileStartCTUPel'[t].y,
              "MakeCTUAddrMap")
  /\ UNCHANGED <<args, grid, sizes, corners, m_puiCTUAddrMap>>

(* Every H265TileCompressor finds its size in CTUs again from its pixels. *)
InCTUs(first, last) == ((last - first + CTU) + 1) \div CTU

MakeCTUAddrMap ==
  /\ step = "MakeCTUAddrMap"
  /\ m_puiCTUAddrMap' =
       [t \in Tiles |->
          LET first  == m_pcTileStartCTUPel[t]
              width  == InCTUs(first.x, m_pcTileEndCTUPel[t].x)
              height == InCTUs(first.y, m_pcTileEndCTUPel[t].y)
          IN  [i \in 1 .. (width * height) |->
                 [x |-> first.x + ((i - 1) % width) * CTU,
                  y |-> first.y + ((i - 1) \div width) * CTU]]]
  /\ step' = "ready"
  /\ UNCHANGED <<args, grid, sizes, corners, pixels>>

Next ==
  \/ ConfigureEncoder
  \/ SetTileSizesOffTables
  \/ SetTileSizes
  \/ SetTileBoundaries
  \/ GenTileBoundingPixels
  \/ MakeCTUAddrMap

Spec == Init /\ [][Next]_tileVars

--------------------------------------------------------------------------------
TypeOK ==
  /\ step \in {"ConfigureEncoder", "SetTileStruct", "TileBoundaries",
               "GenTileBoundingPixels", "MakeCTUAddrMap", "ready", "abort"}
  /\ m_uiFrameSizeInTiles \in 0 .. MAX_TILES
  /\ m_uiFrameWidthInTiles \in Nat
  /\ m_uiFrameHeightInTiles \in Nat
  /\ DOMAIN puiTileWidthInCTUs \in {{}, Tiles}
  /\ maxCTUsInTile \in Nat

(***************************************************************************)
(* The tiles partition the frame: every CTU of the frame is compressed by  *)
(* exactly one tile, once, and no tile leaves the frame.  The sizes are    *)
(* computed by division, the corners by adding sizes up, and the addresses *)
(* from the pixels of the corners alone.                                   *)
(***************************************************************************)
FramePels == {[x |-> CTU * i, y |-> CTU * j] :
                i \in 0 .. (m_uiFrameWidthInCTUs - 1),
                j \in 0 .. (m_uiFrameHeightInCTUs - 1)}

EveryCTUOnce ==
  step = "ready" =>
    /\ \A t \in Tiles : \A i \in DOMAIN m_puiCTUAddrMap[t] :
         m_puiCTUAddrMap[t][i] \in FramePels
    /\ \A pel \in FramePels :
         Cardinality({t \in Tiles : \E i \in DOMAIN m_puiCTUAddrMap[t] :
                                      m_puiCTUAddrMap[t][i] = pel}) = 1
    /\ \A t \in Tiles : \A i, j \in DOMAIN m_puiCTUAddrMap[t] :
         m_puiCTUAddrMap[t][i] = m_puiCTUAddrMap[t][j] => i = j

(***************************************************************************)
(* The bitstream buffers, all of one size, have room for BYTES_PER_CTU     *)
(* bytes for each CTU of the largest tile, although the largest width and  *)
(* the largest height may be of different tiles.                           *)
(***************************************************************************)
BufferForEveryCTU ==
  step = "ready" => \A t \in Tiles : Len(m_puiCTUAddrMap[t]) <= maxCTUsInTile

(***************************************************************************)
(* No accepted tile is thinner than two CTUs.  GenTileBoundingPixels       *)
(* compares the pixels of a tile's first and last CTU, and a tile of no    *)
(* width may well pass, its last CTU being one of the previous row; but    *)
(* then another tile of the grid has a width of one, and fails.            *)
(***************************************************************************)
NoThinTile ==
  step = "ready" =>
    \A t \in Tiles : puiTileWidthInCTUs[t] > 1 /\ puiTileHeightInCTUs[t] > 1
================================================================================
