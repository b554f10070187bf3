--------------------------- MODULE TileStructProofs ---------------------------
(***************************************************************************)
(* The properties of TileStruct for every frame and every grid.            *)
(***************************************************************************)
EXTENDS TileStruct, InductionLemmas, TLAPS

--------------------------------------------------------------------------------
(* Division *)

(* Quotient and remainder of an integer, and how to know them. *)
LEMMA DivIs ==
  ASSUME NEW a \in Int, NEW b \in Nat \ {0}
  PROVE  /\ a \div b \in Int /\ a % b \in 0 .. b - 1
         /\ a = (a \div b) * b + (a % b)
OBVIOUS

LEMMA DivUnique ==
  ASSUME NEW b \in Nat \ {0}, NEW q \in Int, NEW r \in 0 .. b - 1
  PROVE  /\ (q * b + r) \div b = q
         /\ (q * b + r) % b = r
OBVIOUS

LEMMA TimesMonotone ==
  ASSUME NEW a \in Int, NEW b \in Int, a <= b, NEW n \in Nat
  PROVE  a * n <= b * n
OBVIOUS

LEMMA FactorsNotZero ==
  ASSUME NEW n \in Nat \ {0}, NEW a \in Nat, NEW b \in Nat, n = a * b
  PROVE  a \in Nat \ {0} /\ b \in Nat \ {0}
OBVIOUS

LEMMA TimesCancels ==
  ASSUME NEW a \in Int, NEW b \in Int, NEW n \in Nat \ {0}, a * n < b * n
  PROVE  a < b
BY TimesMonotone

LEMMA DivMonotone ==
  ASSUME NEW a \in Int, NEW b \in Int, a <= b, NEW n \in Nat \ {0}
  PROVE  a \div n <= b \div n
<1> DEFINE p == a \div n
           q == b \div n
<1>1. p \in Int /\ q \in Int /\ p * n <= a /\ b < (q + 1) * n
  BY DivIs
<1> HIDE DEF p, q
<1>2. p * n < (q + 1) * n
  BY <1>1
<1>3. p < q + 1
  BY <1>1, <1>2, TimesCancels
<1> QED BY <1>1, <1>3 DEF p, q

(***************************************************************************)
(* Where part k of the uniform division of n CTUs in parts parts begins:   *)
(* the quotients rise from 0 to n, and the first is the least of all steps *)
(* or one less.                                                            *)
(***************************************************************************)
PartStart(k, n, parts) == (k * n) \div parts

LEMMA PartStartInt ==
  ASSUME NEW n \in Nat, NEW parts \in Nat \ {0}, NEW k \in Nat
  PROVE  /\ PartStart(k, n, parts) \in Nat
         /\ PartStart(k, n, parts) * parts <= k * n
         /\ k * n < (PartStart(k, n, parts) + 1) * parts
<1>1. k * n \in Nat
  OBVIOUS
<1> DEFINE a == k * n
<1>2. /\ a \div parts \in Int /\ a % parts \in 0 .. parts - 1
      /\ a = (a \div parts) * parts + (a % parts)
  <2> HIDE DEF a
  <2>1. a \in Int
    BY <1>1 DEF a
  <2> QED BY <2>1, DivIs
<1>3. 0 \div parts <= a \div parts /\ 0 \div parts = 0
  BY <1>1, DivMonotone
<1> HIDE DEF a
<1> QED BY <1>2, <1>3 DEF PartStart, a

LEMMA PartStartMonotone ==
  ASSUME NEW n \in Nat, NEW parts \in Nat \ {0}, NEW k \in Nat, NEW m \in Nat, k <= m
  PROVE  PartStart(k, n, parts) <= PartStart(m, n, parts)
<1>1. k * n <= m * n /\ k * n \in Int /\ m * n \in Int
  BY TimesMonotone
<1> QED BY <1>1, DivMonotone DEF PartStart

LEMMA PartStartEnds ==
  ASSUME NEW n \in Nat, NEW parts \in Nat \ {0}
  PROVE  PartStart(0, n, parts) = 0 /\ PartStart(parts, n, parts) = n
BY DivUnique DEF PartStart

LEMMA UniformPartIs ==
  ASSUME NEW n \in Nat, NEW parts \in Nat \ {0}, NEW k \in 0 .. parts - 1
  PROVE  /\ UniformPart(k, n, parts) =
              PartStart(k + 1, n, parts) - PartStart(k, n, parts)
         /\ UniformPart(k, n, parts) \in 0 .. n
         /\ PartStart(k, n, parts) \in 0 .. n
         /\ PartStart(k + 1, n, parts) \in 0 .. n
<1>1. UniformPart(k, n, parts) =
              PartStart(k + 1, n, parts) - PartStart(k, n, parts)
  BY DEF UniformPart, PartStart
<1>2. PartStart(k, n, parts) \in Nat /\ PartStart(k + 1, n, parts) \in Nat
  BY PartStartInt, k \in Nat, k + 1 \in Nat
<1>3. /\ PartStart(k, n, parts) <= PartStart(k + 1, n, parts)
      /\ PartStart(k + 1, n, parts) <= PartStart(parts, n, parts)
  BY PartStartMonotone, k \in Nat, k + 1 \in Nat
<1>4. PartStart(parts, n, parts) = n
  BY PartStartEnds
<1> QED BY <1>1, <1>2, <1>3, <1>4

(***************************************************************************)
(* If the first part is empty, one of the parts has exactly one CTU: the   *)
(* first that ends behind CTU 0.                                           *)
(***************************************************************************)
LEMMA EmptyMeansOne ==
  ASSUME NEW n \in Nat \ {0}, NEW parts \in Nat \ {0},
         PartStart(1, n, parts) = 0
  PROVE  \E k \in 0 .. parts - 1 : /\ PartStart(k, n, parts) = 0
                                   /\ PartStart(k + 1, n, parts) = 1
<1> DEFINE T == {k \in Nat : PartStart(k, n, parts) >= 1}
<1>1. parts \in T
  BY PartStartEnds
<1>2. PICK d \in T : \A k \in T : d <= k
  <2> HIDE DEF T
  <2>1. T \subseteq Nat
    BY DEF T
  <2> QED BY <1>1, <2>1, LeastNatural
<1>3. d # 0 /\ d <= parts
  BY <1>1, <1>2, PartStartEnds
<1> DEFINE k == d - 1
<1>4. k \in 0 .. parts - 1 /\ k \in Nat /\ k + 1 = d
  BY <1>2, <1>3
<1>5. PartStart(k, n, parts) = 0
  <2>1. k \notin T
    BY <1>2, <1>4
  <2> QED BY <2>1, <1>4, PartStartInt
<1>6. PartStart(d, n, parts) \in Nat /\ PartStart(d, n, parts) >= 1
  BY <1>2, PartStartInt
<1>7. PartStart(d, n, parts) < 2
  <2>1. n < parts
    BY PartStartInt, 1 \in Nat, n \in Nat
  <2>2. k * n < parts
    BY <1>4, <1>5, PartStartInt, n \in Nat
  <2>3. d * n = k * n + n
    BY <1>4
  <2>4. PartStart(d, n, parts) * parts <= d * n
    BY <1>2, PartStartInt, n \in Nat
  <2> DEFINE p == PartStart(d, n, parts)
             kn == k * n
  <2>5. kn \in Int
    BY <1>4
  <2>6. p * parts < 2 * parts
    <3>1. p * parts <= kn + n /\ p \in Int
      BY <2>3, <2>4, <1>6
    <3> HIDE DEF p, kn
    <3> QED BY <3>1, <2>1, <2>2, <2>5 DEF kn
  <2> HIDE DEF p
  <2>7. p \in Int
    BY <1>6 DEF p
  <2> QED BY <2>6, <2>7, TimesCancels DEF p
<1> QED BY <1>4, <1>5, <1>6, <1>7

--------------------------------------------------------------------------------
(* The tiles of a grid *)

LEMMA TileOf ==
  ASSUME NEW C \in Nat \ {0}, NEW R \in Nat \ {0}, NEW t \in 0 .. C * R - 1
  PROVE  /\ t % C \in 0 .. C - 1 /\ t \div C \in 0 .. R - 1
         /\ t = (t \div C) * C + (t % C)
<1> DEFINE q == t \div C
           r == t % C
<1>1. q \in Int /\ r \in 0 .. C - 1 /\ t = q * C + r
  BY DivIs
<1>2. q >= 0
  <2>1. 0 * C <= t /\ t < (q + 1) * C
    BY <1>1
  <2>2. 0 * C < (q + 1) * C
    BY <2>1
  <2> HIDE DEF q
  <2>3. 0 < q + 1
    BY <1>1, <2>2, TimesCancels
  <2> QED BY <1>1, <2>3
<1>3. q < R
  <2>1. q * C < R * C
    BY <1>1
  <2> HIDE DEF q
  <2> QED BY <1>1, <2>1, TimesCancels
<1> QED BY <1>1, <1>2, <1>3

LEMMA TileAt ==
  ASSUME NEW C \in Nat \ {0}, NEW R \in Nat \ {0},
         NEW c \in 0 .. C - 1, NEW r \in 0 .. R - 1
  PROVE  /\ r * C + c \in 0 .. C * R - 1
         /\ (r * C + c) % C = c /\ (r * C + c) \div C = r
<1>1. r * C \in Nat /\ r * C <= (R - 1) * C
  BY TimesMonotone
<1>2. (R - 1) * C = C * R - C
  OBVIOUS
<1>3. r * C + c \in 0 .. C * R - 1
  <2> DEFINE p == r * C
             n == C * R
  <2>1. p \in Nat /\ p <= n - C /\ n \in Int
    BY <1>1, <1>2
  <2> HIDE DEF p, n
  <2>2. p + c \in 0 .. n - 1
    BY <2>1
  <2> QED BY <2>2 DEF p, n
<1> QED BY <1>3, DivUnique

(* The largest of a bounded set of numbers. *)
LEMMA MaxIs ==
  ASSUME NEW S, S \subseteq Nat, S # {}, NEW n \in Nat, \A x \in S : x <= n
  PROVE  Max(S) \in S /\ \A y \in S : Max(S) >= y
BY GreatestNatural DEF Max

--------------------------------------------------------------------------------
(* The inductive invariant *)

W == m_uiFrameWidthInCTUs
H == m_uiFrameHeightInCTUs
Columns == m_uiFrameWidthInTiles
Rows == m_uiFrameHeightInTiles

(* The first column and row of CTUs of a tile, and those of the next one. *)
Left(t)   == PartStart(Col(t), W, Columns)
Right(t)  == PartStart(Col(t) + 1, W, Columns)
Top(t)    == PartStart(Row(t), H, Rows)
Bottom(t) == PartStart(Row(t) + 1, H, Rows)

ArgsOK ==
  /\ step \in {"ConfigureEncoder", "SetTileStruct", "TileBoundaries",
               "GenTileBoundingPixels", "MakeCTUAddrMap", "ready", "abort"}
  /\ totaltiles \in Int /\ totaltilecols \in Int /\ totaltilerows \in Int
  /\ W \in Nat \ {0} /\ H \in Nat \ {0}

(* There is a grid of as many tiles as are counted. *)
HasGrid ==
  /\ m_uiFrameSizeInTiles = Columns * Rows
  /\ Columns \in Nat \ {0} /\ Rows \in Nat \ {0}

GridOK ==
  /\ m_uiFrameSizeInTiles \in 0 .. MAX_TILES
  /\ Columns \in Nat /\ Rows \in Nat
  /\ step = "SetTileStruct" => m_uiFrameSizeInTiles # 0
  /\ step \notin {"ConfigureEncoder", "SetTileStruct", "abort"} => HasGrid

SizesOK ==
  /\ maxCTUsInTile \in Nat
  /\ step \in {"ConfigureEncoder", "SetTileStruct"} => puiTileWidthInCTUs = << >>
  /\ puiTileWidthInCTUs = << >> \/ DOMAIN puiTileWidthInCTUs = Tiles
  /\ step \in {"TileBoundaries", "GenTileBoundingPixels", "MakeCTUAddrMap", "ready"} =>
       \A t \in Tiles :
         /\ puiTileWidthInCTUs[t] = Right(t) - Left(t)
         /\ puiTileHeightInCTUs[t] = Bottom(t) - Top(t)
         /\ puiTileWidthInCTUs[t] * puiTileHeightInCTUs[t] <= maxCTUsInTile

CornersOK ==
  step \in {"GenTileBoundingPixels", "MakeCTUAddrMap", "ready"} =>
    \A t \in Tiles : puiTileCTUNumX[t] = Left(t) /\ puiTileCTUNumY[t] = Top(t)

PixelsOK ==
  step \in {"MakeCTUAddrMap", "ready"} =>
    \A t \in Tiles :
      /\ m_pcTileStartCTUPel[t] = [x |-> Left(t) * CTU, y |-> Top(t) * CTU]
      /\ m_pcTileEndCTUPel[t] = [x |-> (Right(t) - 1) * CTU,
                                 y |-> (Bottom(t) - 1) * CTU]
      /\ Right(t) - Left(t) > 1 /\ Bottom(t) - Top(t) > 1

AddrMapOK ==
  step = "ready" =>
    \A t \in Tiles :
      m_puiCTUAddrMap[t] =
        [i \in 1 .. (Right(t) - Left(t)) * (Bottom(t) - Top(t)) |->
           [x |-> Left(t) * CTU + ((i - 1) % (Right(t) - Left(t))) * CTU,
            y |-> Top(t) * CTU + ((i - 1) \div (Right(t) - Left(t))) * CTU]]

TileInv == ArgsOK /\ GridOK /\ SizesOK /\ CornersOK /\ PixelsOK /\ AddrMapOK

LEMMA TileStart == Init => TileInv
BY TileStructAssumption
   DEF Init, TileInv, ArgsOK, GridOK, SizesOK, CornersOK, PixelsOK, AddrMapOK,
       W, H, Columns, Rows, MAX_TILES

(* What is known of a tile as soon as there is a grid. *)
LEMMA TileFacts ==
  ASSUME ArgsOK, HasGrid, NEW t \in Tiles
  PROVE  /\ Col(t) \in 0 .. Columns - 1 /\ Row(t) \in 0 .. Rows - 1
         /\ t = Row(t) * Columns + Col(t)
         /\ Left(t) \in 0 .. W /\ Right(t) \in 0 .. W
         /\ Top(t) \in 0 .. H /\ Bottom(t) \in 0 .. H
         /\ UniformPart(Col(t), W, Columns) = Right(t) - Left(t)
         /\ UniformPart(Row(t), H, Rows) = Bottom(t) - Top(t)
         /\ Right(t) - Left(t) \in 0 .. W /\ Bottom(t) - Top(t) \in 0 .. H
<1>1. /\ Columns \in Nat \ {0} /\ Rows \in Nat \ {0} /\ t \in 0 .. Columns * Rows - 1
      /\ W \in Nat /\ H \in Nat
  BY DEF ArgsOK, HasGrid, Tiles
<1>2. /\ t % Columns \in 0 .. Columns - 1 /\ t \div Columns \in 0 .. Rows - 1
      /\ t = (t \div Columns) * Columns + (t % Columns)
  BY <1>1, TileOf
<1>3. /\ Col(t) \in 0 .. Columns - 1 /\ Row(t) \in 0 .. Rows - 1
      /\ t = Row(t) * Columns + Col(t)
  BY <1>2 DEF Col, Row, Columns
<1>4. /\ UniformPart(Col(t), W, Columns) = Right(t) - Left(t)
      /\ UniformPart(Col(t), W, Columns) \in 0 .. W
      /\ Left(t) \in 0 .. W /\ Right(t) \in 0 .. W
  BY <1>1, <1>3, UniformPartIs DEF Left, Right
<1>5. /\ UniformPart(Row(t), H, Rows) = Bottom(t) - Top(t)
      /\ UniformPart(Row(t), H, Rows) \in 0 .. H
      /\ Top(t) \in 0 .. H /\ Bottom(t) \in 0 .. H
  BY <1>1, <1>3, UniformPartIs DEF Top, Bottom
<1> QED BY <1>3, <1>4, <1>5

(* The arguments and the grid, and what is derived from them alone, stay. *)
LEMMA SameGrid ==
  ASSUME UNCHANGED <<args, grid>>
  PROVE  /\ W' = W /\ H' = H /\ Columns' = Columns /\ Rows' = Rows
         /\ m_uiFrameSizeInTiles' = m_uiFrameSizeInTiles
         /\ totaltiles' = totaltiles /\ totaltilecols' = totaltilecols
         /\ totaltilerows' = totaltilerows
         /\ Tiles' = Tiles
         /\ \A t : /\ Left(t)' = Left(t) /\ Right(t)' = Right(t)
                   /\ Top(t)' = Top(t) /\ Bottom(t)' = Bottom(t)
BY DEF args, grid, W, H, Columns, Rows, Tiles, Left, Right, Top, Bottom, Col, Row

LEMMA ConfigureEncoderKeeps ==
  ASSUME TileInv, ConfigureEncoder
  PROVE  TileInv'
<1>1. /\ W' = W /\ H' = H /\ totaltiles' = totaltiles
      /\ totaltilecols' = totaltilecols /\ totaltilerows' = totaltilerows
  BY DEF ConfigureEncoder, args, W, H
<1>2. step' \in {"SetTileStruct", "abort"}
  BY DEF ConfigureEncoder, MakeSure
<1>3. ArgsOK'
  BY <1>1, <1>2 DEF TileInv, ArgsOK
<1>4. m_uiFrameSizeInTiles' \in 1 .. 24
  BY DEF ConfigureEncoder, TileInv, ArgsOK, MAX_TILES
<1>5. Columns' \in Nat /\ Rows' \in Nat
  <2>1. U32(totaltilecols) \in Nat /\ U32(totaltilerows) \in Nat
    BY TileStructAssumption DEF U32, TileInv, ArgsOK
  <2>2. totaltiles \in Int
    BY DEF TileInv, ArgsOK
  <2> QED BY <2>1, <2>2 DEF ConfigureEncoder, MAX_TILES, Columns, Rows
<1>8. GridOK'
  <2>1. m_uiFrameSizeInTiles' \in 0 .. MAX_TILES /\ m_uiFrameSizeInTiles' # 0
    BY <1>4 DEF MAX_TILES
  <2> QED BY <2>1, <1>2, <1>5, Zenon DEF GridOK
<1>9. SizesOK'
  BY <1>2 DEF ConfigureEncoder, TileInv, SizesOK, sizes
<1>10. CornersOK' /\ PixelsOK' /\ AddrMapOK'
  BY <1>2 DEF CornersOK, PixelsOK, AddrMapOK
<1> QED BY <1>3, <1>8, <1>9, <1>10 DEF TileInv

LEMMA SetTileSizesOffTablesKeeps ==
  ASSUME TileInv, SetTileSizesOffTables
  PROVE  TileInv'
<1>1. /\ step' = "abort" /\ UNCHANGED <<args, grid>>
      /\ puiTileWidthInCTUs' = puiTileWidthInCTUs /\ maxCTUsInTile' = maxCTUsInTile
  BY DEF SetTileSizesOffTables, sizes
<1>2. ArgsOK' /\ GridOK'
  BY <1>1, SameGrid DEF TileInv, ArgsOK, GridOK
<1>3. SizesOK'
  BY <1>1, SameGrid DEF TileInv, SizesOK
<1>4. CornersOK' /\ PixelsOK' /\ AddrMapOK'
  BY <1>1 DEF CornersOK, PixelsOK, AddrMapOK
<1> QED BY <1>2, <1>3, <1>4 DEF TileInv

LEMMA SetTileSizesKeeps ==
  ASSUME TileInv, SetTileSizes
  PROVE  TileInv'
<1>1. step = "SetTileStruct" /\ step' = "TileBoundaries" /\ UNCHANGED <<args, grid>>
  BY DEF SetTileSizes
<1>0. ArgsOK /\ HasGrid
  <2>1. /\ m_uiFrameSizeInTiles \in Nat \ {0} /\ Columns \in Nat /\ Rows \in Nat
        /\ m_uiFrameSizeInTiles = Columns * Rows
    BY <1>1 DEF SetTileSizes, GridHasTotalTiles, TileInv, GridOK, Columns, Rows
  <2>2. Columns \in Nat \ {0} /\ Rows \in Nat \ {0}
    BY <2>1, FactorsNotZero
  <2> QED BY <2>1, <2>2 DEF HasGrid, TileInv
<1>2. ArgsOK' /\ GridOK'
  BY <1>0, <1>1, SameGrid DEF TileInv, ArgsOK, GridOK, HasGrid
<1>3. \A t \in Tiles :
        /\ puiTileWidthInCTUs'[t] = Right(t) - Left(t)
        /\ puiTileHeightInCTUs'[t] = Bottom(t) - Top(t)
        /\ puiTileWidthInCTUs'[t] \in 0 .. W
        /\ puiTileHeightInCTUs'[t] \in 0 .. H
  <2> SUFFICES ASSUME NEW t \in Tiles
               PROVE  /\ puiTileWidthInCTUs'[t] = Right(t) - Left(t)
                      /\ puiTileHeightInCTUs'[t] = Bottom(t) - Top(t)
                      /\ puiTileWidthInCTUs'[t] \in 0 .. W
                      /\ puiTileHeightInCTUs'[t] \in 0 .. H
    OBVIOUS
  <2>1. /\ puiTileWidthInCTUs'[t] = UniformPart(Col(t), W, Columns)
        /\ puiTileHeightInCTUs'[t] = UniformPart(Row(t), H, Rows)
    BY DEF SetTileSizes, W, H, Columns, Rows
  <2> QED BY <1>0, <2>1, TileFacts
<1>4. DOMAIN puiTileWidthInCTUs' = Tiles
  BY DEF SetTileSizes
<1> DEFINE ws == {puiTileWidthInCTUs'[t] : t \in Tiles}
           hs == {puiTileHeightInCTUs'[t] : t \in Tiles}
<1>5. maxCTUsInTile' = Max(ws) * Max(hs)
  BY DEF SetTileSizes
<1>6. 0 \in Tiles /\ W \in Nat /\ H \in Nat
  <2>1. Columns * Rows >= 1
    BY <1>0 DEF HasGrid
  <2> QED BY <1>0, <2>1 DEF ArgsOK, HasGrid, Tiles
<1>7. Max(ws) \in ws /\ \A y \in ws : Max(ws) >= y
  <2>1. ws \subseteq Nat /\ ws # {} /\ \A x \in ws : x <= W
    BY <1>3, <1>6
  <2> HIDE DEF ws
  <2> QED BY <2>1, <1>6, MaxIs
<1>8. Max(hs) \in hs /\ \A y \in hs : Max(hs) >= y
  <2>1. hs \subseteq Nat /\ hs # {} /\ \A x \in hs : x <= H
    BY <1>3, <1>6
  <2> HIDE DEF hs
  <2> QED BY <2>1, <1>6, MaxIs
<1> DEFINE mw == Max(ws)
           mh == Max(hs)
<1>9. mw \in Nat /\ mh \in Nat
  BY <1>3, <1>6, <1>7, <1>8
<1>10. \A t \in Tiles : puiTileWidthInCTUs'[t] <= mw /\ puiTileHeightInCTUs'[t] <= mh
  BY <1>7, <1>8
<1>11. \A t \in Tiles : puiTileWidthInCTUs'[t] * puiTileHeightInCTUs'[t] <= mw * mh
  <2> TAKE t \in Tiles
  <2> DEFINE w == puiTileWidthInCTUs'[t]
             h == puiTileHeightInCTUs'[t]
  <2> HIDE DEF mw, mh
  <2>1. w \in Nat /\ h \in Nat /\ w <= mw /\ h <= mh
    BY <1>3, <1>6, <1>10
  <2> HIDE DEF w, h
  <2>2. w * h <= mw * h /\ h * mw <= mh * mw
    BY <2>1, <1>9, TimesMonotone
  <2>3. w * h <= mw * mh
    BY <2>1, <2>2, <1>9
  <2> QED BY <2>3 DEF w, h, mw, mh
<1>12. SizesOK'
  <2>1. maxCTUsInTile' = mw * mh /\ mw * mh \in Nat
    BY <1>5, <1>9
  <2> HIDE DEF mw, mh
  <2>2. \A t \in Tiles' :
          /\ puiTileWidthInCTUs'[t] = Right(t)' - Left(t)'
          /\ puiTileHeightInCTUs'[t] = Bottom(t)' - Top(t)'
          /\ puiTileWidthInCTUs'[t] * puiTileHeightInCTUs'[t] <= maxCTUsInTile'
    BY <1>1, <1>3, <1>11, <2>1, SameGrid
  <2>3. DOMAIN puiTileWidthInCTUs' = Tiles'
    BY <1>1, <1>4, SameGrid
  <2> QED BY <1>1, <2>1, <2>2, <2>3 DEF SizesOK
<1>13. CornersOK' /\ PixelsOK' /\ AddrMapOK'
  BY <1>1 DEF CornersOK, PixelsOK, AddrMapOK
<1> QED BY <1>2, <1>12, <1>13 DEF TileInv

(* Tile (c, r) of the grid. *)
LEMMA TileAtFacts ==
  ASSUME HasGrid,
         NEW c \in 0 .. Columns - 1, NEW r \in 0 .. Rows - 1
  PROVE  /\ r * Columns + c \in Tiles
         /\ Col(r * Columns + c) = c /\ Row(r * Columns + c) = r
<1>1. /\ Columns \in Nat \ {0} /\ Rows \in Nat \ {0}
      /\ Tiles = 0 .. Columns * Rows - 1
  BY DEF HasGrid, Tiles
<1>2. /\ r * Columns + c \in 0 .. Columns * Rows - 1
      /\ (r * Columns + c) % Columns = c /\ (r * Columns + c) \div Columns = r
  BY <1>1, TileAt
<1> QED BY <1>1, <1>2 DEF Col, Row, Columns

(* The widths of the tiles left of a tile add up to where it begins. *)
LEMMA SumOfWidths ==
  ASSUME TileInv, step = "TileBoundaries", NEW t \in Tiles
  PROVE  SumFunctionOnSet(puiTileWidthInCTUs,
           {Row(t) * Columns + m : m \in 0 .. (Col(t) - 1)}) = Left(t)
<1> DEFINE n == Col(t)
           r == Row(t)
           at == [m \in 0 .. n - 1 |-> r * Columns + m]
           P == [m \in 0 .. n |-> PartStart(m, W, Columns)]
<1>1. ArgsOK /\ HasGrid
  BY DEF TileInv, GridOK
<1>2. n \in 0 .. Columns - 1 /\ r \in 0 .. Rows - 1
  BY <1>1, TileFacts
<1>3. /\ W \in Nat /\ Columns \in Nat \ {0} /\ Rows \in Nat \ {0}
  BY <1>1 DEF ArgsOK, HasGrid
<1> HIDE DEF n, r
<1>4. \A m \in 0 .. n : P[m] \in Int
  BY <1>2, <1>3, PartStartInt
<1>5. \A m \in 0 .. n - 1 : puiTileWidthInCTUs[at[m]] = P[m + 1] - P[m]
  <2> TAKE m \in 0 .. n - 1
  <2>1. m \in 0 .. Columns - 1
    BY <1>2, <1>3
  <2> DEFINE u == r * Columns + m
  <2>2. u \in Tiles /\ Col(u) = m
    BY <2>1, <1>1, <1>2, TileAtFacts
  <2>3. puiTileWidthInCTUs[u] = Right(u) - Left(u)
    BY <2>2 DEF TileInv, SizesOK
  <2>4. Right(u) = PartStart(m + 1, W, Columns) /\ Left(u) = PartStart(m, W, Columns)
    BY <2>2 DEF Left, Right
  <2>5. at[m] = u
    OBVIOUS
  <2> HIDE DEF u, at
  <2> QED BY <2>3, <2>4, <2>5, <1>2
<1>6. \A m, k \in 0 .. n - 1 : m # k => at[m] # at[k]
  <2>1. r * Columns \in Int
    BY <1>2, <1>3
  <2> QED BY <2>1
<1>7. n \in Nat
  BY <1>2
<1> HIDE DEF at, P
<1>8. SumFunctionOnSet(puiTileWidthInCTUs, {at[m] : m \in 0 .. n - 1}) = P[n] - P[0]
  <2>1. Telescopes(n, puiTileWidthInCTUs, at, P)
    BY <1>4, <1>5, <1>6, Zenon DEF Telescopes
  <2> QED BY <2>1, <1>7, SumOfDifferences
<1>9. {at[m] : m \in 0 .. n - 1} = {r * Columns + m : m \in 0 .. n - 1}
  BY DEF at
<1>10. P[n] - P[0] = Left(t)
  <2>1. P[n] = PartStart(n, W, Columns) /\ P[0] = PartStart(0, W, Columns)
    BY <1>7 DEF P
  <2>2. P[0] = 0 /\ P[n] \in Int
    BY <2>1, <1>3, <1>4, <1>7, PartStartEnds
  <2> QED BY <2>1, <2>2 DEF Left, n
<1>11. SumFunctionOnSet(puiTileWidthInCTUs, {r * Columns + m : m \in 0 .. n - 1}) = Left(t)
  BY <1>8, <1>9, <1>10
<1> QED BY <1>11 DEF n, r

(* The heights of the tiles above a tile add up to where it begins. *)
LEMMA SumOfHeights ==
  ASSUME TileInv, step = "TileBoundaries", NEW t \in Tiles
  PROVE  SumFunctionOnSet(puiTileHeightInCTUs,
           {Col(t) + m * Columns : m \in 0 .. (Row(t) - 1)}) = Top(t)
<1> DEFINE c == Col(t)
           n == Row(t)
           at == [m \in 0 .. n - 1 |-> c + m * Columns]
           P == [m \in 0 .. n |-> PartStart(m, H, Rows)]
<1>1. ArgsOK /\ HasGrid
  BY DEF TileInv, GridOK
<1>2. c \in 0 .. Columns - 1 /\ n \in 0 .. Rows - 1
  BY <1>1, TileFacts
<1>3. /\ H \in Nat /\ Columns \in Nat \ {0} /\ Rows \in Nat \ {0}
  BY <1>1 DEF ArgsOK, HasGrid
<1> HIDE DEF n, c
<1>4. \A m \in 0 .. n : P[m] \in Int
  BY <1>2, <1>3, PartStartInt
<1>5. \A m \in 0 .. n - 1 :
        /\ puiTileHeightInCTUs[at[m]] = P[m + 1] - P[m]
        /\ Row(at[m]) = m
  <2> TAKE m \in 0 .. n - 1
  <2>1. m \in 0 .. Rows - 1
    BY <1>2, <1>3
  <2> DEFINE u == m * Columns + c
  <2>2. u \in Tiles /\ Row(u) = m
    BY <2>1, <1>1, <1>2, TileAtFacts
  <2>3. puiTileHeightInCTUs[u] = Bottom(u) - Top(u)
    BY <2>2 DEF TileInv, SizesOK
  <2>4. Bottom(u) = PartStart(m + 1, H, Rows) /\ Top(u) = PartStart(m, H, Rows)
    BY <2>2 DEF Top, Bottom
  <2>5. at[m] = u
    BY <1>2, <1>3, <2>1
  <2> HIDE DEF u, at
  <2> QED BY <2>2, <2>3, <2>4, <2>5, <1>2
<1>6. \A m, k \in 0 .. n - 1 : m # k => at[m] # at[k]
  <2> HIDE DEF at
  <2> QED BY <1>5
<1>7. n \in Nat
  BY <1>2
<1> HIDE DEF at, P
<1>8. SumFunctionOnSet(puiTileHeightInCTUs, {at[m] : m \in 0 .. n - 1}) = P[n] - P[0]
  <2>1. \A m \in 0 .. n - 1 : puiTileHeightInCTUs[at[m]] = P[m + 1] - P[m]
    BY <1>5
  <2>2. Telescopes(n, puiTileHeightInCTUs, at, P)
    BY <2>1, <1>4, <1>6, Zenon DEF Telescopes
  <2> QED BY <2>2, <1>7, SumOfDifferences
<1>9. {at[m] : m \in 0 .. n - 1} = {c + m * Columns : m \in 0 .. n - 1}
  BY DEF at
<1>10. P[n] - P[0] = Top(t)
  <2>1. P[n] = PartStart(n, H, Rows) /\ P[0] = PartStart(0, H, Rows)
    BY <1>7 DEF P
  <2>2. P[0] = 0 /\ P[n] \in Int
    BY <2>1, <1>3, <1>4, <1>7, PartStartEnds
  <2> QED BY <2>1, <2>2 DEF Top, n
<1>11. SumFunctionOnSet(puiTileHeightInCTUs, {c + m * Columns : m \in 0 .. n - 1}) = Top(t)
  BY <1>8, <1>9, <1>10
<1> QED BY <1>11 DEF n, c

LEMMA SetTileBoundariesKeeps ==
  ASSUME TileInv, SetTileBoundaries
  PROVE  TileInv'
<1>1. /\ step = "TileBoundaries" /\ step' = "GenTileBoundingPixels"
      /\ UNCHANGED <<args, grid, sizes>>
  BY DEF SetTileBoundaries
<1>2. ArgsOK' /\ GridOK'
  BY <1>1, SameGrid DEF TileInv, ArgsOK, GridOK, HasGrid
<1>3. /\ puiTileWidthInCTUs' = puiTileWidthInCTUs
      /\ puiTileHeightInCTUs' = puiTileHeightInCTUs
      /\ maxCTUsInTile' = maxCTUsInTile
  BY <1>1 DEF sizes
<1>4. SizesOK'
  BY <1>1, <1>3, SameGrid DEF TileInv, SizesOK
<1>5. \A t \in Tiles : puiTileCTUNumX'[t] = Left(t) /\ puiTileCTUNumY'[t] = Top(t)
  <2> TAKE t \in Tiles
  <2>1. /\ puiTileCTUNumX'[t] = SumFunctionOnSet(puiTileWidthInCTUs,
             {Row(t) * Columns + m : m \in 0 .. (Col(t) - 1)})
        /\ puiTileCTUNumY'[t] = SumFunctionOnSet(puiTileHeightInCTUs,
             {Col(t) + m * Columns : m \in 0 .. (Row(t) - 1)})
    BY Zenon DEF SetTileBoundaries, Columns
  <2> QED BY <2>1, <1>1, SumOfWidths, SumOfHeights
<1>6. CornersOK'
  BY <1>1, <1>5, SameGrid DEF CornersOK
<1>7. PixelsOK' /\ AddrMapOK'
  BY <1>1 DEF PixelsOK, AddrMapOK
<1> QED BY <1>2, <1>4, <1>6, <1>7 DEF TileInv

(* Every part begins before the end of what is divided. *)
LEMMA PartStartBelow ==
  ASSUME NEW n \in Nat \ {0}, NEW parts \in Nat \ {0}, NEW k \in 0 .. parts - 1
  PROVE  PartStart(k, n, parts) < n
<1> DEFINE p == PartStart(k, n, parts)
<1>1. p \in Nat /\ p * parts <= k * n
  BY PartStartInt, n \in Nat, k \in Nat
<1>2. k * n < n * parts
  <2>1. k * n <= (parts - 1) * n
    BY TimesMonotone, n \in Nat
  <2>2. (parts - 1) * n = n * parts - n
    OBVIOUS
  <2> DEFINE a == k * n
             b == n * parts
  <2>3. a <= b - n /\ a \in Int /\ b \in Int
    BY <2>1, <2>2
  <2> HIDE DEF a, b
  <2>4. a < b
    BY <2>3
  <2> QED BY <2>4 DEF a, b
<1> HIDE DEF p
<1>3. p * parts < n * parts
  <2> DEFINE a == k * n
             b == n * parts
             q == p * parts
  <2>1. a \in Int /\ b \in Int /\ q \in Int /\ q <= a /\ a < b
    BY <1>1, <1>2
  <2> HIDE DEF a, b, q
  <2>2. q < b
    BY <2>1
  <2> QED BY <2>2 DEF b, q
<1>4. p < n
  BY <1>1, <1>3, TimesCancels
<1> QED BY <1>4 DEF p

(* The numbers of a tile's first and last CTU, divided into coordinates. *)
LEMMA CTUCoordinates ==
  ASSUME NEW w \in Nat \ {0}, NEW x \in 0 .. w - 1, NEW y \in Int
  PROVE  (x + y * w) % w = x /\ (x + y * w) \div w = y
<1>1. x + y * w = y * w + x
  OBVIOUS
<1> QED BY <1>1, DivUnique

LEMMA FirstCTU ==
  ASSUME TileInv, step = "GenTileBoundingPixels", NEW t \in Tiles
  PROVE  GetCTUStartPel(StartCTUNum(t)) = [x |-> Left(t) * CTU, y |-> Top(t) * CTU]
<1>1. StartCTUNum(t) = Left(t) + Top(t) * W
  BY DEF StartCTUNum, TileInv, CornersOK, W
<1>2. /\ W \in Nat \ {0} /\ Columns \in Nat \ {0}
      /\ Col(t) \in 0 .. Columns - 1 /\ Left(t) \in 0 .. W /\ Top(t) \in Int
  BY TileFacts DEF TileInv, ArgsOK, GridOK, HasGrid
<1>3. Left(t) < W
  BY <1>2, PartStartBelow DEF Left
<1>4. /\ (Left(t) + Top(t) * W) % W = Left(t)
      /\ (Left(t) + Top(t) * W) \div W = Top(t)
  <2>1. Left(t) \in 0 .. W - 1
    BY <1>2, <1>3
  <2> QED BY <2>1, <1>2, CTUCoordinates
<1> QED BY <1>1, <1>4 DEF GetCTUStartPel, W

LEMMA LastCTU ==
  ASSUME TileInv, step = "GenTileBoundingPixels", NEW t \in Tiles, Right(t) >= 1
  PROVE  GetCTUStartPel(EndCTUNum(t)) = [x |-> (Right(t) - 1) * CTU,
                                         y |-> (Bottom(t) - 1) * CTU]
<1> DEFINE l == Left(t)
           r == Right(t)
           u == Top(t)
           b == Bottom(t)
<1>1. EndCTUNum(t) = ((l + u * W) + ((r - l) - 1)) + ((b - u) - 1) * W
  BY DEF EndCTUNum, StartCTUNum, TileInv, CornersOK, SizesOK, W
<1>2. W \in Nat \ {0} /\ l \in Int /\ r \in 1 .. W /\ u \in Int /\ b \in Int
  BY TileFacts DEF TileInv, ArgsOK, GridOK, HasGrid
<1> HIDE DEF l, r, u, b
<1>3. ((b - u) - 1) * W = (b - 1) * W - u * W
  BY <1>2
<1>4. EndCTUNum(t) = (r - 1) + (b - 1) * W
  <2> DEFINE uw == u * W
             bw == (b - 1) * W
  <2>1. uw \in Int /\ bw \in Int
    BY <1>2
  <2>2. EndCTUNum(t) = ((l + uw) + ((r - l) - 1)) + (bw - uw)
    BY <1>1, <1>3
  <2> HIDE DEF uw, bw
  <2>3. EndCTUNum(t) = (r - 1) + bw
    BY <1>2, <2>1, <2>2
  <2> QED BY <2>3 DEF bw
<1>5. ((r - 1) + (b - 1) * W) % W = r - 1 /\ ((r - 1) + (b - 1) * W) \div W = b - 1
  <2>1. r - 1 \in 0 .. W - 1 /\ b - 1 \in Int
    BY <1>2
  <2> QED BY <2>1, <1>2, CTUCoordinates
<1>6. GetCTUStartPel(EndCTUNum(t)) = [x |-> (r - 1) * CTU, y |-> (b - 1) * CTU]
  BY <1>4, <1>5 DEF GetCTUStartPel, W
<1> QED BY <1>6 DEF r, b

LEMMA GenTileBoundingPixelsKeeps ==
  ASSUME TileInv, GenTileBoundingPixels
  PROVE  TileInv'
<1>1. /\ step = "GenTileBoundingPixels"
      /\ UNCHANGED <<args, grid, sizes, corners>>
  BY DEF GenTileBoundingPixels
<1>2. step' \in {"MakeCTUAddrMap", "abort"}
  BY DEF GenTileBoundingPixels, MakeSure
<1>3. ArgsOK' /\ GridOK'
  BY <1>1, <1>2, SameGrid DEF TileInv, ArgsOK, GridOK, HasGrid
<1>4. /\ puiTileWidthInCTUs' = puiTileWidthInCTUs
      /\ puiTileHeightInCTUs' = puiTileHeightInCTUs
      /\ maxCTUsInTile' = maxCTUsInTile
      /\ puiTileCTUNumX' = puiTileCTUNumX /\ puiTileCTUNumY' = puiTileCTUNumY
  BY <1>1 DEF sizes, corners
<1>5. SizesOK'
  BY <1>1, <1>2, <1>4, SameGrid DEF TileInv, SizesOK
<1>6. CornersOK'
  BY <1>1, <1>2, <1>4, SameGrid DEF TileInv, CornersOK
<1>7. AddrMapOK'
  BY <1>2 DEF AddrMapOK
<1>8. ASSUME step' = "MakeCTUAddrMap" PROVE PixelsOK'
  <2>1. \A t \in Tiles :
          /\ m_pcTileStartCTUPel'[t] = GetCTUStartPel(StartCTUNum(t))
          /\ m_pcTileEndCTUPel'[t] = GetCTUStartPel(EndCTUNum(t))
    BY DEF GenTileBoundingPixels
  <2>2. \A t \in Tiles :
          /\ m_pcTileEndCTUPel'[t].x > m_pcTileStartCTUPel'[t].x
          /\ m_pcTileEndCTUPel'[t].y > m_pcTileStartCTUPel'[t].y
    BY <1>8 DEF GenTileBoundingPixels, MakeSure
  <2>3. \A t \in Tiles : Right(t) >= 1 =>
          /\ m_pcTileStartCTUPel'[t] = [x |-> Left(t) * CTU, y |-> Top(t) * CTU]
          /\ m_pcTileEndCTUPel'[t] = [x |-> (Right(t) - 1) * CTU,
                                      y |-> (Bottom(t) - 1) * CTU]
    BY <2>1, <1>1, FirstCTU, LastCTU
  <2>4. /\ W \in Nat \ {0} /\ Columns \in Nat \ {0} /\ Rows \in Nat \ {0}
        /\ ArgsOK /\ HasGrid
    BY <1>1 DEF TileInv, ArgsOK, GridOK, HasGrid
  <2>5. \A t \in Tiles : Right(t) >= 1 =>
          Right(t) - Left(t) > 1 /\ Bottom(t) - Top(t) > 1
    <3> TAKE t \in Tiles
    <3> HAVE Right(t) >= 1
    <3>1. /\ (Right(t) - 1) * CTU > Left(t) * CTU
          /\ (Bottom(t) - 1) * CTU > Top(t) * CTU
      <4>1. /\ m_pcTileEndCTUPel'[t].x = (Right(t) - 1) * CTU
            /\ m_pcTileEndCTUPel'[t].y = (Bottom(t) - 1) * CTU
            /\ m_pcTileStartCTUPel'[t].x = Left(t) * CTU
            /\ m_pcTileStartCTUPel'[t].y = Top(t) * CTU
        <5>1. /\ m_pcTileStartCTUPel'[t] = [x |-> Left(t) * CTU, y |-> Top(t) * CTU]
              /\ m_pcTileEndCTUPel'[t] = [x |-> (Right(t) - 1) * CTU,
                                          y |-> (Bottom(t) - 1) * CTU]
          BY <2>3, Zenon
        <5> QED BY <5>1
      <4> QED BY <4>1, <2>2
    <3>2. Right(t) \in Int /\ Left(t) \in Int /\ Bottom(t) \in Int /\ Top(t) \in Int
      BY <2>4, TileFacts
    <3> QED BY <3>1, <3>2 DEF CTU
  <2>6. PartStart(1, W, Columns) >= 1
    <3>1. PartStart(1, W, Columns) \in Nat
      BY <2>4, PartStartInt, 1 \in Nat, W \in Nat
    <3> SUFFICES ASSUME PartStart(1, W, Columns) = 0 PROVE FALSE
      BY <3>1
    <3>2. PICK c \in 0 .. Columns - 1 : /\ PartStart(c, W, Columns) = 0
                                        /\ PartStart(c + 1, W, Columns) = 1
      BY <2>4, EmptyMeansOne
    <3> DEFINE t == 0 * Columns + c
    <3>3. t \in Tiles /\ Col(t) = c
      <4>1. 0 \in 0 .. Rows - 1
        BY <2>4
      <4> QED BY <2>4, <4>1, TileAtFacts
    <3>4. Left(t) = 0 /\ Right(t) = 1
      BY <3>2, <3>3 DEF Left, Right
    <3> HIDE DEF t
    <3> QED BY <2>5, <3>3, <3>4
  <2>7. \A t \in Tiles : Right(t) >= 1
    <3> TAKE t \in Tiles
    <3>1. Col(t) \in 0 .. Columns - 1
      BY <2>4, TileFacts
    <3>2. PartStart(1, W, Columns) <= PartStart(Col(t) + 1, W, Columns)
      BY <3>1, <2>4, PartStartMonotone, 1 \in Nat, Col(t) + 1 \in Nat, W \in Nat
    <3>3. PartStart(Col(t) + 1, W, Columns) \in Nat /\ PartStart(1, W, Columns) \in Nat
      BY <3>1, <2>4, PartStartInt, 1 \in Nat, Col(t) + 1 \in Nat, W \in Nat
    <3> QED BY <2>6, <3>2, <3>3 DEF Right
  <2>8. \A t \in Tiles :
          /\ m_pcTileStartCTUPel'[t] = [x |-> Left(t) * CTU, y |-> Top(t) * CTU]
          /\ m_pcTileEndCTUPel'[t] = [x |-> (Right(t) - 1) * CTU,
                                      y |-> (Bottom(t) - 1) * CTU]
          /\ Right(t) - Left(t) > 1 /\ Bottom(t) - Top(t) > 1
    BY <2>3, <2>5, <2>7
  <2> QED BY <2>8, <1>1, SameGrid DEF PixelsOK
<1>9. PixelsOK'
  BY <1>2, <1>8 DEF PixelsOK
<1> QED BY <1>3, <1>5, <1>6, <1>7, <1>9 DEF TileInv

(* From the pixels of its corners a tile finds its own size again. *)
LEMMA InCTUsIs ==
  ASSUME NEW l \in Int, NEW r \in Int
  PROVE  InCTUs(l * CTU, (r - 1) * CTU) = r - l
<1>1. (((r - 1) * 32 - l * 32 + 32) + 1) \div 32 = r - l
  OBVIOUS
<1> QED BY <1>1 DEF InCTUs, CTU

LEMMA MakeCTUAddrMapKeeps ==
  ASSUME TileInv, MakeCTUAddrMap
  PROVE  TileInv'
<1>1. /\ step = "MakeCTUAddrMap" /\ step' = "ready"
      /\ UNCHANGED <<args, grid, sizes, corners, pixels>>
  BY DEF MakeCTUAddrMap
<1>2. ArgsOK' /\ GridOK'
  BY <1>1, SameGrid DEF TileInv, ArgsOK, GridOK, HasGrid
<1>3. /\ puiTileWidthInCTUs' = puiTileWidthInCTUs
      /\ puiTileHeightInCTUs' = puiTileHeightInCTUs
      /\ maxCTUsInTile' = maxCTUsInTile
      /\ puiTileCTUNumX' = puiTileCTUNumX /\ puiTileCTUNumY' = puiTileCTUNumY
      /\ m_pcTileStartCTUPel' = m_pcTileStartCTUPel
      /\ m_pcTileEndCTUPel' = m_pcTileEndCTUPel
  BY <1>1 DEF sizes, corners, pixels
<1>4. SizesOK'
  BY <1>1, <1>3, SameGrid DEF TileInv, SizesOK
<1>5. CornersOK'
  BY <1>1, <1>3, SameGrid DEF TileInv, CornersOK
<1>6. PixelsOK'
  BY <1>1, <1>3, SameGrid DEF TileInv, PixelsOK
<1>7. ASSUME NEW t \in Tiles
      PROVE  m_puiCTUAddrMap'[t] =
               [i \in 1 .. (Right(t) - Left(t)) * (Bottom(t) - Top(t)) |->
                  [x |-> Left(t) * CTU + ((i - 1) % (Right(t) - Left(t))) * CTU,
                   y |-> Top(t) * CTU + ((i - 1) \div (Right(t) - Left(t))) * CTU]]
  <2> DEFINE first  == m_pcTileStartCTUPel[t]
             last   == m_pcTileEndCTUPel[t]
             width  == InCTUs(first.x, last.x)
             height == InCTUs(first.y, last.y)
  <2>1. m_puiCTUAddrMap'[t] =
          [i \in 1 .. (width * height) |->
             [x |-> first.x + ((i - 1) % width) * CTU,
              y |-> first.y + ((i - 1) \div width) * CTU]]
    BY DEF MakeCTUAddrMap
  <2>2. /\ first = [x |-> Left(t) * CTU, y |-> Top(t) * CTU]
        /\ last = [x |-> (Right(t) - 1) * CTU, y |-> (Bottom(t) - 1) * CTU]
    BY <1>1 DEF TileInv, PixelsOK
  <2>3. /\ first.x = Left(t) * CTU /\ first.y = Top(t) * CTU
        /\ last.x = (Right(t) - 1) * CTU /\ last.y = (Bottom(t) - 1) * CTU
    BY <2>2
  <2>4. Right(t) \in Int /\ Left(t) \in Int /\ Bottom(t) \in Int /\ Top(t) \in Int
    BY <1>1, TileFacts DEF TileInv, ArgsOK, GridOK, HasGrid
  <2>5. width = Right(t) - Left(t) /\ height = Bottom(t) - Top(t)
    BY <2>3, <2>4, InCTUsIs
  <2> HIDE DEF first, last, width, height
  <2> QED BY <2>1, <2>3, <2>5
<1>8. AddrMapOK'
  BY <1>1, <1>7, SameGrid DEF AddrMapOK
<1> QED BY <1>2, <1>4, <1>5, <1>6, <1>8 DEF TileInv

(***************************************************************************)
(* For every frame size, number of tiles and grid, each step of the set-up *)
(* leaves what the later ones take for granted: a tile begins where the    *)
(* quotient of the division says, whichever of the three ways it was       *)
(* computed, and one that passed the assertion has two columns and two     *)
(* rows of CTUs.                                                           *)
(***************************************************************************)
THEOREM TileInvariant == Spec => []TileInv
<1>1. ASSUME TileInv, [Next]_tileVars PROVE TileInv'
  <2>1. CASE ConfigureEncoder
    BY <1>1, <2>1, ConfigureEncoderKeeps
  <2>0. CASE SetTileSizesOffTables
    BY <1>1, <2>0, SetTileSizesOffTablesKeeps
  <2>2. CASE SetTileSizes
    BY <1>1, <2>2, SetTileSizesKeeps
  <2>3. CASE SetTileBoundaries
    BY <1>1, <2>3, SetTileBoundariesKeeps
  <2>4. CASE GenTileBoundingPixels
    BY <1>1, <2>4, GenTileBoundingPixelsKeeps
  <2>5. CASE MakeCTUAddrMap
    BY <1>1, <2>5, MakeCTUAddrMapKeeps
  <2>6. CASE UNCHANGED tileVars
    <3>1. UNCHANGED <<args, grid>>
      BY <2>6 DEF tileVars
    <3>2. /\ step' = step
          /\ puiTileWidthInCTUs' = puiTileWidthInCTUs
          /\ puiTileHeightInCTUs' = puiTileHeightInCTUs
          /\ maxCTUsInTile' = maxCTUsInTile
          /\ puiTileCTUNumX' = puiTileCTUNumX /\ puiTileCTUNumY' = puiTileCTUNumY
          /\ m_pcTileStartCTUPel' = m_pcTileStartCTUPel
          /\ m_pcTileEndCTUPel' = m_pcTileEndCTUPel
          /\ m_puiCTUAddrMap' = m_puiCTUAddrMap
      BY <2>6 DEF tileVars, sizes, corners, pixels
    <3>3. ArgsOK' /\ GridOK'
      BY <1>1, <3>1, <3>2, SameGrid DEF TileInv, ArgsOK, GridOK, HasGrid
    <3>4. SizesOK'
      BY <1>1, <3>1, <3>2, SameGrid DEF TileInv, SizesOK
    <3>5. CornersOK' /\ PixelsOK'
      BY <1>1, <3>1, <3>2, SameGrid DEF TileInv, CornersOK, PixelsOK
    <3>6. AddrMapOK'
      BY <1>1, <3>1, <3>2, SameGrid DEF TileInv, AddrMapOK
    <3> QED BY <3>3, <3>4, <3>5, <3>6 DEF TileInv
  <2> QED BY <1>1, <2>0, <2>1, <2>2, <2>3, <2>4, <2>5, <2>6 DEF Next
<1> QED BY <1>1, TileStart, PTL DEF Spec

(* The variables have their types, whatever the arguments. *)
THEOREM TileTypes == Spec => []TypeOK
<1>1. TileInv => TypeOK
  <2> SUFFICES ASSUME TileInv PROVE TypeOK
    OBVIOUS
  <2>1. DOMAIN puiTileWidthInCTUs \in {{}, Tiles}
    BY DEF TileInv, SizesOK
  <2> QED BY <2>1 DEF TypeOK, TileInv, ArgsOK, GridOK, SizesOK, Columns, Rows
<1> QED BY <1>1, TileInvariant, PTL

(* No tile of an accepted grid is thinner than two CTUs. *)
THEOREM NoAcceptedTileIsThin == Spec => []NoThinTile
<1>1. TileInv => NoThinTile
  BY DEF TileInv, SizesOK, PixelsOK, NoThinTile
<1> QED BY <1>1, TileInvariant, PTL

(* A tile's bitstream buffer has room for every CTU of the tile. *)
THEOREM BuffersHoldTheirTiles == Spec => []BufferForEveryCTU
<1>1. ASSUME TileInv, step = "ready", NEW t \in Tiles
      PROVE  Len(m_puiCTUAddrMap[t]) <= maxCTUsInTile
  <2> DEFINE w == Right(t) - Left(t)
             h == Bottom(t) - Top(t)
  <2>1. w \in Nat /\ h \in Nat
    BY <1>1, TileFacts DEF TileInv, ArgsOK, GridOK, HasGrid
  <2>2. w * h <= maxCTUsInTile
    BY <1>1 DEF TileInv, SizesOK
  <2>3. m_puiCTUAddrMap[t] =
          [i \in 1 .. w * h |->
             [x |-> Left(t) * CTU + ((i - 1) % w) * CTU,
              y |-> Top(t) * CTU + ((i - 1) \div w) * CTU]]
    BY <1>1 DEF TileInv, AddrMapOK
  <2> HIDE DEF w, h
  <2>4. w * h \in Nat
    BY <2>1
  <2>5. Len(m_puiCTUAddrMap[t]) = w * h
    BY <2>3, <2>4
  <2> QED BY <2>2, <2>5
<1>2. TileInv => BufferForEveryCTU
  BY <1>1 DEF BufferForEveryCTU
<1> QED BY <1>2, TileInvariant, PTL

--------------------------------------------------------------------------------
(* Every CTU once *)

(* Every number below n is in one part, and in one only. *)
LEMMA PartOf ==
  ASSUME NEW n \in Nat \ {0}, NEW parts \in Nat \ {0}, NEW i \in 0 .. n - 1
  PROVE  \E k \in 0 .. parts - 1 : /\ PartStart(k, n, parts) <= i
                                   /\ i < PartStart(k + 1, n, parts)
<1> DEFINE T == {k \in Nat : PartStart(k, n, parts) > i}
<1>1. parts \in T
  BY PartStartEnds
<1>2. PICK d \in T : \A k \in T : d <= k
  <2> HIDE DEF T
  <2>1. T \subseteq Nat
    BY DEF T
  <2> QED BY <1>1, <2>1, LeastNatural
<1>3. d # 0 /\ d <= parts
  BY <1>1, <1>2, PartStartEnds
<1> DEFINE k == d - 1
<1>4. k \in 0 .. parts - 1 /\ k \in Nat /\ k + 1 = d
  BY <1>2, <1>3
<1>5. k \notin T
  BY <1>2, <1>4
<1>6. PartStart(k, n, parts) \in Nat
  BY <1>4, PartStartInt, n \in Nat
<1>7. PartStart(k, n, parts) <= i
  BY <1>4, <1>5, <1>6
<1> QED BY <1>2, <1>4, <1>7

LEMMA PartUnique ==
  ASSUME NEW n \in Nat \ {0}, NEW parts \in Nat \ {0}, NEW i \in Int,
         NEW k \in Nat, PartStart(k, n, parts) <= i, i < PartStart(k + 1, n, parts),
         NEW m \in Nat, PartStart(m, n, parts) <= i, i < PartStart(m + 1, n, parts)
  PROVE  k = m
<1>1. \A a, b \in Nat : a <= b => PartStart(a, n, parts) <= PartStart(b, n, parts)
  BY PartStartMonotone, n \in Nat
<1>2. \A a \in Nat : PartStart(a, n, parts) \in Nat
  BY PartStartInt, n \in Nat
<1>3. ~ (k + 1 <= m)
  BY <1>1, <1>2, k + 1 \in Nat
<1>4. ~ (m + 1 <= k)
  BY <1>1, <1>2, m + 1 \in Nat
<1> QED BY <1>3, <1>4

(* Where the CTUs of a tile are, and that each is there once. *)
LEMMA CTUsOfTile ==
  ASSUME TileInv, step = "ready", NEW t \in Tiles
  PROVE  /\ \A i \in DOMAIN m_puiCTUAddrMap[t] :
              \E x \in Left(t) .. Right(t) - 1, y \in Top(t) .. Bottom(t) - 1 :
                m_puiCTUAddrMap[t][i] = [x |-> CTU * x, y |-> CTU * y]
         /\ \A x \in Left(t) .. Right(t) - 1, y \in Top(t) .. Bottom(t) - 1 :
              \E i \in DOMAIN m_puiCTUAddrMap[t] :
                m_puiCTUAddrMap[t][i] = [x |-> CTU * x, y |-> CTU * y]
         /\ \A i, j \in DOMAIN m_puiCTUAddrMap[t] :
              m_puiCTUAddrMap[t][i] = m_puiCTUAddrMap[t][j] => i = j
<1> DEFINE l == Left(t)
           u == Top(t)
           w == Right(t) - Left(t)
           h == Bottom(t) - Top(t)
<1>1. l \in Nat /\ u \in Nat /\ w \in Nat \ {0} /\ h \in Nat \ {0}
  <2>1. Right(t) - Left(t) > 1 /\ Bottom(t) - Top(t) > 1
    BY DEF TileInv, PixelsOK
  <2>2. Left(t) \in Nat /\ Right(t) \in Nat /\ Top(t) \in Nat /\ Bottom(t) \in Nat
    BY TileFacts DEF TileInv, ArgsOK, GridOK, HasGrid
  <2> QED BY <2>1, <2>2
<1>2. m_puiCTUAddrMap[t] =
        [i \in 1 .. w * h |-> [x |-> l * CTU + ((i - 1) % w) * CTU,
                               y |-> u * CTU + ((i - 1) \div w) * CTU]]
  BY DEF TileInv, AddrMapOK
<1>3. Left(t) .. Right(t) - 1 = l .. l + w - 1 /\ Top(t) .. Bottom(t) - 1 = u .. u + h - 1
  BY TileFacts DEF TileInv, ArgsOK, GridOK, HasGrid
<1> HIDE DEF l, u, w, h
<1>4. DOMAIN m_puiCTUAddrMap[t] = 1 .. w * h
  BY <1>2
<1>5. ASSUME NEW i \in 1 .. w * h
      PROVE  /\ (i - 1) % w \in 0 .. w - 1 /\ (i - 1) \div w \in 0 .. h - 1
             /\ i - 1 = ((i - 1) \div w) * w + ((i - 1) % w)
             /\ m_puiCTUAddrMap[t][i] = [x |-> CTU * (l + ((i - 1) % w)),
                                         y |-> CTU * (u + ((i - 1) \div w))]
  <2>1. w * h \in Int
    BY <1>1
  <2>2. i - 1 \in 0 .. w * h - 1
    BY <2>1
  <2>3. /\ (i - 1) % w \in 0 .. w - 1 /\ (i - 1) \div w \in 0 .. h - 1
        /\ i - 1 = ((i - 1) \div w) * w + ((i - 1) % w)
    BY <2>2, <1>1, TileOf
  <2> DEFINE r == (i - 1) % w
             q == (i - 1) \div w
  <2>4. m_puiCTUAddrMap[t][i] = [x |-> l * CTU + r * CTU, y |-> u * CTU + q * CTU]
    BY <1>2
  <2>5. r \in Int /\ q \in Int
    BY <2>3
  <2> HIDE DEF r, q
  <2>6. l * CTU + r * CTU = CTU * (l + r) /\ u * CTU + q * CTU = CTU * (u + q)
    BY <2>5, <1>1 DEF CTU
  <2>7. m_puiCTUAddrMap[t][i] = [x |-> CTU * (l + r), y |-> CTU * (u + q)]
    BY <2>4, <2>6
  <2> QED BY <2>3, <2>7 DEF r, q
<1>6. ASSUME NEW i \in 1 .. w * h
      PROVE  \E x \in l .. l + w - 1, y \in u .. u + h - 1 :
               m_puiCTUAddrMap[t][i] = [x |-> CTU * x, y |-> CTU * y]
  <2>1. l + ((i - 1) % w) \in l .. l + w - 1 /\ u + ((i - 1) \div w) \in u .. u + h - 1
    BY <1>1, <1>5
  <2> QED BY <1>5, <2>1
<1>7. ASSUME NEW x \in l .. l + w - 1, NEW y \in u .. u + h - 1
      PROVE  \E i \in 1 .. w * h :
               m_puiCTUAddrMap[t][i] = [x |-> CTU * x, y |-> CTU * y]
  <2> DEFINE r == x - l
             q == y - u
             i == (q * w + r) + 1
  <2>1. r \in 0 .. w - 1 /\ q \in 0 .. h - 1
    BY <1>1
  <2> HIDE DEF r, q
  <2>2. /\ q * w + r \in 0 .. w * h - 1
        /\ (q * w + r) % w = r /\ (q * w + r) \div w = q
    BY <2>1, <1>1, TileAt
  <2> DEFINE n == q * w + r
  <2>3. n \in Int /\ w * h \in Int /\ i = n + 1 /\ n \in 0 .. w * h - 1
    BY <2>2, <1>1
  <2> HIDE DEF n, i
  <2>4. i \in 1 .. w * h /\ i - 1 = n
    BY <2>3
  <2>5. (i - 1) % w = r /\ (i - 1) \div w = q
    BY <2>2, <2>4 DEF n
  <2>6. l + r = x /\ u + q = y
    BY <1>1 DEF r, q
  <2>7. m_puiCTUAddrMap[t][i] = [x |-> CTU * (l + r), y |-> CTU * (u + q)]
    BY <1>5, <2>4, <2>5
  <2> QED BY <2>4, <2>6, <2>7
<1>8. ASSUME NEW i \in 1 .. w * h, NEW j \in 1 .. w * h,
             m_puiCTUAddrMap[t][i] = m_puiCTUAddrMap[t][j]
      PROVE  i = j
  <2> DEFINE ri == (i - 1) % w
             qi == (i - 1) \div w
             rj == (j - 1) % w
             qj == (j - 1) \div w
  <2>1. /\ ri \in Int /\ qi \in Int /\ i - 1 = qi * w + ri
        /\ m_puiCTUAddrMap[t][i] = [x |-> CTU * (l + ri), y |-> CTU * (u + qi)]
    BY <1>5
  <2>2. /\ rj \in Int /\ qj \in Int /\ j - 1 = qj * w + rj
        /\ m_puiCTUAddrMap[t][j] = [x |-> CTU * (l + rj), y |-> CTU * (u + qj)]
    BY <1>5
  <2> HIDE DEF ri, qi, rj, qj
  <2>3. CTU * (l + ri) = CTU * (l + rj) /\ CTU * (u + qi) = CTU * (u + qj)
    <3>1. [x |-> CTU * (l + ri), y |-> CTU * (u + qi)]
            = [x |-> CTU * (l + rj), y |-> CTU * (u + qj)]
      BY <1>8, <2>1, <2>2
    <3> QED BY <3>1
  <2>4. ri = rj /\ qi = qj
    BY <2>1, <2>2, <2>3, <1>1 DEF CTU
  <2>5. i - 1 = j - 1
    BY <2>1, <2>2, <2>4
  <2> QED BY <2>5
<1> DEFINE xs == Left(t) .. Right(t) - 1
           ys == Top(t) .. Bottom(t) - 1
           dom == DOMAIN m_puiCTUAddrMap[t]
<1>9. xs = l .. l + w - 1 /\ ys = u .. u + h - 1 /\ dom = 1 .. w * h
  BY <1>3, <1>4
<1> HIDE DEF xs, ys, dom
<1>10. \A i \in dom : \E x \in xs, y \in ys :
         m_puiCTUAddrMap[t][i] = [x |-> CTU * x, y |-> CTU * y]
  BY <1>6, <1>9
<1>11. \A x \in xs, y \in ys : \E i \in dom :
         m_puiCTUAddrMap[t][i] = [x |-> CTU * x, y |-> CTU * y]
  BY <1>7, <1>9
<1>12. \A i, j \in dom : m_puiCTUAddrMap[t][i] = m_puiCTUAddrMap[t][j] => i = j
  BY <1>8, <1>9
<1> QED BY <1>10, <1>11, <1>12 DEF xs, ys, dom

(* The CTU at column x and row y is in exactly one tile. *)
LEMMA OneTile ==
  ASSUME TileInv, step = "ready", NEW x \in 0 .. W - 1, NEW y \in 0 .. H - 1
  PROVE  \E t \in Tiles :
           /\ x \in Left(t) .. Right(t) - 1 /\ y \in Top(t) .. Bottom(t) - 1
           /\ \A s \in Tiles : /\ x \in Left(s) .. Right(s) - 1
                               /\ y \in Top(s) .. Bottom(s) - 1
                               => s = t
<1>1. /\ ArgsOK /\ HasGrid
      /\ W \in Nat \ {0} /\ H \in Nat \ {0}
      /\ Columns \in Nat \ {0} /\ Rows \in Nat \ {0}
  BY DEF TileInv, ArgsOK, GridOK, HasGrid
<1>2. PICK c \in 0 .. Columns - 1 : /\ PartStart(c, W, Columns) <= x
                                    /\ x < PartStart(c + 1, W, Columns)
  BY <1>1, PartOf
<1>3. PICK r \in 0 .. Rows - 1 : /\ PartStart(r, H, Rows) <= y
                                 /\ y < PartStart(r + 1, H, Rows)
  BY <1>1, PartOf
<1> DEFINE t == r * Columns + c
<1>4. t \in Tiles /\ Col(t) = c /\ Row(t) = r
  BY <1>1, TileAtFacts
<1> HIDE DEF t
<1>5. \A s \in Tiles : /\ Left(s) \in Int /\ Right(s) \in Int
                       /\ Top(s) \in Int /\ Bottom(s) \in Int
  BY <1>1, TileFacts
<1>6. x \in Left(t) .. Right(t) - 1 /\ y \in Top(t) .. Bottom(t) - 1
  <2>1. Left(t) <= x /\ x < Right(t) /\ Top(t) <= y /\ y < Bottom(t)
    BY <1>2, <1>3, <1>4 DEF Left, Right, Top, Bottom
  <2> QED BY <2>1, <1>4, <1>5
<1>7. ASSUME NEW s \in Tiles, x \in Left(s) .. Right(s) - 1,
             y \in Top(s) .. Bottom(s) - 1
      PROVE  s = t
  <2>1. Left(s) <= x /\ x < Right(s) /\ Top(s) <= y /\ y < Bottom(s)
    BY <1>5, <1>7
  <2>2. /\ Col(s) \in 0 .. Columns - 1 /\ Row(s) \in 0 .. Rows - 1
        /\ s = Row(s) * Columns + Col(s)
    BY <1>1, TileFacts
  <2>3. Col(s) = c
    <3>1. PartStart(Col(s), W, Columns) <= x /\ x < PartStart(Col(s) + 1, W, Columns)
      BY <2>1 DEF Left, Right
    <3> QED BY <3>1, <2>2, <1>1, <1>2, PartUnique, Col(s) \in Nat, c \in Nat, x \in Int
  <2>4. Row(s) = r
    <3>1. PartStart(Row(s), H, Rows) <= y /\ y < PartStart(Row(s) + 1, H, Rows)
      BY <2>1 DEF Top, Bottom
    <3> QED BY <3>1, <2>2, <1>1, <1>3, PartUnique, Row(s) \in Nat, r \in Nat, y \in Int
  <2> QED BY <2>2, <2>3, <2>4 DEF t
<1> QED BY <1>4, <1>6, <1>7

(***************************************************************************)
(* The tiles partition the frame: every CTU of the frame is compressed by  *)
(* exactly one tile, once, and no tile leaves the frame, for every frame   *)
(* size and every grid that the program accepts.                           *)
(***************************************************************************)
THEOREM TilesPartitionTheFrame == Spec => []EveryCTUOnce
<1> SUFFICES ASSUME TileInv, step = "ready"
             PROVE  /\ \A t \in Tiles : \A i \in DOMAIN m_puiCTUAddrMap[t] :
                         m_puiCTUAddrMap[t][i] \in FramePels
                    /\ \A pel \in FramePels :
                         Cardinality({t \in Tiles :
                            \E i \in DOMAIN m_puiCTUAddrMap[t] :
                              m_puiCTUAddrMap[t][i] = pel}) = 1
                    /\ \A t \in Tiles : \A i, j \in DOMAIN m_puiCTUAddrMap[t] :
                         m_puiCTUAddrMap[t][i] = m_puiCTUAddrMap[t][j] => i = j
  <2>1. TileInv => EveryCTUOnce
    BY DEF EveryCTUOnce
  <2> QED BY <2>1, TileInvariant, PTL
<1> DEFINE Pel(x, y) == [x |-> CTU * x, y |-> CTU * y]
<1>1. FramePels = {Pel(x, y) : x \in 0 .. W - 1, y \in 0 .. H - 1}
  BY DEF FramePels, W, H
<1>2. W \in Nat /\ H \in Nat
  BY DEF TileInv, ArgsOK
<1>3. \A t \in Tiles : /\ Left(t) \in 0 .. W /\ Right(t) \in 0 .. W
                       /\ Top(t) \in 0 .. H /\ Bottom(t) \in 0 .. H
  BY TileFacts DEF TileInv, ArgsOK, GridOK, HasGrid
<1>4. \A t \in Tiles : \A i \in DOMAIN m_puiCTUAddrMap[t] :
        \E x \in Left(t) .. Right(t) - 1, y \in Top(t) .. Bottom(t) - 1 :
          m_puiCTUAddrMap[t][i] = Pel(x, y)
  BY CTUsOfTile
<1>5. \A t \in Tiles :
        \A x \in Left(t) .. Right(t) - 1, y \in Top(t) .. Bottom(t) - 1 :
          \E i \in DOMAIN m_puiCTUAddrMap[t] : m_puiCTUAddrMap[t][i] = Pel(x, y)
  BY CTUsOfTile
<1> HIDE DEF Pel
<1>6. \A t \in Tiles : \A i \in DOMAIN m_puiCTUAddrMap[t] :
        m_puiCTUAddrMap[t][i] \in FramePels
  BY <1>1, <1>2, <1>3, <1>4
<1>7. ASSUME NEW pel \in FramePels
      PROVE  Cardinality({t \in Tiles : \E i \in DOMAIN m_puiCTUAddrMap[t] :
                                          m_puiCTUAddrMap[t][i] = pel}) = 1
  <2>1. PICK x \in 0 .. W - 1, y \in 0 .. H - 1 : pel = Pel(x, y)
    BY <1>1
  <2>2. PICK t \in Tiles :
          /\ x \in Left(t) .. Right(t) - 1 /\ y \in Top(t) .. Bottom(t) - 1
          /\ \A s \in Tiles : /\ x \in Left(s) .. Right(s) - 1
                              /\ y \in Top(s) .. Bottom(s) - 1
                              => s = t
    BY OneTile
  <2> DEFINE Holds(s) == \E i \in DOMAIN m_puiCTUAddrMap[s] :
                           m_puiCTUAddrMap[s][i] = pel
  <2>3. Holds(t)
    BY <1>5, <2>1, <2>2
  <2>4. ASSUME NEW s \in Tiles, Holds(s) PROVE s = t
    <3>1. PICK a \in Left(s) .. Right(s) - 1, b \in Top(s) .. Bottom(s) - 1 :
            pel = Pel(a, b)
      BY <1>4, <2>4
    <3>2. a \in Int /\ b \in Int /\ x \in Int /\ y \in Int
      BY <1>2, <1>3
    <3>3. Pel(a, b) = Pel(x, y)
      BY <2>1, <3>1
    <3>4. a = x /\ b = y
      <4>1. CTU * a = CTU * x /\ CTU * b = CTU * y
        BY <3>3 DEF Pel
      <4> QED BY <3>2, <4>1 DEF CTU
    <3> QED BY <2>2, <3>1, <3>4
  <2> HIDE DEF Holds
  <2>5. {s \in Tiles : Holds(s)} = {t}
    BY <2>3, <2>4
  <2>6. Cardinality({s \in Tiles : Holds(s)}) = 1
    BY <2>5, FS_Singleton
  <2> QED BY <2>6 DEF Holds
<1>8. \A t \in Tiles : \A i, j \in DOMAIN m_puiCTUAddrMap[t] :
        m_puiCTUAddrMap[t][i] = m_puiCTUAddrMap[t][j] => i = j
  BY CTUsOfTile
<1> QED BY <1>6, <1>7, <1>8
================================================================================
