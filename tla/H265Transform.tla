--------------------------- MODULE H265Transform ---------------------------
(***************************************************************************)
(* The transforms and the quantisation of a block, with the widths of the  *)
(* code: every pass stores into i16 what it has shifted.  A block is a     *)
(* sequence of lines.  The 32 point transforms and the smaller ones share  *)
(* their even halves, so that one definition stands for the butterflies of *)
(* 8, 16 and 32 points.  From the standard: what a decoder computes.       *)
(***************************************************************************)
EXTENDS Integers, Sequences

LOG2(n) == CHOOSE l \in 0 .. 6 : 2 ^ l = n          \* LOG2(uiSize-1)
Wrap16(v) == ((v + 32768) % 65536) - 32768          \* stored into an i16
Clip3(lo, hi, v) == IF v < lo THEN lo ELSE IF v > hi THEN hi ELSE v
Clip1(v) == Clip3(0, 255, v)
Abs(v) == IF v < 0 THEN -v ELSE v

Array(s) == s \o <<>>       \* s as a tuple, each element computed once
Line(n, f(_)) == Array([k \in 1 .. n |-> f(k)])
Block(n, f(_, _)) == Line(n, LAMBDA i : Line(n, LAMBDA j : f(i, j)))

-----------------------------------------------------------------------------
(* The tables g_pbT4 to g_pbT32: column 0 of the largest, and the symmetries *)
(* of the cosine.  The table of n points is every 32/n-th line of it.      *)
Cosine == <<64, 90, 90, 90, 89, 88, 87, 85, 83, 82, 80, 78, 75, 73, 70, 67,
            64, 61, 57, 54, 50, 46, 43, 38, 36, 31, 25, 22, 18, 13, 9, 4>>

T32 == Line(32, LAMBDA k : Line(32, LAMBDA j :
         LET a == ((2 * j - 1) * (k - 1)) % 128
             b == IF a > 64 THEN 128 - a ELSE a
         IN  IF b > 32 THEN -Cosine[65 - b] ELSE Cosine[b + 1]))

T(n, k) == T32[(k - 1) * (32 \div n) + 1]   \* its line k, from column n on too long

Sum[s \in Seq(Int)] ==
  LET h == Len(s) \div 2
  IN  IF h = 0 THEN s[1] ELSE Sum[SubSeq(s, 1, h)] + Sum[SubSeq(s, h + 1, Len(s))]

Dot(a, b) == Sum[Line(Len(a), LAMBDA k : a[k] * b[k])]

-----------------------------------------------------------------------------
(* One line of a transform, before rounding. *)

DST4(s) ==
  LET c0 == s[1] + s[4]  c1 == s[2] + s[4]  c2 == s[1] - s[2]  c3 == 74 * s[3]
      c4 == s[1] + s[2] - s[4]
  IN  <<29 * c0 + 55 * c1 + c3, 74 * c4, 29 * c2 + 55 * c0 - c3, 55 * c2 - 29 * c1 + c3>>

DCT4(s) ==
  LET E0 == s[1] + s[4]  E1 == s[2] + s[3]  O0 == s[1] - s[4]  O1 == s[2] - s[3]
  IN  <<64 * E0 + 64 * E1, 83 * O0 + 36 * O1, 64 * E0 - 64 * E1, 36 * O0 - 83 * O1>>

(* The sums of opposite samples go through the transform of half the size,  *)
(* the differences to the odd lines of the table.                          *)
E(s) == Line(Len(s) \div 2, LAMBDA k : s[k] + s[Len(s) + 1 - k])

FromHalf(s, even) ==
  LET n == Len(s)
      h == n \div 2
      O == Line(h, LAMBDA k : s[k] - s[n + 1 - k])
  IN  Line(n, LAMBDA m : IF m % 2 = 1 THEN even[(m + 1) \div 2]
                                     ELSE Dot(O, SubSeq(T(n, m), 1, h)))

DCT8(s)  == FromHalf(s, DCT4(E(s)))
DCT16(s) == FromHalf(s, DCT8(E(s)))
DCT32(s) == FromHalf(s, DCT16(E(s)))

IDST4(s) ==
  LET c0 == s[1] + s[3]  c1 == s[3] + s[4]  c2 == s[1] - s[4]  c3 == 74 * s[2]
      c4 == s[1] - s[3] + s[4]
  IN  <<29 * c0 + 55 * c1 + c3, 55 * c2 - 29 * c1 + c3, 74 * c4, 55 * c0 + 29 * c2 - c3>>

IDCT4(s) ==
  LET O0 == 83 * s[2] + 36 * s[4]  O1 == 36 * s[2] - 83 * s[4]
      E0 == 64 * s[1] + 64 * s[3]  E1 == 64 * s[1] - 64 * s[3]
  IN  <<E0 + O0, E1 + O1, E1 - O1, E0 - O0>>

(* The even coefficients through the inverse of half the size, plus and minus *)
(* what the odd ones contribute.                                           *)
EvenCoeff(s) == Line(Len(s) \div 2, LAMBDA k : s[2 * k - 1])

InverseFromHalf(s, even) ==
  LET n == Len(s)
      h == n \div 2
      odd == Line(h, LAMBDA k : s[2 * k])
      O == Line(h, LAMBDA k : Dot(odd, Line(h, LAMBDA m : T(n, 2 * m)[k])))
  IN  Line(n, LAMBDA k : IF k <= h THEN even[k] + O[k]
                       ELSE even[n + 1 - k] - O[n + 1 - k])

IDCT8(s)  == InverseFromHalf(s, IDCT4(EvenCoeff(s)))
IDCT16(s) == InverseFromHalf(s, IDCT8(EvenCoeff(s)))
IDCT32(s) == InverseFromHalf(s, IDCT16(EvenCoeff(s)))

-----------------------------------------------------------------------------
(* The passes.  DCTN and IDCTN: the transform of a size, the DST or the DCT.  *)

DCTN(s, dst) ==
  CASE Len(s) = 4  -> IF dst THEN DST4(s) ELSE DCT4(s)
    [] Len(s) = 8  -> DCT8(s)
    [] Len(s) = 16 -> DCT16(s)
    [] Len(s) = 32 -> DCT32(s)

IDCTN(s, dst) ==
  CASE Len(s) = 4  -> IF dst THEN IDST4(s) ELSE IDCT4(s)
    [] Len(s) = 8  -> IDCT8(s)
    [] Len(s) = 16 -> IDCT16(s)
    [] Len(s) = 32 -> IDCT32(s)

Round(v, shift) == (v + 2 ^ (shift - 1)) \div 2 ^ shift

(* Faulty variant: the result is stored where it was read, not transposed. *)
DCTPassInPlace(src, dst, shift) ==
  LET raw == Line(Len(src), LAMBDA i : DCTN(src[i], dst))
  IN  Block(Len(src), LAMBDA k, i : Wrap16(Round(raw[k][i], shift)))

(* A pass reads lines and writes columns. *)
DCTPass(src, dst, shift) ==
  LET raw == Line(Len(src), LAMBDA i : DCTN(src[i], dst))
  IN  Block(Len(src), LAMBDA k, i : Wrap16(Round(raw[i][k], shift)))

(* What a pass stores: the i16 has wrapped before Clip3 sees it. *)
Stored(v, shift) == Clip3(-32768, 32767, Wrap16(Round(v, shift)))

(* The inverse reads columns and writes lines. *)
IDCTPass(src, dst, shift) ==
  LET n == Len(src)
      Column(i) == Line(n, LAMBDA j : src[j][i])
      raw == Line(n, LAMBDA i : IDCTN(Column(i), dst))
  IN  Block(n, LAMBDA i, k : Stored(raw[i][k], shift))

-----------------------------------------------------------------------------
(* IS_INTRA of the mode that was passed, and 4x4: only luma passes its mode, *)
(* chroma passes INVALID_MODE.                                             *)
UseDST(n, isLuma) == isLuma /\ n = 4

ResDCT(src, pred, isLuma) ==
  LET n   == Len(src)
      res == Block(n, LAMBDA i, j : src[i][j] - pred[i][j])
      dst == UseDST(n, isLuma)
  IN  DCTPass(DCTPass(res, dst, LOG2(n) - 1), dst, LOG2(n) + 6)

QuantScales    == <<26214, 23302, 20560, 18396, 16384, 14564>>
InvQuantScales == <<40, 45, 51, 57, 64, 72>>
TransShift(n) == 15 - 8 - LOG2(n)

(* The levels; their sum uiQuantSum is zero when all of them are.          *)
Quant(qp, coeff) ==
  LET n == Len(coeff)
      iQBits == 14 + (qp \div 6) + TransShift(n)
      iRound == 171 * 2 ^ (iQBits - 9)
      Level(c) == (Abs(c) * QuantScales[(qp % 6) + 1] + iRound) \div 2 ^ iQBits
  IN  Block(n, LAMBDA i, j :
        LET c == coeff[i][j] IN Clip3(-32768, 32767, IF c < 0 THEN -Level(c) ELSE Level(c)))

InvQuant(qp, level) ==
  LET iShift == 20 - 14 - TransShift(Len(level))
      iScale == InvQuantScales[(qp % 6) + 1] * 2 ^ (qp \div 6)
  IN  Block(Len(level), LAMBDA i, j :
        Clip3(-32768, 32767, Round(level[i][j] * iScale, iShift)))

IDCTRec(coeff, pred, isLuma) ==
  LET dst == UseDST(Len(coeff), isLuma)
      res == IDCTPass(IDCTPass(coeff, dst, 7), dst, 12)
  IN  Block(Len(coeff), LAMBDA i, j : Clip1(res[i][j] + pred[i][j]))

-----------------------------------------------------------------------------
(* The decoder: scaling (8.6.4.2) with the flat factor 16, the columns and    *)
(* then the rows multiplied by the matrix (8.6.4.2), an intermediate clip to *)
(* 16 bits that is made before anything is stored, 8 bit samples.          *)
DSTMatrix == <<<<29, 55, 74, 84>>, <<74, 74, 0, -74>>, <<84, -29, -74, 55>>, <<55, -84, 74, -29>>>>

DecoderScaled(qp, level) ==
  LET bdShift == 8 + LOG2(Len(level)) - 5
  IN  Block(Len(level), LAMBDA i, j :
        Clip3(-32768, 32767,
          (level[i][j] * 16 * (<<40, 45, 51, 57, 64, 72>>[(qp % 6) + 1] * 2 ^ (qp \div 6))
             + 2 ^ (bdShift - 1)) \div 2 ^ bdShift))

DecoderResidual(d, dst) ==
  LET n == Len(d)
      matrix == IF dst THEN DSTMatrix ELSE Line(n, LAMBDA k : SubSeq(T(n, k), 1, n))
      Transposed(m) == Block(n, LAMBDA y, x : m[x][y])
      rows == Transposed(matrix)
      columns == Transposed(d)
      first == Block(n, LAMBDA y, x : Dot(rows[y], columns[x]))
      g == Block(n, LAMBDA y, x : Clip3(-32768, 32767, (first[y][x] + 64) \div 128))
      second == Block(n, LAMBDA y, x : Dot(rows[x], g[y]))
  IN  Block(n, LAMBDA y, x : (second[y][x] + 2048) \div 4096)

DecoderBlock(qp, level, pred, isLuma) ==
  LET r == DecoderResidual(DecoderScaled(qp, level), isLuma /\ Len(level) = 4)
  IN  Block(Len(level), LAMBDA i, j : Clip1(pred[i][j] + r[i][j]))

=============================================================================
