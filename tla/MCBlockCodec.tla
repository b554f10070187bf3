---------------------------- MODULE MCBlockCodec -----------------------------
(* Blocks for TLC: every mode in every size and plane (the largest size for *)
(* some of them, and not for those with an edge filter, which are MCEdges), *)
(* with samples that are noisy, smooth, extreme or an edge.                *)
EXTENDS BlockCodec

Sample(kind, i, j) ==
  CASE kind = 0 -> (((7 * i * i) + (11 * j * j) + (5 * i * j)) % 256)
    [] kind = 1 -> Clip1(30 + 2 * i + 3 * j)
    [] kind = 2 -> IF i + 2 * j > 13 THEN 255 ELSE 0
    [] kind = 3 -> 128 + (IF (i + j) % 2 = 0 THEN 9 ELSE -9)
    [] kind = 4 -> 128

Refs(kind, n) == Line(4 * n + 1, LAMBDA k : Sample(kind, k, k % 5))
Source(kind, n) == Block(n, LAMBDA i, j : Sample(kind, i, j))

(* Neighbours that give candidates of every form.                          *)
Neighbours == <<<<0, 1>>, <<10, 26>>, <<255, 255>>, <<2, 2>>, <<34, 34>>, <<25, 3>>, <<26, 0>>>>
Unit(m, k) ==
  LET nb == Neighbours[((m + k) % 7) + 1] IN <<(m + 9 * k) % 35, nb[1], nb[2], k > 2>>

LumaBlock(n, m, qp) ==
  [luma |-> TRUE, qp |-> qp, refs |-> Refs((m + n) % 5, n), source |-> Source((m + (n \div 4)) % 4, n),
   pus |-> IF n = 4 THEN [k \in 1 .. 4 |-> Unit(m, k - 1)] ELSE <<Unit(m, 0)>>]

ChromaBlock(n, idx, modeL, qp) ==
  [luma |-> FALSE, qp |-> qp, refs |-> Refs((modeL + n) % 5, n),
   source |-> Source((modeL + idx + (n \div 4)) % 4, n), pus |-> <<<<idx, modeL>>>>]

(* Grey blocks without levels, for the candidates: four units of one mode.  *)
ModesOnly(m, left, tops) ==
  [luma |-> TRUE, qp |-> 37, refs |-> Refs(4, 4), source |-> Source(4, 4),
   pus |-> [k \in 1 .. 4 |-> <<m, left, tops[k], left = 10>>]]

MCBlocks ==
  {LumaBlock(n, m, <<1, 22, 37, 51>>[((m + n \div 4) % 4) + 1]) : n \in {4, 8, 16}, m \in Modes}
    \cup {LumaBlock(32, m, 37) : m \in {2, 3, 6, 9, 14, 17, 21, 29, 31}}
    \cup {LumaBlock(32, m, 1) : m \in {0, 8, 11, 18, 25, 27, 34}}
    \cup {ChromaBlock(n, 4, m, <<1, 22, 30, 41>>[((m + n \div 4) % 4) + 1]) : n \in {4, 8, 16}, m \in Modes}
    \cup {ChromaBlock(4, idx, m, 22) : idx \in 0 .. 3, m \in {0, 1, 10, 26, 30}}
    \cup {ModesOnly(m, left, tops) : m \in Modes, left \in {0, 1, 2, 10, 26, 33, 34, NoMode},
                                     tops \in {<<0, 1, 2, 26>>, <<10, 33, 34, NoMode>>}}

(* Blocks of the largest size with an edge filter. *)
MCEdges == {LumaBlock(32, m, qp) : m \in {DC_MODE_IDX, HOR_MODE_IDX, VER_MODE_IDX},
                                   qp \in {1, 22, 32, 37, 51}}

(* QPs for which the tables of chroma QPs differ. *)
MCHighQPs == {ChromaBlock(n, 4, m, 34) : n \in {4, 8}, m \in {0, 1, 10, 26, 30}}
=============================================================================
