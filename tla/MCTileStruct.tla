----------------------------- MODULE MCTileStruct -----------------------------
(* Options that are no sizes: -2 becomes the largest u32 but one, and two of *)
(* them multiply to 4 in a word of any size.                                 *)
EXTENDS TileStruct

MCGridArgs == {-2, 0, 1, 2, 3, 4, 6}
================================================================================
