---------------------------- MODULE MCSliceStream ----------------------------
(* Codes that end a tile on a byte boundary, behind it and far behind it.  *)
EXTENDS SliceStream

MCLastCodes == {<<5, 0>>, <<8, 255>>, <<12, 0>>}
================================================================================
