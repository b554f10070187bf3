------------------------------- MODULE MCCabac -------------------------------
(* Rows 0, 31 and 62 of the table; bypass bins at and next to the ends of  *)
(* the interval, such that 0xff bytes pile up; remainders of every kind.   *)
EXTENDS Cabac

MCLPSRows    == {<<128, 176, 208, 240>>, <<29, 35, 41, 48>>, <<6, 7, 8, 9>>}
MCBypassBins == {<<1, 1>>, <<1, 8>>, <<257, 16>>, <<65535, 16>>}
MCRemainders == {<<0, 0>>, <<700, 0>>, <<11, 2>>, <<40, 3>>}
================================================================================
