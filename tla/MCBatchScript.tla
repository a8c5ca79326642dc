--------------------------- MODULE MCBatchScript ---------------------------
(***************************************************************************)
(* Four compiles on one, two or three cores, more cores than compiles, and *)
(* NIX_BUILD_CORES unset or zero.                                          *)
(***************************************************************************)
EXTENDS BatchScript

Cores == {-1, 0, 1, 2, 3, 6}
=============================================================================
