----------------------------- MODULE MCInputRows -----------------------------
(***************************************************************************)
(* Small instances of InputRows: polls of two blocks (the code has six).   *)
(***************************************************************************)
EXTENDS InputRows

CONSTANTS i1, i2, d1, d2, b1, b2, b3

TwoBlocks   == <<b1, b2>>
ThreeBlocks == <<b1, b2, b3>>
==============================================================================
