----------------------------- MODULE MCAreasBbs -----------------------------
(* An instance of AreasBbs for TLC.                                         *)
EXTENDS AreasBbs, TLC

Programs == Permutations(Prog)
=============================================================================
