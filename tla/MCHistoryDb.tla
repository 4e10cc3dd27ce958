----------------------------- MODULE MCHistoryDb ----------------------------
(* Instances of HistoryDb for TLC.                                          *)
EXTENDS HistoryDb, TLC

Symmetry == Permutations(Toss) \cup Permutations(Tick) \cup Permutations(Id)
=============================================================================
