------------------------------ MODULE MCOutPkt ------------------------------
(* Instances of OutPkt for TLC. *)
EXTENDS OutPkt, TLC

AllFaults == {"fopen", "fclose", "write"}

Symmetry == Permutations(Key)
=============================================================================
