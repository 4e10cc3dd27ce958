----------------------------- MODULE MCLockFile -----------------------------
(* Instances of LockFile for TLC: three processes, one inode for each open  *)
(* file and one for the name.                                               *)
EXTENDS LockFile, TLC

\* A process may be killed at any program counter.
Anywhere == Control \ {"dead"}

\* NOWAIT, WAIT and a wait of two seconds.
AllWaits == {NOWAIT, WAIT, 2}

Symmetry == Permutations(Proc) \cup Permutations(Inode)
=============================================================================
