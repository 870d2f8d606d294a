----------------------------- MODULE MCFileLease -----------------------------
(* Instance of FileLease for TLC. *)
EXTENDS FileLease, TLC

CONSTANTS p1, p2, p3

PidSymmetry == Permutations(Pids)
==============================================================================
