-------------------------- MODULE MCRecoveryMessage --------------------------
(* RecoveryMessage for TLC: commands of one kind, and processes, only differ *)
(* in their names.                                                         *)
EXTENDS RecoveryMessage, TLC

Interchangeable == Permutations(Advances) \cup Permutations(Checks) \cup Permutations(Procs)

=============================================================================
