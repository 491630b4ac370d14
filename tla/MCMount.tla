------------------------------- MODULE MCMount -------------------------------
(* Instances of Mount for TLC. *)
EXTENDS Mount, TLC

\* No action tells one file, or one block, from another.
MountSymmetry == Permutations(Files) \cup Permutations(Blocks)
=============================================================================
