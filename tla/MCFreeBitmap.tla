---------------------------- MODULE MCFreeBitmap -----------------------------
(* Instances of FreeBitmap for TLC.                                         *)
EXTENDS FreeBitmap, TLC

ThreadSymmetry == Permutations(Threads)
=============================================================================
