------------------------------ MODULE MCBigFile ------------------------------
(* Instances of BigFile for TLC.                                            *)
EXTENDS BigFile, TLC

\* Files are interchangeable.
FileSymmetry == Permutations(Files)
=============================================================================
