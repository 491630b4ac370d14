------------------------------ MODULE MCFormat -------------------------------
(* Instances of Format for TLC.                                             *)
EXTENDS Format

\* Partitions whose metadata fits the first block of the block bitmap, some
\* with one block of bitmap and some with two.
FittingSizes == 12..44

\* Partitions with more metadata than that.
LargeSizes == 60..64
=============================================================================
