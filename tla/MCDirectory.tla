----------------------------- MODULE MCDirectory -----------------------------
(* Instances of Directory for TLC.                                          *)
EXTENDS Directory, TLC

\* Names are interchangeable.
NameSymmetry == Permutations(Names)

\* All names are shorter than an entry's 28 bytes.
ShortNames == [name \in Names |-> name]
=============================================================================
