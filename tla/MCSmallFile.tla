----------------------------- MODULE MCSmallFile -----------------------------
(* Instances of SmallFile for TLC.                                          *)
EXTENDS SmallFileStore, TLC

\* Files are interchangeable.
FileSymmetry == Permutations(Files)

\* No block of another user holds anything but zeros.
NoContents == {}

\* A block whose first two words are the block numbers 2 and 1, as the index
\* block of a big file has them.
StaleContents == {[word0 |-> {1}, word1 |-> 1]}
=============================================================================
