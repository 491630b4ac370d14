------------------------------ MODULE MCFilePos ------------------------------
(* Instances of FilePos for TLC.                                            *)
EXTENDS FilePos
=============================================================================
