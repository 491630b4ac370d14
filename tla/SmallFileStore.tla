---------------------------- MODULE SmallFileStore ----------------------------
(***************************************************************************)
(* The small-file store implements the abstract SliceStore.                *)
(***************************************************************************)
EXTENDS SmallFile

Place(b, S) == IF S = {} THEN {} ELSE {{<<b, s>> : s \in S}}

\* Where a file is according to its inode, and where it was before a move
\* whose old slices delete_slice has not freed yet.
PlacesOf(f) ==
    Place(bno[f], Holds(f)) \cup
    (IF OldExtent # {} /\ req.f = f THEN Place(req.old_bno, OldExtent) ELSE {})

Store == INSTANCE SliceStore WITH
    Blocks <- Block, Slices <- Slice,
    files <- linked, places <- [f \in Files |-> PlacesOf(f)]

(* Seen from outside, write_small_file, its recursion for moves,            *)
(* delete_slice and unlink only ever give a file a place nobody else has,   *)
(* take one of its own places away, or delete it: clearing and restoring    *)
(* index_block, the search, the walk and every failure are invisible.       *)
ImplementsSliceStore == Store!Spec
=============================================================================
