------------------------------ MODULE SliceStore ------------------------------
(***************************************************************************)
(* What the small-file store promises to its files: places on the disk,    *)
(* each a number of consecutive slices of one block, that belong to one    *)
(* file.  A file is given a place that overlaps nobody's, keeps it until   *)
(* it lets go of it as a whole, and has at most two: the second while it   *)
(* moves.  No bitmap, no list, no block allocation; SmallFileStore.tla     *)
(* shows how write_small_file and delete_slice implement it.               *)
(***************************************************************************)
EXTENDS Integers

CONSTANTS Files, Blocks, Slices

VARIABLES
    files,    \* the files that exist
    places    \* the places of each file: sets of <<block, slice>>

storevars == <<files, places>>

\* What a place can be: consecutive slices of one block.
Run(b, first, last) == {<<b, s>> : s \in first..last}
Runs == {Run(b, r[1], r[2]) : b \in Blocks, r \in {q \in Slices \X Slices : q[1] <= q[2]}}

Taken == UNION {UNION places[f] : f \in Files}

\* The file has a second place.
Moving(f) == \E p, q \in places[f] : p # q

Init == files = {} /\ places = [f \in Files |-> {}]

Create(f) ==
    /\ f \notin files
    /\ files' = files \cup {f}
    /\ UNCHANGED places

\* The file is given a place, its first or the one it moves to.
Claim(f) ==
    /\ f \in files /\ ~Moving(f)
    /\ \E p \in Runs :
         /\ places' = [places EXCEPT ![f] = @ \cup {p}]
         /\ p \cap Taken = {}
    /\ UNCHANGED files

\* The file lets go of one of its places.
Release(f) ==
    /\ \E p \in places[f] : places' = [places EXCEPT ![f] = @ \ {p}]
    /\ UNCHANGED files

\* Deletion ends the file; it has at most one place left.
Delete(f) ==
    /\ f \in files /\ ~Moving(f)
    /\ files' = files \ {f}
    /\ places' = [places EXCEPT ![f] = {}]

Next == \E f \in Files : Create(f) \/ Claim(f) \/ Release(f) \/ Delete(f)

Spec == Init /\ [][Next]_storevars
=============================================================================
