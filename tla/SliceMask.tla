------------------------------ MODULE SliceMask ------------------------------
(***************************************************************************)
(* The bit arithmetic of sliced blocks, on words of Width bits: the search *)
(* of get_consequitive_free_slices, one step per round of its loop, the    *)
(* packing of block and slice number into index_block, and the mask with   *)
(* which delete_slice gives the slices back.  SmallFile.tla uses sets of   *)
(* slices and pairs instead; the properties say that these agree.          *)
(***************************************************************************)
EXTENDS Integers, FiniteSetsExt

CONSTANTS
    Width,      \* OUICHEFS_BITMAP_SIZE_BITS: bits of the bitmap, slices per block (32)
    SliceSize,  \* OUICHEFS_SLICE_SIZE
    BlockLimit, \* 1 << 27: block numbers the bits of index_block left for them can hold
    FileSizes,  \* sizes to find room for
    Blocks      \* blocks get_free_block returns

ASSUME WordAssumption ==
    /\ Width \in Nat \ {0, 1} /\ SliceSize \in Nat \ {0} /\ BlockLimit \in Nat \ {0}
    /\ FileSizes \subseteq Nat /\ Blocks \subseteq Nat \ {0}

VARIABLES
    free,       \* the free slices before the call
    file_size,  \* the size asked for
    block,      \* the block searched
    bitmap,     \* the bitmap word
    mask,       \* the mask of the loop
    i,          \* its counter
    slice,      \* slice_to_write
    index,      \* ci->index_block
    pc

vars == <<free, file_size, block, bitmap, mask, i, slice, index, pc>>

(***************************************************************************)
(* A word is the set of its bits that are 1, so that a | b is \cup, a & ~b *)
(* is \ and a = b is equality.  MCSliceMask.tla compares these operators   *)
(* with the arithmetic of integers modulo 2^Width.                         *)
(***************************************************************************)
Bits == 0..(Width - 1)

\* w << n: bits that leave the word are lost.
Shl(w, n) == {b \in Bits : b - n \in w}

\* w - 1: the borrow turns each bit up to the lowest 1; from 0 it turns them all.
Dec(w) == {b \in Bits : b \in w <=> \E c \in w : c < b}

\* What 1U << n may be.  A shift by the full width is undefined: the machine
\* gives 0 or, when it uses the count modulo the width, 1.
OneShl(n) == IF n < Width THEN {{n}} ELSE {{}, {0}}

num_slices == (file_size + SliceSize - 1) \div SliceSize

Init ==
    /\ free \in SUBSET (1..(Width - 1))
    /\ file_size \in FileSizes
    /\ block \in Blocks
    /\ bitmap = free
    /\ mask = {} /\ i = 1 /\ slice = 0 /\ index = 0
    /\ pc = "alloc"
-----------------------------------------------------------------------------
\* allocate_and_init_slice_block turns down numbers above 2^27.
Reject ==
    /\ pc = "alloc" /\ block > BlockLimit
    /\ pc' = "refused"
    /\ UNCHANGED <<free, file_size, block, bitmap, mask, i, slice, index>>

Accept ==
    /\ pc = "alloc" /\ block <= BlockLimit
    /\ pc' = "size"
    /\ UNCHANGED <<free, file_size, block, bitmap, mask, i, slice, index>>

TooLong ==
    /\ pc = "size" /\ file_size > Width * SliceSize
    /\ pc' = "none"
    /\ UNCHANGED <<free, file_size, block, bitmap, mask, i, slice, index>>

\* The first mask: ((1U << num_slices_needed) - 1) << 1.
FirstMask ==
    /\ pc = "size" /\ file_size <= Width * SliceSize
    /\ mask' \in {Shl(Dec(one), 1) : one \in OneShl(num_slices)}
    /\ pc' = "loop"
    /\ UNCHANGED <<free, file_size, block, bitmap, i, slice, index>>

\* Mutant of InLoop: the last position is left out.
InLoopShort == i < Width - num_slices

InLoop == i <= Width - num_slices

Hit ==
    /\ pc = "loop" /\ InLoop /\ bitmap \cup mask = bitmap
    /\ slice' = i
    /\ bitmap' = bitmap \ mask
    /\ pc' = "found"
    /\ UNCHANGED <<free, file_size, block, mask, i, index>>

Miss ==
    /\ pc = "loop" /\ InLoop /\ bitmap \cup mask # bitmap
    /\ mask' = Shl(mask, 1) /\ i' = i + 1
    /\ UNCHANGED <<free, file_size, block, bitmap, slice, index, pc>>

LoopEnds ==
    /\ pc = "loop" /\ ~InLoop
    /\ pc' = "none"
    /\ UNCHANGED <<free, file_size, block, bitmap, mask, i, slice, index>>

\* Mutant of Packed: by the number of slices files can have, not by bits.
PackedBySlices == (block * (Width - 1) + slice) % (BlockLimit * Width)

\* (block_to_write << 5) + slice_to_write, in the bits of index_block.
Packed == (block * Width + slice) % (BlockLimit * Width)

Pack ==
    /\ pc = "found"
    /\ index' = Packed
    /\ pc' = "packed"
    /\ UNCHANGED <<free, file_size, block, bitmap, mask, i, slice>>

GetBno(x) == x \div Width
GetSlice(x) == x % Width

\* Mutant of DeleteMask: one bit too many.
DeleteMaskLong == {Shl(Dec(one), GetSlice(index)) : one \in OneShl(num_slices + 1)}

\* ((1U << num_slices) - 1) << slice_no
DeleteMask == {Shl(Dec(one), GetSlice(index)) : one \in OneShl(num_slices)}

\* delete_slice, which leaves at once when block or num_slices is 0.
Delete ==
    /\ pc = "packed"
    /\ IF GetBno(index) = 0 \/ num_slices = 0
       THEN bitmap' = bitmap
       ELSE \E m \in DeleteMask : bitmap' = bitmap \cup m
    /\ pc' = "deleted"
    /\ UNCHANGED <<free, file_size, block, mask, i, slice, index>>

Next ==
    \/ Reject \/ Accept \/ TooLong \/ FirstMask \/ Hit \/ Miss \/ LoopEnds
    \/ Pack \/ Delete

Spec == Init /\ [][Next]_vars
-----------------------------------------------------------------------------
\* Where SmallFile.tla puts a file of n slices.
Places(n) == {s \in 1..(Width - n) : s..(s + n - 1) \subseteq free}

(* The search finds the first place where the slices fit and clears exactly *)
(* their bits, and gives up only when there is no place, full-width files   *)
(* and empty ones included.                                                 *)
FirstFit ==
    /\ pc = "found" =>
         /\ slice = Min(Places(num_slices))
         /\ bitmap = free \ (slice..(slice + num_slices - 1))
    /\ pc = "none" => (Places(num_slices) = {} /\ bitmap = free)

\* The largest number allocate_and_init_slice_block accepts has one bit too many.
LostNumber == block = BlockLimit

(* delete_slice with what index_block and num_slices say restores the       *)
(* bitmap get_consequitive_free_slices found: bit 0 never becomes free and  *)
(* no neighbour's bit is set.  In block 2^27, and in no other, the slices   *)
(* stay taken: the file seems to have no block.                             *)
DeleteRestores ==
    pc = "deleted" =>
        bitmap = IF LostNumber THEN free \ (slice..(slice + num_slices - 1)) ELSE free

(* "Get the number of the block (27 bits)" (ouichefs.h): block and slice    *)
(* come out of index_block as they went in, for every block number the      *)
(* allocation accepts but the last, which comes out as block 0.             *)
PackingKeepsBlock ==
    pc \in {"packed", "deleted"} =>
        /\ GetSlice(index) = slice
        /\ GetBno(index) = IF LostNumber THEN 0 ELSE block
=============================================================================
