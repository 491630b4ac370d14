------------------------------ MODULE SmallFile ------------------------------
(***************************************************************************)
(* The small-file store of ouichefs.  A file of at most one block less one *)
(* slice lives in consecutive slices of a "sliced block"; slice 0 of a     *)
(* sliced block holds a bitmap of its free slices and the number of the    *)
(* next sliced block, and the superblock holds the head of that list.      *)
(*                                                                         *)
(* The handlers (custom_write_iter, write_small_file, delete_slice,        *)
(* ouichefs_open, ouichefs_unlink, ouichefs_create) are modelled on the    *)
(* list's pointers, one step per block they visit.  One handler runs at a  *)
(* time here; FreeBitmap.tla looks at handlers that overlap.               *)
(*                                                                         *)
(* index_block packs a block and a slice number.  It is kept here as the   *)
(* pair (bno, slice_no); SliceMask.tla checks the packing, and OpenTrunc   *)
(* below, which mistakes the packed number for a block number, packs it.   *)
(***************************************************************************)
EXTENDS Integers, FiniteSets, FiniteSetsExt

CONSTANTS
    Files,      \* inodes of regular files
    NrBlocks,   \* nr_blocks of the partition
    Reserved,   \* blocks 0..Reserved-1 hold the superblock, inodes, bitmaps and the root directory
    NrSlices,   \* slices per block, slice 0 included (32 in the code)
    SliceSize,  \* bytes per slice (128 in the code)
    Offsets,    \* file positions a write may start at
    Counts,     \* lengths of writes
    Appends,    \* {FALSE}, or {FALSE, TRUE} if files are also written with O_APPEND
    Faults,     \* which of "EIO", "EFAULT", "ENOMEM" may strike
    Contents,   \* first two words a block of a big file or directory may hold, beside zeros
    MaxOther,   \* bound: blocks taken by directories and big files
    MaxFree,    \* bound: no call starts once nr_free_blocks has reached it
    MaxUsed,    \* bound: no write starts once nr_used_slices has reached it
    MaxSliced   \* bound: no write starts once nr_sliced_blocks has exceeded it

Block == 1..(NrBlocks - 1)
Slice == 1..(NrSlices - 1)          \* the slices a file can own
AllFree == Slice                    \* OUICHEFS_BITMAP_ALL_FREE: bit 0 is never set
BlockSize == NrSlices * SliceSize
ErrBlock == NrBlocks + 1            \* a negative errno stored in a uint32_t block number

ASSUME GeometryAssumption ==
    /\ NrBlocks \in Nat /\ Reserved \in 1..(NrBlocks - 1)
    /\ NrSlices \in Nat \ {0, 1} /\ SliceSize \in Nat \ {0}
\* Block numbers fit the 27 bits of the packing: allocate_and_init_slice_block's
\* refusal of larger ones is in SliceMask.tla.
ASSUME PackingAssumption == NrBlocks <= 134217728
ASSUME InputAssumption ==
    /\ Offsets \subseteq Nat /\ Counts \subseteq Nat
    /\ Appends \subseteq BOOLEAN
    /\ Faults \subseteq {"EIO", "EFAULT", "ENOMEM"}
    /\ Contents \subseteq [word0 : SUBSET Slice, word1 : 0..(NrBlocks - 1)]
    /\ MaxOther \in Nat /\ MaxFree \in Nat /\ MaxUsed \in Nat /\ MaxSliced \in Nat

VARIABLES
    bfree_bitmap,          \* set bits of the block bitmap: the free blocks
    nr_free_blocks,        \* sbi->nr_free_blocks
    s_free_sliced_blocks,  \* sbi->s_free_sliced_blocks: head of the list
    nr_sliced_blocks,      \* sbi->nr_sliced_blocks
    nr_used_slices,        \* sbi->nr_used_slices
    bitmap,                \* first word of a block: the free slices of a sliced block
    next,                  \* second word of a block: NEXT of a sliced block
    data,                  \* whose bytes are in each slice of a block
    linked,                \* files that exist
    bno,                   \* block half of ci->index_block (0: nothing written)
    slice_no,              \* slice half of ci->index_block
    num_slices,            \* ci->num_slices
    i_size,                \* inode->i_size
    other,                 \* blocks of metadata, directories and big files
    pc,                    \* where the running handler is
    req,                   \* the running handler's arguments and locals
    cur,                   \* bh_data / bh: the block it looks at
    prev,                  \* bh_prev of the walk in delete_slice
    oops                   \* a handler dereferenced a NULL buffer head

sbvars == <<bfree_bitmap, nr_free_blocks, s_free_sliced_blocks, nr_sliced_blocks, nr_used_slices>>
blockvars == <<bitmap, next, data>>
inodevars == <<linked, bno, slice_no, num_slices, i_size>>
callvars == <<pc, req, cur, prev>>
vars == <<sbvars, blockvars, inodevars, other, callvars, oops>>
-----------------------------------------------------------------------------
(* Sizes, packing and the bitmaps *)

MaxOf(a, b) == IF a >= b THEN a ELSE b

\* DIV_ROUND_UP(size, OUICHEFS_SLICE_SIZE)
NumSlices(size) == (size + SliceSize - 1) \div SliceSize

will_be_small(size) == size <= BlockSize - SliceSize

\* The number ci->index_block holds for a small file.
IndexBlock(f) == bno[f] * NrSlices + slice_no[f]

\* The bitmap word of a sliced block read as a number.
BitmapWord(bits) == MapThenSumSet(LAMBDA i : 2^i, bits)

\* find_first_bit over the block bitmap; the search stops before nr_blocks.
IsFirstFree(b) ==
    /\ b \in bfree_bitmap /\ b < NrBlocks
    /\ \A c \in bfree_bitmap : b <= c

\* get_free_block returns a block: bit 0, were it ever set, reads as failure.
CanAlloc(b) == IsFirstFree(b) /\ b # 0
NoFreeBlock == \A b \in Block : ~CanAlloc(b)

\* put_block accepts numbers up to and including nr_blocks, and counts a block
\* whether or not its bit was set already.
Puts(b) == {b} \cap (0..NrBlocks)
Counted(b) == IF b \in 0..NrBlocks THEN 1 ELSE 0

\* Mutant of PutBlock: the counter is forgotten.
PutBlockUncounted(b) ==
    /\ bfree_bitmap' = bfree_bitmap \cup Puts(b)
    /\ UNCHANGED nr_free_blocks

PutBlock(b) ==
    /\ bfree_bitmap' = bfree_bitmap \cup Puts(b)
    /\ nr_free_blocks' = nr_free_blocks + Counted(b)

\* sb_bread: fails for blocks outside the device, and on I/O errors.
Readable(b) == b < NrBlocks
MayFail(b) == b >= NrBlocks \/ "EIO" \in Faults

\* The places where num free slices in a row start.
Fits(bits, num) == {i \in 1..(NrSlices - num) : i..(i + num - 1) \subseteq bits}

\* get_consequitive_free_slices: the first fit, or none.
IsSlot(bits, size, i) ==
    /\ size <= BlockSize
    /\ i \in Fits(bits, NumSlices(size))
    /\ \A j \in Fits(bits, NumSlices(size)) : i <= j

NoSlot(bits, size) == size > BlockSize \/ Fits(bits, NumSlices(size)) = {}

\* The slices that bytes pos..pos+count-1 of a file starting at slice s touch.
Touched(s, pos, count) ==
    IF count = 0 THEN {}
    ELSE (s + pos \div SliceSize)..(s + (pos + count - 1) \div SliceSize)

\* copy_from_iter into block b: bytes of the files in tags arrive in slices S.
CopyIn(b, S, tags) ==
    [data EXCEPT ![b] = [s \in Slice |-> IF s \in S THEN @[s] \cup tags ELSE @[s]]]

\* The slices of file f.
ExtentOf(f) == IF bno[f] = 0 THEN {} ELSE slice_no[f]..(slice_no[f] + num_slices[f] - 1)

\* Blocks that are neither free nor used otherwise: the sliced blocks.
Sliced == Block \ (bfree_bitmap \cup other)
-----------------------------------------------------------------------------
NoReq == [op |-> "none"]

(* The locals of a running handler: the file, and for a write the size to  *)
(* find room for, the bytes to copy (pos, count, from user space or from a *)
(* kernel buffer, and whose bytes they are), whether it moves a file that  *)
(* has slices already, and the old_... locals describing those.            *)
Req == [op : {"write", "unlink"}, f : Files,
        size : Nat, pos : Nat, count : Nat, user : BOOLEAN,
        tags : SUBSET (Files \cup {"stale"}), move : BOOLEAN,
        old_bno : 0..(NrBlocks - 1), old_slice_no : 0..(NrSlices - 1),
        old_num_slices : Nat, old_size : Nat]

SbTypeOK ==
    /\ bfree_bitmap \subseteq 0..NrBlocks
    /\ nr_free_blocks \in Int
    /\ s_free_sliced_blocks \in 0..ErrBlock
    /\ nr_sliced_blocks \in Int
    /\ nr_used_slices \in Int

BlockTypeOK ==
    /\ bitmap \in [Block -> SUBSET Slice]
    /\ next \in [Block -> 0..(NrBlocks - 1)]
    /\ data \in [Block -> [Slice -> SUBSET (Files \cup {"stale"})]]

InodeTypeOK ==
    /\ linked \subseteq Files
    /\ bno \in [Files -> 0..(NrBlocks - 1)]
    /\ slice_no \in [Files -> 0..(NrSlices - 1)]
    /\ num_slices \in [Files -> Nat]
    /\ i_size \in [Files -> Nat]

CallTypeOK ==
    /\ pc \in {"idle", "start", "scan", "free", "walk"}
    /\ IF pc = "idle" THEN req = NoReq ELSE req \in Req
    /\ cur \in 0..ErrBlock
    /\ pc = "scan" => cur \in Block
    /\ prev \in 0..(NrBlocks - 1)

(* put_block's range check keeps the bitmap within its bits, and no handler *)
(* but delete_slice's walk ever looks at a block outside the device.        *)
TypeOK ==
    /\ SbTypeOK /\ BlockTypeOK /\ InodeTypeOK /\ CallTypeOK
    /\ other \subseteq Block /\ oops \in BOOLEAN

\* A freshly made file system on a zeroed image.
Init ==
    /\ bfree_bitmap = Reserved..(NrBlocks - 1)
    /\ nr_free_blocks = NrBlocks - Reserved
    /\ s_free_sliced_blocks = 0 /\ nr_sliced_blocks = 0 /\ nr_used_slices = 0
    /\ bitmap = [b \in Block |-> {}]
    /\ next = [b \in Block |-> 0]
    /\ data = [b \in Block |-> [s \in Slice |-> {}]]
    /\ linked = {}
    /\ bno = [f \in Files |-> 0] /\ slice_no = [f \in Files |-> 0]
    /\ num_slices = [f \in Files |-> 0] /\ i_size = [f \in Files |-> 0]
    /\ other = 1..(Reserved - 1)
    /\ pc = "idle" /\ req = NoReq /\ cur = 0 /\ prev = 0
    /\ oops = FALSE
-----------------------------------------------------------------------------
(* custom_write_iter and the first half of write_small_file *)

\* Leaving a handler: its locals are gone.
Return == pc' = "idle" /\ req' = NoReq /\ cur' = 0 /\ prev' = 0

\* ouichefs_create: ouichefs_new_inode refuses when the block counter is zero.
Create(f) ==
    /\ pc = "idle" /\ f \notin linked
    /\ nr_free_blocks # 0
    /\ linked' = linked \cup {f}
    /\ bno' = [bno EXCEPT ![f] = 0] /\ slice_no' = [slice_no EXCEPT ![f] = 0]
    /\ num_slices' = [num_slices EXCEPT ![f] = 0] /\ i_size' = [i_size EXCEPT ![f] = 0]
    /\ UNCHANGED <<sbvars, blockvars, other, callvars, oops>>

\* A write starts at ki_pos or, with O_APPEND, at the end of the file...
StartsAt(f, ki_pos, append) == IF append THEN i_size[f] ELSE ki_pos

NewSize(f, pos, count) == MaxOf(pos + count, i_size[f])

\* ...but custom_write_iter chooses between small and big by ki_pos alone.
MayWrite(f, ki_pos, count) ==
    /\ pc = "idle" /\ f \in linked
    /\ will_be_small(NewSize(f, ki_pos, count))
    /\ nr_free_blocks < MaxFree /\ nr_used_slices < MaxUsed /\ nr_sliced_blocks <= MaxSliced

WriteReq(f, size, pos, count, user, tags, move) ==
    [op |-> "write", f |-> f, size |-> size, pos |-> pos, count |-> count,
     user |-> user, tags |-> tags, move |-> move,
     old_bno |-> bno[f], old_slice_no |-> slice_no[f],
     old_num_slices |-> num_slices[f], old_size |-> i_size[f]]

\* First write: look for room from the head of the list.
WriteNew(f, ki_pos, count, append) ==
    LET pos == StartsAt(f, ki_pos, append)
        size == NewSize(f, pos, count)
    IN /\ MayWrite(f, ki_pos, count) /\ bno[f] = 0
       /\ req' = WriteReq(f, size, pos, count, TRUE, {f}, FALSE)
       /\ pc' = "start"
       /\ UNCHANGED <<sbvars, blockvars, inodevars, other, cur, prev, oops>>

\* "num_slices is 0, this should never be the case here!", and the sb_bread
\* of the file's block: -EIO, nothing changes.
WriteRefused(f, ki_pos, count) ==
    /\ MayWrite(f, ki_pos, count) /\ bno[f] # 0
    /\ num_slices[f] = 0 \/ slice_no[f] = 0 \/ MayFail(bno[f])
    /\ UNCHANGED vars

\* The file keeps its number of slices and is written where it is.  Its
\* slices are added to nr_used_slices once more.
WriteInPlace(f, ki_pos, count, append) ==
    LET pos == StartsAt(f, ki_pos, append)
        size == NewSize(f, pos, count)
    IN /\ MayWrite(f, ki_pos, count) /\ bno[f] # 0
       /\ num_slices[f] # 0 /\ num_slices[f] = NumSlices(size)
       /\ data' = CopyIn(bno[f], Touched(slice_no[f], pos, count), {f})
       /\ nr_used_slices' = nr_used_slices + NumSlices(size)
       /\ i_size' = [i_size EXCEPT ![f] = size]
       /\ UNCHANGED <<bfree_bitmap, nr_free_blocks, s_free_sliced_blocks, nr_sliced_blocks,
                      bitmap, next, linked, bno, slice_no, num_slices, other, callvars, oops>>

\* copy_from_iter falls short: only the first bytes, or none, have arrived.
WriteInPlaceFault(f, ki_pos, count, append) ==
    LET pos == StartsAt(f, ki_pos, append)
        size == NewSize(f, pos, count)
    IN /\ "EFAULT" \in Faults /\ count > 0
       /\ MayWrite(f, ki_pos, count) /\ bno[f] # 0
       /\ num_slices[f] # 0 /\ num_slices[f] = NumSlices(size)
       /\ \E copied \in 0..(count - 1) :
            data' = CopyIn(bno[f], Touched(slice_no[f], pos, copied), {f})
       /\ UNCHANGED <<sbvars, bitmap, next, inodevars, other, callvars, oops>>

\* Whose bytes the first size bytes of file f are.
TagsOf(f, size) ==
    UNION {data[bno[f]][s] : s \in Touched(slice_no[f], 0, size) \cap Slice}

\* The number of slices changes: index_block and i_size are cleared and
\* write_small_file calls itself, with the caller's bytes if pos is 0, else
\* with a buffer of old content, zeroed gap and new bytes.
WriteMove(f, ki_pos, count, append) ==
    LET pos == StartsAt(f, ki_pos, append)
        size == NewSize(f, pos, count)
    IN /\ MayWrite(f, ki_pos, count) /\ bno[f] # 0
       /\ num_slices[f] # 0 /\ num_slices[f] # NumSlices(size)
       /\ req' = IF pos = 0
                 THEN WriteReq(f, count, 0, count, TRUE, {f}, TRUE)
                 ELSE WriteReq(f, size, 0, size, FALSE, {f} \cup TagsOf(f, i_size[f]), TRUE)
       /\ bno' = [bno EXCEPT ![f] = 0] /\ slice_no' = [slice_no EXCEPT ![f] = 0]
       /\ i_size' = [i_size EXCEPT ![f] = 0]
       /\ pc' = "start"
       /\ UNCHANGED <<sbvars, blockvars, linked, num_slices, other, cur, prev, oops>>

\* kmalloc or the copy into the buffer fails: "goto out" leaves the inode
\* cleared, the file's slices are lost.
WriteMoveLost(f, ki_pos, count, append) ==
    LET pos == StartsAt(f, ki_pos, append)
        size == NewSize(f, pos, count)
    IN /\ "ENOMEM" \in Faults \/ ("EFAULT" \in Faults /\ count > 0)
       /\ MayWrite(f, ki_pos, count) /\ bno[f] # 0 /\ pos # 0
       /\ num_slices[f] # 0 /\ num_slices[f] # NumSlices(size)
       /\ bno' = [bno EXCEPT ![f] = 0] /\ slice_no' = [slice_no EXCEPT ![f] = 0]
       /\ i_size' = [i_size EXCEPT ![f] = 0]
       /\ UNCHANGED <<sbvars, blockvars, linked, num_slices, other, callvars, oops>>
-----------------------------------------------------------------------------
(* write_small_file: finding room, from the head of the list on *)

\* Mutant of FailWrite: i_size is not given back.
FailWriteKeepsSize ==
    /\ Return
    /\ IF req.move
       THEN /\ bno' = [bno EXCEPT ![req.f] = req.old_bno]
            /\ slice_no' = [slice_no EXCEPT ![req.f] = req.old_slice_no]
       ELSE UNCHANGED <<bno, slice_no>>
    /\ UNCHANGED i_size

\* The write returns an error (or 0): a file being moved gets its index_block
\* and i_size back, not its num_slices.
FailWrite ==
    /\ Return
    /\ IF req.move
       THEN /\ bno' = [bno EXCEPT ![req.f] = req.old_bno]
            /\ slice_no' = [slice_no EXCEPT ![req.f] = req.old_slice_no]
            /\ i_size' = [i_size EXCEPT ![req.f] = req.old_size]
       ELSE UNCHANGED <<bno, slice_no, i_size>>

\* get_free_block and init_slice_block: only the bitmap word is set, NEXT and
\* the rest of the block stay as they are.
TakeSliceBlock(b) ==
    /\ CanAlloc(b)
    /\ bfree_bitmap' = bfree_bitmap \ {b}
    /\ nr_free_blocks' = nr_free_blocks - 1
    /\ nr_sliced_blocks' = nr_sliced_blocks + 1
    /\ bitmap' = [bitmap EXCEPT ![b] = AllFree]

\* allocate_and_init_slice_block without a free block: put_block(sbi, 0).
PutBlockZero == NoFreeBlock /\ PutBlock(0)

\* The garbage block number becomes the head, and the NULL buffer is read.
Oops ==
    /\ s_free_sliced_blocks' = ErrBlock
    /\ oops' = TRUE
    /\ Return

StartAtHead ==
    /\ pc = "start" /\ s_free_sliced_blocks # 0 /\ Readable(s_free_sliced_blocks)
    /\ cur' = s_free_sliced_blocks /\ pc' = "scan"
    /\ UNCHANGED <<sbvars, blockvars, inodevars, other, req, prev, oops>>

StartReadError ==
    /\ pc = "start" /\ s_free_sliced_blocks # 0 /\ MayFail(s_free_sliced_blocks)
    /\ FailWrite
    /\ UNCHANGED <<sbvars, blockvars, linked, num_slices, other, oops>>

StartAlloc ==
    /\ pc = "start" /\ s_free_sliced_blocks = 0
    /\ \E b \in Block :
         /\ TakeSliceBlock(b)
         /\ s_free_sliced_blocks' = b /\ cur' = b
    /\ pc' = "scan"
    /\ UNCHANGED <<nr_used_slices, next, data, inodevars, other, req, prev, oops>>

\* A uint32_t is never negative: the errors of the first allocation pass the
\* test "block_to_write <= 0".
StartNoSpace ==
    /\ pc = "start" /\ s_free_sliced_blocks = 0
    /\ PutBlockZero
    /\ Oops
    /\ UNCHANGED <<nr_sliced_blocks, nr_used_slices, blockvars, inodevars, other>>

StartInitError ==
    /\ pc = "start" /\ s_free_sliced_blocks = 0
    /\ "EIO" \in Faults /\ ~NoFreeBlock
    /\ Oops
    /\ UNCHANGED <<bfree_bitmap, nr_free_blocks, nr_sliced_blocks, nr_used_slices,
                   blockvars, inodevars, other>>

\* The block under scan has the first room for the file at slice i.
FoundAt(i) == pc = "scan" /\ IsSlot(bitmap[cur], req.size, i)
NoRoom == pc = "scan" /\ NoSlot(bitmap[cur], req.size)

ClaimSlices(i) ==
    /\ bitmap' = [bitmap EXCEPT ![cur] = @ \ (i..(i + NumSlices(req.size) - 1))]
    /\ num_slices' = [num_slices EXCEPT ![req.f] = NumSlices(req.size)]

\* Mutant of CountSlices: the slices of a moved file are not counted.
CountNewFilesOnly ==
    nr_used_slices' = nr_used_slices + (IF req.move THEN 0 ELSE NumSlices(req.size))

CountSlices == nr_used_slices' = nr_used_slices + NumSlices(req.size)

\* Room found: claim it, copy, set the inode.  A move goes on to free the old
\* slices.
ScanHit(i) ==
    /\ FoundAt(i)
    /\ req.count > 0 \/ ~req.move
    /\ ClaimSlices(i)
    /\ data' = CopyIn(cur, Touched(i, req.pos, req.count), req.tags)
    /\ CountSlices
    /\ i_size' = [i_size EXCEPT ![req.f] = req.size]
    /\ bno' = [bno EXCEPT ![req.f] = cur]
    /\ slice_no' = [slice_no EXCEPT ![req.f] = i]
    /\ IF req.move
       THEN pc' = "free" /\ cur' = 0 /\ UNCHANGED <<req, prev>>
       ELSE Return
    /\ UNCHANGED <<bfree_bitmap, nr_free_blocks, s_free_sliced_blocks, nr_sliced_blocks,
                   next, linked, other, oops>>

\* A move of no bytes returns 0, which the caller takes for a failure.
ScanHitNothing(i) ==
    /\ FoundAt(i)
    /\ req.count = 0 /\ req.move
    /\ ClaimSlices(i)
    /\ CountSlices
    /\ FailWrite
    /\ UNCHANGED <<bfree_bitmap, nr_free_blocks, s_free_sliced_blocks, nr_sliced_blocks,
                   next, data, linked, other, oops>>

\* The slices are claimed before the copy, and stay claimed if it faults.
ScanFault(i) ==
    /\ FoundAt(i)
    /\ "EFAULT" \in Faults /\ req.user /\ req.count > 0
    /\ ClaimSlices(i)
    /\ \E copied \in 0..(req.count - 1) :
         data' = CopyIn(cur, Touched(i, req.pos, copied), req.tags)
    /\ FailWrite
    /\ UNCHANGED <<sbvars, next, linked, other, oops>>

\* Mutant of ScanNext: the end of the list is not tested.
ScanNextPast ==
    /\ NoRoom
    /\ cur' = next[cur]
    /\ UNCHANGED <<sbvars, blockvars, inodevars, other, pc, req, prev, oops>>

ScanNext ==
    /\ NoRoom /\ next[cur] # 0
    /\ cur' = next[cur]
    /\ UNCHANGED <<sbvars, blockvars, inodevars, other, pc, req, prev, oops>>

ScanReadError ==
    /\ NoRoom /\ next[cur] # 0 /\ MayFail(next[cur])
    /\ FailWrite
    /\ UNCHANGED <<sbvars, blockvars, linked, num_slices, other, oops>>

\* End of the list: append a new sliced block and look there.
ScanAlloc ==
    /\ NoRoom /\ next[cur] = 0
    /\ \E b \in Block :
         /\ TakeSliceBlock(b)
         /\ next' = [next EXCEPT ![cur] = b] /\ cur' = b
    /\ UNCHANGED <<s_free_sliced_blocks, nr_used_slices, data, inodevars, other,
                   pc, req, prev, oops>>

ScanNoSpace ==
    /\ NoRoom /\ next[cur] = 0
    /\ PutBlockZero
    /\ FailWrite
    /\ UNCHANGED <<s_free_sliced_blocks, nr_sliced_blocks, nr_used_slices, blockvars,
                   linked, num_slices, other, oops>>

ScanInitError ==
    /\ NoRoom /\ next[cur] = 0
    /\ "EIO" \in Faults /\ ~NoFreeBlock
    /\ FailWrite
    /\ UNCHANGED <<sbvars, blockvars, linked, num_slices, other, oops>>
-----------------------------------------------------------------------------
(* delete_slice, called by write_small_file after a move and by unlink *)

Unlink(f) ==
    /\ pc = "idle" /\ f \in linked
    /\ req' = [WriteReq(f, 0, 0, 0, FALSE, {}, FALSE) EXCEPT !.op = "unlink"]
    /\ pc' = "free"
    /\ UNCHANGED <<sbvars, blockvars, inodevars, other, cur, prev, oops>>

\* Back in the caller.  Neither looks at the result: a move is complete, an
\* unlinked inode is cleared and freed.
DeleteReturns ==
    /\ Return
    /\ IF req.op = "unlink"
       THEN /\ linked' = linked \ {req.f}
            /\ bno' = [bno EXCEPT ![req.f] = 0] /\ slice_no' = [slice_no EXCEPT ![req.f] = 0]
            /\ i_size' = [i_size EXCEPT ![req.f] = 0]
       ELSE UNCHANGED <<linked, bno, slice_no, i_size>>
    /\ UNCHANGED num_slices

\* bno or num_slices is 0, or the block cannot be read: nothing is freed.
FreeNothing ==
    /\ pc = "free"
    /\ req.old_bno = 0 \/ req.old_num_slices = 0 \/ MayFail(req.old_bno)
    /\ DeleteReturns
    /\ UNCHANGED <<sbvars, blockvars, other, oops>>

\* Mutants of OldSlices: the mask is one bit too long, or one too short.
OldSlicesLong == (req.old_slice_no..(req.old_slice_no + req.old_num_slices)) \cap Slice
OldSlicesShort == (req.old_slice_no..(req.old_slice_no + req.old_num_slices - 2)) \cap Slice

\* The bits of delete_slice's mask.
OldSlices == (req.old_slice_no..(req.old_slice_no + req.old_num_slices - 1)) \cap Slice

\* Mutant of ZeroOldSlices: the memset is forgotten.
ZeroNothing == UNCHANGED data

ZeroOldSlices ==
    data' = [data EXCEPT ![req.old_bno] =
              [s \in Slice |-> IF s \in OldSlices THEN {} ELSE @[s]]]

\* Mutant of WalkFrom: the walk leaves out the head of the list.
WalkFromSecond ==
    IF s_free_sliced_blocks \in Block THEN next[s_free_sliced_blocks] ELSE s_free_sliced_blocks

WalkFrom == s_free_sliced_blocks

\* Set the bits, zero the slices, and start the walk for empty blocks.
FreeSlices ==
    /\ pc = "free" /\ req.old_bno # 0 /\ req.old_num_slices # 0
    /\ bitmap' = [bitmap EXCEPT ![req.old_bno] = @ \cup OldSlices]
    /\ ZeroOldSlices
    /\ nr_used_slices' = nr_used_slices - req.old_num_slices
    /\ cur' = WalkFrom /\ prev' = 0 /\ pc' = "walk"
    /\ UNCHANGED <<bfree_bitmap, nr_free_blocks, s_free_sliced_blocks, nr_sliced_blocks,
                   next, inodevars, other, req, oops>>

WalkEnd ==
    /\ pc = "walk" /\ cur = 0
    /\ DeleteReturns
    /\ UNCHANGED <<sbvars, blockvars, other, oops>>

WalkReadError ==
    /\ pc = "walk" /\ cur # 0 /\ MayFail(cur)
    /\ DeleteReturns
    /\ UNCHANGED <<sbvars, blockvars, other, oops>>

\* Mutant of Unchain: the previous block keeps pointing at the freed one.
UnchainHeadOnly ==
    /\ s_free_sliced_blocks' = IF prev # 0 THEN s_free_sliced_blocks ELSE next[cur]
    /\ next' = [next EXCEPT ![cur] = 0]

\* Repoint the previous block or the head, and scrub the word in the block.
Unchain ==
    IF prev # 0
    THEN /\ next' = [[next EXCEPT ![prev] = next[cur]] EXCEPT ![cur] = 0]
         /\ UNCHANGED s_free_sliced_blocks
    ELSE /\ s_free_sliced_blocks' = next[cur]
         /\ next' = [next EXCEPT ![cur] = 0]

\* An empty block leaves the list, is scrubbed and is put back.
WalkFree ==
    /\ pc = "walk" /\ cur # 0 /\ Readable(cur) /\ bitmap[cur] = AllFree
    /\ Unchain
    /\ bitmap' = [bitmap EXCEPT ![cur] = {}]
    /\ data' = [data EXCEPT ![cur] = [s \in Slice |-> {}]]
    /\ nr_sliced_blocks' = nr_sliced_blocks - 1
    /\ PutBlock(cur)
    /\ cur' = next[cur]
    /\ UNCHANGED <<nr_used_slices, inodevars, other, pc, req, prev, oops>>

\* Mutant of WalkKeep: the walk does not move on.
WalkKeepStays ==
    /\ pc = "walk" /\ cur # 0 /\ Readable(cur) /\ bitmap[cur] # AllFree
    /\ prev' = cur
    /\ UNCHANGED <<sbvars, blockvars, inodevars, other, pc, req, cur, oops>>

WalkKeep ==
    /\ pc = "walk" /\ cur # 0 /\ Readable(cur) /\ bitmap[cur] # AllFree
    /\ prev' = cur /\ cur' = next[cur]
    /\ UNCHANGED <<sbvars, blockvars, inodevars, other, pc, req, oops>>
-----------------------------------------------------------------------------
(* ouichefs_open with O_TRUNC, which takes every file for a big one *)

\* The packed number is no block of the device: -EIO.
OpenTruncError(f) ==
    /\ pc = "idle" /\ f \in linked /\ i_size[f] # 0
    /\ MayFail(IndexBlock(f))
    /\ UNCHANGED vars

\* The words that may follow two that are not zero, up to the first zero.
LaterWords(w) == IF w = 0 \/ Contents = {} THEN {{}} ELSE SUBSET (1..NrBlocks)

\* The words at the start of the block read by mistake, up to the first zero,
\* are put_block'ed and zeroed; i_size is reset.  data says whose bytes a slice
\* may hold, and keeps the marks of the bytes this zeroes.
OpenTrunc(f) ==
    LET b == IndexBlock(f)
        word0 == BitmapWord(bitmap[b])
    IN /\ pc = "idle" /\ f \in linked /\ i_size[f] # 0
       /\ nr_free_blocks < MaxFree
       /\ b \in Block
       /\ IF word0 = 0
          THEN UNCHANGED <<bfree_bitmap, nr_free_blocks, bitmap, next>>
          ELSE /\ \E more \in LaterWords(next[b]) :
                    /\ bfree_bitmap' = bfree_bitmap \cup Puts(word0) \cup ({next[b]} \ {0}) \cup more
                    /\ nr_free_blocks' = nr_free_blocks + Counted(word0)
                                          + (IF next[b] # 0 THEN 1 ELSE 0) + Cardinality(more)
               /\ bitmap' = [bitmap EXCEPT ![b] = {}]
               /\ next' = [next EXCEPT ![b] = 0]
       /\ i_size' = [i_size EXCEPT ![f] = 0]
       /\ UNCHANGED <<s_free_sliced_blocks, nr_sliced_blocks, nr_used_slices, data, linked,
                      bno, slice_no, num_slices, other, callvars, oops>>
-----------------------------------------------------------------------------
(* Blocks of big files and directories: write_big_file, mkdir, their unlink *)
(* and truncation.                                                          *)

SetContent(b, c, tags) ==
    /\ bitmap' = [bitmap EXCEPT ![b] = c.word0]
    /\ next' = [next EXCEPT ![b] = c.word1]
    /\ data' = [data EXCEPT ![b] = [s \in Slice |-> tags]]

ZeroContent == [word0 |-> {}, word1 |-> 0]

OtherAlloc(b, c) ==
    /\ pc = "idle" /\ Cardinality(other) < Reserved - 1 + MaxOther
    /\ CanAlloc(b)
    /\ bfree_bitmap' = bfree_bitmap \ {b} /\ nr_free_blocks' = nr_free_blocks - 1
    /\ SetContent(b, c, IF c = ZeroContent THEN {} ELSE {"stale"})
    /\ other' = other \cup {b}
    /\ UNCHANGED <<s_free_sliced_blocks, nr_sliced_blocks, nr_used_slices, inodevars,
                   callvars, oops>>

\* get_free_block finds nothing, or finds bit 0, clears it and returns 0.
OtherAllocFails ==
    /\ pc = "idle" /\ NoFreeBlock
    /\ bfree_bitmap' = bfree_bitmap \ {0}
    /\ UNCHANGED <<nr_free_blocks, s_free_sliced_blocks, nr_sliced_blocks, nr_used_slices,
                   blockvars, inodevars, other, callvars, oops>>

\* unlink and rmdir scrub a block before they put it back...
OtherUnlink(b) ==
    /\ pc = "idle" /\ b \in other /\ b >= Reserved
    /\ PutBlock(b)
    /\ SetContent(b, ZeroContent, {})
    /\ other' = other \ {b}
    /\ UNCHANGED <<s_free_sliced_blocks, nr_sliced_blocks, nr_used_slices, inodevars,
                   callvars, oops>>

\* ...truncation does not.
OtherTruncate(b) ==
    /\ pc = "idle" /\ b \in other /\ b >= Reserved
    /\ PutBlock(b)
    /\ other' = other \ {b}
    /\ UNCHANGED <<s_free_sliced_blocks, nr_sliced_blocks, nr_used_slices, blockvars,
                   inodevars, callvars, oops>>
-----------------------------------------------------------------------------
Call ==
    \/ \E f \in Files : Create(f)
    \/ \E f \in Files, ki_pos \in Offsets, count \in Counts :
         \/ WriteRefused(f, ki_pos, count)
         \/ \E append \in Appends :
              \/ WriteNew(f, ki_pos, count, append)
              \/ WriteInPlace(f, ki_pos, count, append)
              \/ WriteInPlaceFault(f, ki_pos, count, append)
              \/ WriteMove(f, ki_pos, count, append)
              \/ WriteMoveLost(f, ki_pos, count, append)
    \/ \E f \in Files : Unlink(f) \/ OpenTrunc(f) \/ OpenTruncError(f)
    \/ \E b \in Block, c \in Contents \cup {ZeroContent} : OtherAlloc(b, c)
    \/ OtherAllocFails
    \/ \E b \in Block : OtherUnlink(b) \/ OtherTruncate(b)

\* The steps of a handler that is under way.
HandlerStep ==
    \/ StartAtHead \/ StartReadError \/ StartAlloc \/ StartNoSpace \/ StartInitError
    \/ \E i \in Slice : ScanHit(i) \/ ScanHitNothing(i) \/ ScanFault(i)
    \/ ScanNext \/ ScanReadError
    \/ ScanAlloc \/ ScanNoSpace \/ ScanInitError
    \/ FreeNothing \/ FreeSlices
    \/ WalkEnd \/ WalkReadError \/ WalkFree \/ WalkKeep

Next == Call \/ HandlerStep

Spec == Init /\ [][Next]_vars

\* A system call in the kernel runs on until it returns.
FairSpec == Spec /\ WF_vars(HandlerStep)
-----------------------------------------------------------------------------
(* Properties *)

\* The k-th sliced block from the head of the list.
ListAt[k \in Nat] ==
    IF k = 0 THEN s_free_sliced_blocks
    ELSE IF ListAt[k - 1] \in Block THEN next[ListAt[k - 1]] ELSE 0

(* While the head is a block number, the list threads exactly the blocks    *)
(* that are neither free nor used otherwise, each once, and                 *)
(* nr_sliced_blocks is its length, at every step of allocate, link and      *)
(* unlink (write_small_file's loop and delete_slice's walk).                *)
ListThreadsSliced ==
    ~oops =>
      /\ {ListAt[k] : k \in 0..NrBlocks} \ {0} = Sliced
      /\ ListAt[Cardinality(Sliced)] = 0
      /\ nr_sliced_blocks = Cardinality(Sliced)

(* Slices of a file, and the old slices of a file being moved until         *)
(* delete_slice has freed them, lie in a sliced block, are not marked free, *)
(* and belong to nobody else: what get_consequitive_free_slices claims and  *)
(* delete_slice frees never overlaps another file.                          *)
OldExtent ==
    IF pc \in {"start", "scan", "free"} /\ req.move
    THEN req.old_slice_no..(req.old_slice_no + req.old_num_slices - 1) ELSE {}

\* An unlinked file's slices are gone once delete_slice has cleared them.
Holds(f) == IF pc = "walk" /\ req.op = "unlink" /\ req.f = f THEN {} ELSE ExtentOf(f)

ExtentsDisjoint ==
    /\ \A f \in linked : Holds(f) # {} =>
         /\ bno[f] \in Sliced /\ Holds(f) \subseteq Slice \ bitmap[bno[f]]
         /\ \A g \in linked \ {f} : bno[g] = bno[f] => Holds(f) \cap Holds(g) = {}
    /\ OldExtent # {} =>
         /\ req.old_bno \in Sliced /\ OldExtent \subseteq Slice \ bitmap[req.old_bno]
         /\ \A g \in linked : bno[g] = req.old_bno => OldExtent \cap Holds(g) = {}

(* The bytes of a file up to i_size were written by that file or are zero,  *)
(* never bytes a deleted or moved neighbour left: delete_slice zeroes what  *)
(* it frees, and a freed block is scrubbed before it is used again.         *)
NoForeignData ==
    \A f \in linked : bno[f] # 0 =>
        \A s \in Touched(slice_no[f], 0, i_size[f]) \cap Slice :
            Holds(f) # {} => data[bno[f]][s] \subseteq {f}

(* Between calls every slice of a sliced block that is not marked free      *)
(* belongs to a file: neither a move nor a failed write nor an unlink loses *)
(* slices.                                                                  *)
NoSliceLeak ==
    pc = "idle" =>
      \A b \in Sliced : \A s \in Slice \ bitmap[b] :
          \E f \in linked : bno[f] = b /\ s \in ExtentOf(f)

(* When no file holds slices, no sliced block is left: deleting the files   *)
(* gives every block back, the ones a failed write had added included.      *)
SpaceReturned ==
    (pc = "idle" /\ ~oops /\ \A f \in linked : bno[f] = 0) => Sliced = {}

(* "checks if the sliced block is now completely vacant and frees it if so" *)
(* (ouichefs.h): a walk that reaches the end of the list leaves no vacant   *)
(* sliced block behind.                                                     *)
VacantBlocksFreed ==
    (pc = "walk" /\ cur = 0) => \A b \in Sliced : bitmap[b] # AllFree

(* nr_free_blocks is never below the number of set bits of the block        *)
(* bitmap, so that ouichefs_new_inode's and write_big_file's tests of the   *)
(* counter never refuse space that exists, and it never wraps below zero.   *)
FreeCountNotLow == nr_free_blocks >= Cardinality(bfree_bitmap)

\* The slices the files hold, each with its holder.
Held == UNION {{f} \X Holds(f) : f \in linked}

(* nr_used_slices is never below the slices the files hold, so that         *)
(* delete_slice's subtraction never wraps the uint32_t.                     *)
UsedNotLow == nr_used_slices >= Cardinality(Held) + Cardinality(OldExtent)

(* "Write failed, restore old inode" (file.c): a failed move leaves the     *)
(* inode as it found it.                                                    *)
MoveFailed == pc \in {"start", "scan"} /\ req.move /\ pc' = "idle"
FailureRestores ==
    [][MoveFailed =>
         /\ bno'[req.f] = req.old_bno /\ slice_no'[req.f] = req.old_slice_no
         /\ i_size'[req.f] = req.old_size
         /\ num_slices'[req.f] = req.old_num_slices]_vars

(* Every call returns: neither the search for room nor the walk for vacant  *)
(* blocks goes round for ever.                                              *)
CallReturns == pc # "idle" ~> pc = "idle"

\* Where in the list the blocks from cur on are.
Ahead ==
    IF cur \in Block
    THEN {k \in 0..NrBlocks : ListAt[k] # 0 /\ \E j \in 0..k : ListAt[j] = cur}
    ELSE {}

\* How many steps a handler has left at most: the search sees the rest of the
\* list and appends a block for each free one, the walk sees the list once.
StepsLeft ==
    LET ahead  == Cardinality(Ahead)
        sliced == Cardinality(Sliced)
        free   == Cardinality(bfree_bitmap \cap Block)
    IN  CASE pc = "idle"  -> 0
          [] pc = "walk"  -> 1 + ahead
          [] pc = "free"  -> 2 + sliced
          [] pc = "scan"  -> 3 + sliced + 2 * free + ahead
          [] pc = "start" -> 4 + 2 * sliced + 2 * free

(* Every step brings a call nearer to its return, by a bound in the numbers *)
(* of sliced and free blocks: the search of write_small_file never meets a  *)
(* block twice though it extends the list as it goes, nor does the walk of  *)
(* delete_slice though it takes blocks out from under itself.               *)
CallsProgress == [][pc # "idle" => StepsLeft' < StepsLeft]_vars

(* "Number of used slices" (ouichefs.h).                                    *)
UsedSlicesExact ==
    pc = "idle" =>
      nr_used_slices = MapThenSumSet(LAMBDA f : Cardinality(ExtentOf(f)), linked)

(* "we assume that the first bit is never free" (bitmap.h).                 *)
FirstBitNeverFree == 0 \notin bfree_bitmap

(* "num_slices is 0, this should never be the case here!" (file.c): a file  *)
(* with an index_block has slices.                                          *)
NumSlicesNonzero == pc = "idle" => \A f \in linked : bno[f] # 0 => num_slices[f] # 0

(* "bh_data is NULL, this should not happen!" (file.c).                     *)
NoNullBuffer == ~oops

(* "These two bitmaps track if inodes/blocks are used or not" (README): the *)
(* block a file's slices are in is not marked free.                         *)
UsedBlocksNotFree ==
    \A f \in linked : Holds(f) # {} => bno[f] \notin bfree_bitmap
=============================================================================
