------------------------------- MODULE BigFile -------------------------------
(***************************************************************************)
(* Big files of ouichefs: index blocks, data blocks, and the way a file    *)
(* becomes big.  custom_write_iter sends a write to write_small_file,      *)
(* write_big_file or convert_small_to_big; open with O_TRUNC and unlink    *)
(* give blocks back.                                                       *)
(*                                                                         *)
(* write_big_file is modelled one block per step.  Small files are here    *)
(* what SliceStore.tla promises: a place in a sliced block, given and      *)
(* taken as a whole; SmallFile.tla has the list and the slices' bitmap.    *)
(* A write to a small file that stays small touches no block of anybody    *)
(* else (SmallFile.tla) and is left out.  A block's content is kept word   *)
(* by word: what each word says when the block is read as an index, and    *)
(* which file's data it is.  The words of a sliced block are not kept, as  *)
(* no big file reads one; the place of a small file counts as full of its  *)
(* data.                                                                   *)
(***************************************************************************)
EXTENDS Integers, FiniteSets

CONSTANTS
    Files,       \* inodes of regular files
    NrBlocks,    \* nr_blocks of the partition
    Reserved,    \* blocks 0..Reserved-1 hold the metadata and the root directory
    NrSlices,    \* slices per block (32 in the code)
    SliceSize,   \* bytes per slice (128 in the code)
    IndexLen,    \* block numbers in an index block (1024 in the code)
    Offsets,     \* ki_pos of a write
    Counts,      \* lengths of writes
    Appends,     \* {FALSE}, or {FALSE, TRUE} if files are also written with O_APPEND
    Words,       \* what a word of user data may say when it is read as a block number
    Faults,      \* which of "EIO", "EFAULT" may strike
    NoFile,      \* nobody's data: zeros
    MaxFree      \* bound: no call starts once nr_free_blocks has reached it

Block == 1..(NrBlocks - 1)
Slice == 1..(NrSlices - 1)
BlockSize == NrSlices * SliceSize
WordSize == BlockSize \div IndexLen
Entry == 0..(IndexLen - 1)

ASSUME GeometryAssumption ==
    /\ NrBlocks \in Nat /\ Reserved \in 1..(NrBlocks - 1)
    /\ NrSlices \in Nat \ {0, 1} /\ SliceSize \in Nat \ {0} /\ IndexLen \in Nat \ {0}
    /\ BlockSize % IndexLen = 0 /\ NoFile \notin Files
ASSUME InputAssumption ==
    /\ Offsets \subseteq Nat /\ Counts \subseteq Nat /\ Appends \subseteq BOOLEAN
    /\ Words \subseteq Nat /\ Faults \subseteq {"EIO", "EFAULT"}
    /\ MaxFree \in Nat

VARIABLES
    bfree_bitmap,    \* set bits of the block bitmap
    nr_free_blocks,  \* sbi->nr_free_blocks
    sliced,          \* the sliced blocks
    lost,            \* slices that delete_slice could not give back: <<block, slice>>
    words,           \* words[b]: the words of block b, read as an index
    bytes,           \* bytes[b]: whose data each word of block b is
    linked,          \* files that exist
    index_block,     \* ci->index_block: packed for a small file, a block for a big one
    num_slices,      \* ci->num_slices
    i_size,          \* inode->i_size
    i_blocks,        \* inode->i_blocks: 0 for a small file
    pc,              \* "idle", or "loop": inside write_big_file
    req,             \* its arguments and locals
    oops,            \* the kernel ran over the end of a block or used a NULL buffer
    exposed          \* history: files truncated, or deleted while a block of theirs was unreadable

sbvars == <<bfree_bitmap, nr_free_blocks, sliced, lost>>
blockvars == <<words, bytes>>
inodevars == <<linked, index_block, num_slices, i_size, i_blocks>>
vars == <<sbvars, blockvars, inodevars, pc, req, oops, exposed>>
-----------------------------------------------------------------------------
MaxOf(a, b) == IF a >= b THEN a ELSE b
DivRoundUp(n, d) == (n + d - 1) \div d

will_be_small(size) == size <= BlockSize - SliceSize
is_small_file(f) == i_blocks[f] = 0

\* OUICHEFS_SMALL_FILE_GET_BNO and OUICHEFS_SMALL_FILE_GET_SLICE.
GetBno(f) == index_block[f] \div NrSlices
GetSlice(f) == index_block[f] % NrSlices

\* get_free_block: the first set bit; bit 0, were it set, is cleared and
\* reads as failure.
CanAlloc(b) == b \in bfree_bitmap \ {0, NrBlocks} /\ \A c \in bfree_bitmap : b <= c
NoFreeBlock == \A b \in Block : ~CanAlloc(b)
GetFreeBlock(b) ==
    /\ CanAlloc(b)
    /\ bfree_bitmap' = bfree_bitmap \ {b} /\ nr_free_blocks' = nr_free_blocks - 1
GetNoBlock ==
    /\ NoFreeBlock
    /\ bfree_bitmap' = bfree_bitmap \ {0} /\ UNCHANGED nr_free_blocks

\* put_block for every member of a set, and for a set of index entries.
InRange(S) == S \cap (0..NrBlocks)
PutBlocks(S, n) ==
    /\ bfree_bitmap' = bfree_bitmap \cup InRange(S)
    /\ nr_free_blocks' = nr_free_blocks + n

\* sb_bread: fails outside the device, and on I/O errors.
Readable(b) == b < NrBlocks
MayFail(b) == b >= NrBlocks \/ "EIO" \in Faults

NoWords == [i \in Entry |-> 0]
NoBytes == [i \in Entry |-> NoFile]

\* The entries of an index block that are in use, and the blocks they name.
UsedEntries(w, n) == {i \in Entry : i < n /\ w[i] # 0}
Named(w, n) == {w[i] : i \in UsedEntries(w, n)}

\* The slices of a small file, and the ones of block b that somebody has.
PlaceOf(f) ==
    IF is_small_file(f) /\ num_slices[f] # 0
    THEN {<<GetBno(f), s>> : s \in GetSlice(f)..(GetSlice(f) + num_slices[f] - 1)} ELSE {}
Taken(F) == lost \cup UNION {PlaceOf(f) : f \in F}
TakenIn(b) == {s \in Slice : <<b, s>> \in Taken(linked)}

RoomAt(b, s, n) == (s + n - 1) \in Slice /\ (s..(s + n - 1)) \cap TakenIn(b) = {}
\* The words of a block that hold the slices S of it, marked as data of g.
InSlices(i, S) == (i * WordSize) \div SliceSize \in S
Mark(w, S, g) == [i \in Entry |-> IF InSlices(i, S) THEN g ELSE w[i]]
NoRoom(n) == \A b \in sliced, s \in Slice : ~RoomAt(b, s, n)
-----------------------------------------------------------------------------
NoReq == [f |-> "none"]

Req == [f : Files, pos : Nat, count : Nat, data : Words, convert : BOOLEAN,
        old_size : Nat]

TypeOK ==
    /\ bfree_bitmap \subseteq 0..NrBlocks /\ nr_free_blocks \in Int /\ sliced \subseteq Block
    /\ lost \subseteq Nat \X Nat
    /\ words \in [0..(NrBlocks - 1) -> [Entry -> Nat]]
    /\ bytes \in [0..(NrBlocks - 1) -> [Entry -> Files \cup {NoFile}]]
    /\ linked \subseteq Files /\ index_block \in [Files -> Nat]
    /\ num_slices \in [Files -> Nat] /\ i_size \in [Files -> Nat] /\ i_blocks \in [Files -> Nat]
    /\ pc \in {"idle", "loop"}
    /\ IF pc = "idle" THEN req = NoReq ELSE req \in Req
    /\ oops \in BOOLEAN /\ exposed \subseteq Files

\* A freshly made file system on a zeroed image.
Init ==
    /\ bfree_bitmap = Reserved..(NrBlocks - 1) /\ nr_free_blocks = NrBlocks - Reserved
    /\ sliced = {} /\ lost = {}
    /\ words = [b \in 0..(NrBlocks - 1) |-> NoWords]
    /\ bytes = [b \in 0..(NrBlocks - 1) |-> NoBytes]
    /\ linked = {} /\ index_block = [f \in Files |-> 0] /\ num_slices = [f \in Files |-> 0]
    /\ i_size = [f \in Files |-> 0] /\ i_blocks = [f \in Files |-> 0]
    /\ pc = "idle" /\ req = NoReq /\ oops = FALSE /\ exposed = {}

MayCall(f) == pc = "idle" /\ ~oops /\ f \in linked /\ nr_free_blocks < MaxFree
Return == pc' = "idle" /\ req' = NoReq
-----------------------------------------------------------------------------
(* ouichefs_create and small files *)

Create(f) ==
    /\ pc = "idle" /\ ~oops /\ f \notin linked /\ nr_free_blocks # 0
    /\ linked' = linked \cup {f}
    /\ index_block' = [index_block EXCEPT ![f] = 0] /\ num_slices' = [num_slices EXCEPT ![f] = 0]
    /\ i_size' = [i_size EXCEPT ![f] = 0] /\ i_blocks' = [i_blocks EXCEPT ![f] = 0]
    /\ UNCHANGED <<sbvars, blockvars, pc, req, oops, exposed>>

NewSize(f, ki_pos, count) == MaxOf(ki_pos + count, i_size[f])

\* The first write of a file that stays small finds or makes room.
WriteSmall(f, ki_pos, count) ==
    LET size == NewSize(f, ki_pos, count)
        n == DivRoundUp(size, SliceSize)
    IN /\ MayCall(f) /\ index_block[f] = 0 /\ n > 0 /\ will_be_small(size)
       /\ \E b \in Block, s \in Slice :
            /\ \/ b \in sliced /\ RoomAt(b, s, n) /\ UNCHANGED <<bfree_bitmap, nr_free_blocks>>
               \/ NoRoom(n) /\ s = 1 /\ GetFreeBlock(b)
            /\ sliced' = sliced \cup {b}
            /\ index_block' = [index_block EXCEPT ![f] = b * NrSlices + s]
            /\ bytes' = [bytes EXCEPT ![b] = Mark(@, s..(s + n - 1), f)]
       /\ num_slices' = [num_slices EXCEPT ![f] = n]
       /\ i_size' = [i_size EXCEPT ![f] = size]
       /\ UNCHANGED <<lost, words, linked, i_blocks, pc, req, oops, exposed>>

\* No room and no free block: block 0 is put back, and without a sliced block
\* the errno is taken for one.
WriteSmallNoSpace(f, ki_pos, count) ==
    LET size == NewSize(f, ki_pos, count)
        n == DivRoundUp(size, SliceSize)
    IN /\ MayCall(f) /\ index_block[f] = 0 /\ n > 0 /\ will_be_small(size)
       /\ NoRoom(n) /\ NoFreeBlock
       /\ bfree_bitmap' = bfree_bitmap \cup {0} /\ nr_free_blocks' = nr_free_blocks + 1
       /\ oops' = (sliced = {})
       /\ UNCHANGED <<sliced, lost, blockvars, inodevars, pc, req, exposed>>

\* The sliced blocks of which nobody but f has a slice, and the ones of them
\* that the walk over the list reaches: all, unless it meets an unreadable one.
Vacant(f) == {b \in sliced : ~\E s \in Slice : <<b, s>> \in Taken(linked \ {f})}
Walked(S) == IF "EIO" \in Faults THEN SUBSET S ELSE {S}

\* delete_slice on the place of file f, which the primed inode no longer has:
\* its bytes are zeroed, vacant sliced blocks are scrubbed and put back.  The
\* callers do not look at the error: what cannot be read is not given back.
DeleteSlice(f) ==
    LET b == GetBno(f)
        mine == {s \in Slice : <<b, s>> \in PlaceOf(f)}
    IN \/ PlaceOf(f) = {} /\ UNCHANGED <<sbvars, blockvars>>
       \/ /\ PlaceOf(f) # {} /\ MayFail(b)
          /\ lost' = lost \cup PlaceOf(f)
          /\ UNCHANGED <<bfree_bitmap, nr_free_blocks, sliced, blockvars>>
       \/ /\ PlaceOf(f) # {} /\ Readable(b)
          /\ \E gone \in Walked(Vacant(f)) :
               /\ PutBlocks(gone, Cardinality(gone)) /\ sliced' = sliced \ gone
               /\ words' = [c \in DOMAIN words |-> IF c \in gone THEN NoWords ELSE words[c]]
               /\ bytes' = [c \in DOMAIN bytes |->
                              CASE c \in gone -> NoBytes
                                [] c = b /\ c \notin gone -> Mark(bytes[c], mine, NoFile)
                                [] OTHER -> bytes[c]]
          /\ UNCHANGED lost
-----------------------------------------------------------------------------
(* write_big_file *)

StartsAt(f, ki_pos, append) == IF append THEN i_size[f] ELSE ki_pos

\* custom_write_iter's choice, made by ki_pos also for an append.
GoesBig(f, ki_pos, count) ==
    IF index_block[f] = 0 THEN ~will_be_small(NewSize(f, ki_pos, count)) ELSE ~is_small_file(f)

\* The test for -ENOSPC.  i_blocks - 1 is unsigned: for a file that has no
\* blocks yet it is the largest number there is, and nothing is needed.
EnoughBlocks(f, size) ==
    \/ i_blocks[f] = 0
    \/ DivRoundUp(size, BlockSize) - (i_blocks[f] - 1) <= nr_free_blocks

StartLoop(f, pos, count, data, convert) ==
    /\ pc' = "loop"
    /\ req' = [f |-> f, pos |-> pos, count |-> count, data |-> data, convert |-> convert,
               old_size |-> i_size[f]]

\* No index block can be had: -ENOSPC.
BigNoIndex(f, ki_pos, count) ==
    /\ MayCall(f) /\ index_block[f] = 0 /\ GoesBig(f, ki_pos, count)
    /\ GetNoBlock
    /\ UNCHANGED <<sliced, lost, blockvars, inodevars, pc, req, oops, exposed>>

\* A first write takes an index block, which it does not scrub.
BigFirst(f, ki_pos, count, append, data) ==
    /\ MayCall(f) /\ index_block[f] = 0 /\ GoesBig(f, ki_pos, count)
    /\ \E b \in Block : GetFreeBlock(b) /\ index_block' = [index_block EXCEPT ![f] = b]
    /\ \/ StartLoop(f, StartsAt(f, ki_pos, append), count, data, FALSE)
       \/ "EIO" \in Faults /\ UNCHANGED <<pc, req>>
    /\ UNCHANGED <<sliced, lost, blockvars, linked, num_slices, i_size, i_blocks, oops, exposed>>

\* Not enough blocks, or the index block cannot be read.
BigRefused(f, ki_pos, count, append) ==
    /\ MayCall(f) /\ index_block[f] # 0 /\ GoesBig(f, ki_pos, count)
    /\ \/ ~EnoughBlocks(f, NewSize(f, StartsAt(f, ki_pos, append), count))
       \/ MayFail(index_block[f])
    /\ UNCHANGED vars

BigAgain(f, ki_pos, count, append, data) ==
    LET pos == StartsAt(f, ki_pos, append)
    IN /\ MayCall(f) /\ index_block[f] # 0 /\ GoesBig(f, ki_pos, count)
       /\ EnoughBlocks(f, NewSize(f, pos, count)) /\ Readable(index_block[f])
       /\ StartLoop(f, pos, count, data, FALSE)
       /\ UNCHANGED <<sbvars, blockvars, inodevars, oops, exposed>>

\* convert_small_to_big: the whole new content is written from the start, to
\* the "index block" that index_block names, packed as it is.
Converts(f, ki_pos, count) ==
    /\ MayCall(f) /\ index_block[f] # 0 /\ is_small_file(f)
    /\ ~will_be_small(NewSize(f, ki_pos, count))

Convert(f, ki_pos, count, append, data) ==
    /\ Converts(f, ki_pos, count)
    /\ Readable(GetBno(f)) /\ Readable(index_block[f])
    /\ StartLoop(f, 0, NewSize(f, StartsAt(f, ki_pos, append), count), data, TRUE)
    /\ i_size' = [i_size EXCEPT ![f] = 0]
    /\ UNCHANGED <<sbvars, blockvars, linked, index_block, num_slices, i_blocks, oops, exposed>>

\* A block cannot be read or the user's buffer not be copied: all as before.
ConvertRefused(f, ki_pos, count) ==
    /\ Converts(f, ki_pos, count)
    /\ MayFail(GetBno(f)) \/ MayFail(index_block[f]) \/ "EFAULT" \in Faults
    /\ UNCHANGED vars
-----------------------------------------------------------------------------
(* The loop of write_big_file, one block per step *)

IndexWords == words[index_block[req.f]]
Idx == req.pos \div BlockSize
InBlock == BlockSize - (req.pos % BlockSize)
ToWrite == IF req.count < InBlock THEN req.count ELSE InBlock
InLoop == pc = "loop" /\ req.count > 0 /\ Idx < IndexLen

\* physical_block: the entry, or a new block that is stored there.
PhysicalBlock(b) ==
    \/ IndexWords[Idx] # 0 /\ b = IndexWords[Idx] /\ UNCHANGED <<bfree_bitmap, nr_free_blocks>>
    \/ IndexWords[Idx] = 0 /\ GetFreeBlock(b)

StoreEntry(b) == [words EXCEPT ![index_block[req.f]][Idx] = b]

\* The bytes of the block from offset first up to last, first included.
Within(i, first, last) == i * WordSize >= first /\ i * WordSize < last

\* A gap between the end of the file and pos is zeroed in the block where the
\* file ends, then n bytes are copied to pos.
GapStart == IF req.pos > i_size[req.f] /\ i_size[req.f] \div BlockSize = Idx
            THEN i_size[req.f] % BlockSize ELSE req.pos % BlockSize
Overlay(w, n, zero, value) ==
    LET offset == req.pos % BlockSize
    IN [i \in Entry |-> CASE Within(i, offset, offset + n) -> value
                         [] Within(i, GapStart, offset) -> zero
                         [] OTHER -> w[i]]

WriteInto(b, n) ==
    /\ words' = [StoreEntry(b) EXCEPT ![b] = Overlay(@, n, 0, req.data)]
    /\ bytes' = [bytes EXCEPT ![b] = Overlay(@, n, NoFile, IF req.data = 0 THEN NoFile ELSE req.f)]

LoopCopy ==
    /\ InLoop
    /\ \E b \in 1..(NrBlocks - 1) : PhysicalBlock(b) /\ WriteInto(b, ToWrite)
    /\ req' = [req EXCEPT !.pos = @ + ToWrite, !.count = @ - ToWrite]
    /\ UNCHANGED <<sliced, lost, inodevars, pc, oops, exposed>>

\* Leaving early: only a conversion puts the inode back.
FailBig ==
    /\ Return
    /\ i_size' = [i_size EXCEPT ![req.f] = IF req.convert THEN req.old_size ELSE @]
    /\ UNCHANGED <<sliced, lost, linked, index_block, num_slices, i_blocks, oops, exposed>>

LoopNoSpace ==
    /\ InLoop /\ IndexWords[Idx] = 0
    /\ GetNoBlock /\ FailBig
    /\ UNCHANGED blockvars

\* Mutant of LoopTooBig: the size asked for is kept.
LoopTooBigGrows ==
    /\ pc = "loop" /\ req.count > 0 /\ Idx >= IndexLen
    /\ Return
    /\ i_size' = [i_size EXCEPT ![req.f] = MaxOf(req.pos + req.count, @)]
    /\ UNCHANGED <<sbvars, blockvars, linked, index_block, num_slices, i_blocks, oops, exposed>>

\* -EFBIG: what has been written so far stays in the index.
LoopTooBig ==
    /\ pc = "loop" /\ req.count > 0 /\ Idx >= IndexLen
    /\ FailBig
    /\ UNCHANGED <<bfree_bitmap, nr_free_blocks, blockvars>>

LoopReadError ==
    /\ InLoop
    /\ \E b \in Block \cup Words :
         PhysicalBlock(b) /\ MayFail(b) /\ words' = StoreEntry(b)
    /\ FailBig
    /\ UNCHANGED bytes

\* copy_from_iter falls short; a conversion copies from the kernel.
LoopFault ==
    /\ InLoop /\ "EFAULT" \in Faults /\ ~req.convert
    /\ \E b \in Block, n \in 0..(ToWrite - 1) : PhysicalBlock(b) /\ WriteInto(b, n)
    /\ FailBig

\* Mutant of BlocksFor: the index block is forgotten.
BlocksForData(size) == DivRoundUp(size, BlockSize)

BlocksFor(size) == DivRoundUp(size, BlockSize) + 1

\* All is written: the inode is updated, a converted file's slices are freed.
LoopDone ==
    LET f == req.f
        size == MaxOf(req.pos, i_size[f])
    IN /\ pc = "loop" /\ req.count = 0
       /\ i_size' = [i_size EXCEPT ![f] = size]
       /\ i_blocks' = [i_blocks EXCEPT ![f] = BlocksFor(size)]
       /\ IF req.convert /\ req.pos > 0 THEN DeleteSlice(f) ELSE UNCHANGED <<sbvars, blockvars>>
       /\ Return
       /\ UNCHANGED <<linked, index_block, num_slices, oops, exposed>>
-----------------------------------------------------------------------------
(* ouichefs_open with O_TRUNC on a big file, and ouichefs_unlink *)

\* The entries before the first zero.
LeadingEntries(w) == {i \in Entry : \A j \in 0..i : w[j] # 0}

\* Mutant of Cleared: the entries stay in the index.
ClearedNot(w, S, zero) == w

Cleared(w, S, zero) == [i \in Entry |-> IF i \in S THEN zero ELSE w[i]]

\* The data blocks are put back as they are.  A full index has no zero to stop
\* at: the loop runs over the block's end.
OpenTrunc(f) ==
    LET ib == index_block[f]
        gone == LeadingEntries(words[ib])
    IN /\ MayCall(f) /\ i_size[f] # 0 /\ ~is_small_file(f) /\ Readable(ib)
       /\ PutBlocks({words[ib][i] : i \in gone}, Cardinality({i \in gone : words[ib][i] <= NrBlocks}))
       /\ words' = [words EXCEPT ![ib] = Cleared(@, gone, 0)]
       /\ bytes' = [bytes EXCEPT ![ib] = Cleared(@, gone, NoFile)]
       /\ i_size' = [i_size EXCEPT ![f] = 0]
       /\ oops' = (gone = Entry) /\ exposed' = exposed \cup {f}
       /\ UNCHANGED <<sliced, lost, linked, index_block, num_slices, i_blocks, pc, req>>

\* Small files: a packed number outside the device.  (Inside: SmallFile.tla.)
OpenTruncError(f) ==
    /\ MayCall(f) /\ i_size[f] # 0 /\ MayFail(index_block[f])
    /\ UNCHANGED vars

ClearInode(f) ==
    /\ linked' = linked \ {f}
    /\ index_block' = [index_block EXCEPT ![f] = 0]
    /\ i_size' = [i_size EXCEPT ![f] = 0] /\ i_blocks' = [i_blocks EXCEPT ![f] = 0]
    /\ UNCHANGED num_slices

UnlinkSmall(f) ==
    /\ MayCall(f) /\ is_small_file(f)
    /\ DeleteSlice(f) /\ ClearInode(f)
    /\ UNCHANGED <<pc, req, oops, exposed>>

\* Mutant of Scrubbed: the data blocks are not scrubbed.
ScrubbedIndex(ib, S) == {ib}

Scrubbed(ib, S) == {ib} \cup S

\* Data blocks that cannot be read are put back as they are.
Unread(S) == IF "EIO" \in Faults THEN SUBSET S ELSE {{}}

\* The first i_blocks - 1 entries are freed, and the index block.
UnlinkBig(f) ==
    LET ib == index_block[f]
        entries == UsedEntries(words[ib], i_blocks[f] - 1)
        freed == Named(words[ib], i_blocks[f] - 1)
    IN /\ MayCall(f) /\ ~is_small_file(f) /\ Readable(ib)
       /\ \E unread \in Unread(freed) :
            LET scrub == Scrubbed(ib, freed \ unread)
            IN /\ words' = [b \in DOMAIN words |-> IF b \in scrub THEN NoWords ELSE words[b]]
               /\ bytes' = [b \in DOMAIN bytes |-> IF b \in scrub THEN NoBytes ELSE bytes[b]]
               /\ exposed' = IF unread = {} THEN exposed ELSE exposed \cup {f}
       /\ PutBlocks({ib} \cup freed, 1 + Cardinality({i \in entries : words[ib][i] <= NrBlocks}))
       /\ ClearInode(f)
       /\ UNCHANGED <<sliced, lost, pc, req, oops>>

\* "If we fail to read the index block, cleanup inode anyway and lose this
\* file's blocks forever": all but the index block itself.
UnlinkBlind(f) ==
    /\ MayCall(f) /\ ~is_small_file(f) /\ MayFail(index_block[f])
    /\ PutBlocks({index_block[f]}, Cardinality(InRange({index_block[f]})))
    /\ ClearInode(f) /\ exposed' = exposed \cup {f}
    /\ UNCHANGED <<sliced, lost, blockvars, pc, req, oops>>
-----------------------------------------------------------------------------
Call ==
    \/ \E f \in Files :
         \/ Create(f) \/ OpenTrunc(f) \/ OpenTruncError(f)
         \/ UnlinkSmall(f) \/ UnlinkBig(f) \/ UnlinkBlind(f)
    \/ \E f \in Files, ki_pos \in Offsets, count \in Counts :
         \/ WriteSmall(f, ki_pos, count) \/ WriteSmallNoSpace(f, ki_pos, count)
         \/ BigNoIndex(f, ki_pos, count) \/ ConvertRefused(f, ki_pos, count)
         \/ \E append \in Appends :
              \/ BigRefused(f, ki_pos, count, append)
              \/ \E data \in Words :
                   \/ BigFirst(f, ki_pos, count, append, data)
                   \/ BigAgain(f, ki_pos, count, append, data)
                   \/ Convert(f, ki_pos, count, append, data)

HandlerStep ==
    LoopCopy \/ LoopNoSpace \/ LoopTooBig \/ LoopReadError \/ LoopFault \/ LoopDone

Next == Call \/ HandlerStep

Spec == Init /\ [][Next]_vars
-----------------------------------------------------------------------------
(* Properties *)

\* The file has an index block of its own: it is big, or its first write
\* failed after taking one.
HasIndex(f) == f \in linked /\ index_block[f] # 0 /\ (~is_small_file(f) \/ num_slices[f] = 0)

\* Its entries that name blocks put_block takes, and those blocks.  (An index
\* block is not scrubbed when it is taken: it may begin with a truncated
\* file's data.)
DataEntries(f) ==
    {i \in UsedEntries(words[index_block[f]], IndexLen) : words[index_block[f]][i] <= NrBlocks}
DataBlocks(f) == {words[index_block[f]][i] : i \in DataEntries(f)}
OwnBlocks(f) == IF HasIndex(f) THEN {index_block[f]} \cup DataBlocks(f) ELSE {}

(* Every block of a big file, index block and all blocks the index names,   *)
(* is a data block of the partition that is marked used, is no sliced       *)
(* block, and is in one place of one file: what get_free_block gives to     *)
(* write_big_file, O_TRUNC and unlink take back exactly once, also after    *)
(* writes that failed half-way, holes and truncation.                       *)
BlocksOwnedOnce ==
    \A f \in Files : HasIndex(f) =>
      /\ OwnBlocks(f) \subseteq (Reserved..(NrBlocks - 1)) \ (bfree_bitmap \cup sliced)
      /\ index_block[f] \notin DataBlocks(f)
      /\ Cardinality(DataEntries(f)) = Cardinality(DataBlocks(f))
      /\ \A g \in Files \ {f} : OwnBlocks(f) \cap OwnBlocks(g) = {}

(* A data block of a file holds only bytes written through that file:       *)
(* write_big_file does not zero new blocks but relies on unlink and         *)
(* delete_slice having scrubbed them.  The exception are the bytes of a     *)
(* file that was truncated by open, which frees its blocks as they are, or  *)
(* deleted while its blocks could not be read: they turn up in the next     *)
(* file that is given the block.                                            *)
OnlyOwnBytes ==
    \A f \in Files : HasIndex(f) =>
      \A b \in DataBlocks(f) \cap Block, i \in Entry : bytes[b][i] \in {f, NoFile} \cup exposed

\* Blocks that are marked used and that nobody can reach any more.
LostBlocks ==
    (Reserved..(NrBlocks - 1)) \ (bfree_bitmap \cup sliced \cup UNION {OwnBlocks(f) : f \in Files})

\* The index names blocks past the end of the file, or the file has an index
\* block that i_blocks does not count.
Overhangs(f) ==
    HasIndex(f) /\ (\/ i_blocks[f] = 0
                    \/ \E i \in DataEntries(f) : i * BlockSize >= i_size[f])

(* Space is lost in one way only: by deleting a file whose index names      *)
(* blocks past its end, as a write that failed half-way or the truncation   *)
(* of a file with holes leaves it, or whose index block cannot be read.     *)
(* Unlink looks at the first i_blocks - 1 entries, so i_blocks has to count *)
(* what the file's size says after every write.                             *)
NoBlockLeak ==
    [][(\A b \in LostBlocks' : b \in LostBlocks)
       \/ \E f \in linked \ linked' : Overhangs(f) \/ UnlinkBlind(f)]_vars

(* "These two bitmaps track if inodes/blocks are used or not" (README): the *)
(* index block of a file is not marked free.                                *)
IndexBlockUsed == \A f \in Files : HasIndex(f) => index_block[f] \notin bfree_bitmap

(* "limiting the size of a file to 4 MiB" (README): no file is longer than  *)
(* its index can name blocks, so that unlink, which frees as many entries   *)
(* as i_blocks says, stays within the index block.                          *)
SizeLimited == \A f \in linked : i_size[f] <= IndexLen * BlockSize

(* "for each file the list of blocks" ends within its block: no handler     *)
(* runs over the end of an index block.                                     *)
NoOverrun == ~oops
=============================================================================
