# Verification of ouichefs

ouichefs is a Linux file system module for teaching. This repository extends it
with *sliced blocks*: a file of at most 3968 bytes is stored in consecutive
128-byte slices of a shared 4096-byte block instead of in blocks of its own.
The modules in this directory model the file system: the sliced blocks, big
files, the bitmaps, directories, what reads and writes show to a process,
mounting, write-back and crashes, and what mkfs writes. TLC checks them on small
instances, and TLAPS proves the safety properties for all instances, where need
be from a hypothesis that names what the code must not have done.

## The system

| Component | State | Operations | Meets the others through |
|---|---|---|---|
| Small-file store (`file.c`) | per sliced block: bitmap of free slices, `NEXT`; head of the list, `nr_sliced_blocks`, `nr_used_slices`; per inode: `index_block` (block and slice packed), `num_slices`, `i_size` | `custom_write_iter`, `write_small_file`, `delete_slice`, `ouichefs_open` | the block bitmap; `unlink`; write-back |
| Big files (`file.c`) | index block, data blocks, `i_blocks` | `write_big_file`, `convert_small_to_big`, `O_TRUNC`, `unlink` | the block bitmap; conversion from small files |
| File position and contents (`file.c`) | `ki_pos`, results, bytes | `custom_read_iter`, `custom_write_iter` | what a process sees of the two above |
| Bitmaps (`bitmap.h`) | free inodes, free blocks, their counters | `get_free_inode/block`, `put_inode/block` | called by everyone, without locks |
| Inodes and directories (`inode.c`, `dir.c`) | inodes, directory blocks of 128 entries, link counts | `lookup`, `create`, `unlink`, `mkdir`, `rmdir`, `rename`, `iterate` | bitmaps; `delete_slice` |
| Superblock and write-back (`super.c`) | counters and bitmaps in memory, in buffers and on disk | `fill_super`, `sync_fs`, `put_super`, `write_inode`, `statfs` | reads what mkfs wrote |
| Registration (`fs.c`, `sysfs.c`) | what the module has allocated | `init`, `exit`, mount, sysfs registration | `fill_super`, `put_super` |
| mkfs (`mkfs/mkfs-ouichefs.c`) | the image it writes | one pass over superblock, inode store, bitmaps, root directory | shares only the layout with `super.c` |
| sysfs attributes, ioctl | none of their own | counters shown, a sliced block copied out | read-only |

What is hard here: nothing in the module takes a lock, so writes to two files
run their bitmap and list updates interleaved; a move of a growing file is a
recursion over a half-cleared inode with failures on the way; the list of
sliced blocks is threaded through blocks that were other things before; small
files and big files share one field, `index_block`, with two meanings; a write
can take five ways, chosen by a position that is not always where it goes;
counters and bitmaps reach the disk at other times than inodes and directories;
a listing goes on while entries move; and the disk gets full. PROJECT.json lists
these as hazards, each with the properties aimed at it or the reason why there
is none.

What makes each component correct: the list threads exactly the sliced blocks;
files do not share slices or blocks, do not lose them, and do not show each
other's bytes; blocks in use are not marked free and are given to one owner;
counters agree with what they count; every call returns; a failed call changes
nothing; a write changes the bytes it reports, where it should, and no others;
directories and the inode
bitmap agree; a synced file survives a crash; kernel and mkfs agree on the
layout.

## Modules

| Module | Models | Uses |
|---|---|---|
| `SmallFile` | the small-file store, block by block | |
| `SliceStore` | what the small-file store promises (abstract) | |
| `SmallFileStore` | the refinement mapping between the two | `SmallFile`, `SliceStore` |
| `SliceMask` | the bit arithmetic of a sliced block | |
| `BigFile` | index and data blocks, conversion | rests on `SliceStore` for small files |
| `FilePos` | bytes and positions as processes see them | rests on `SmallFile` and `BigFile` for the steps of a call |
| `Directory` | entries, names, links, the inode bitmap, listings, sysfs counts | |
| `Mount` | module loading, mounting, write-back, sync, crashes | rests on `Format` for where things are |
| `FreeBitmap` | the block bitmap under threads | |
| `Format` | mkfs and mount | |
| `SmallFileProofs`, `BigFileProofs`, `FilePosProofs`, `DirectoryProofs`, `MountProofs`, `FormatProofs`, `FreeBitmapProofs`, `SliceMaskProofs` | theorems and their proofs | the modules they are named for |
| `MC...` | constants of the runs that a `.cfg` cannot express; in `MCSliceMask`, the comparison of words with numbers | |

"Rests on" means that the module takes the other's result as an action of its
own instead of running its steps: an action of `BigFile` that places a small
file is an action of `SliceStore` with a block taken when there is no room, and
that `SmallFile` does nothing else is what `ImplementsSliceStore` says.

### SmallFile: the small-file store

State: the superblock fields, and for every block its first word (`bitmap`), its
second word (`next`) and whose bytes are in each slice (`data`). All
blocks have these, sliced or not, because the code reads them in blocks that are not
sliced. Inodes are functions over `Files`. `index_block` is the
pair (`bno`, `slice_no`), 0 standing for an index of 0; `SliceMask` checks the
packing. `other` is the set of blocks of metadata, directories and big files.
Bytes are abstracted to the file that wrote them.

A handler is a sequence of steps, one per block visited; `pc`, `req` (its
arguments and `old_...` locals), `cur` and `prev` (its buffer heads) are its
state. One handler runs at a time.

| Action | Code |
|---|---|
| `Create` | `ouichefs_new_inode` for a regular file |
| `WriteNew`, `WriteRefused`, `WriteInPlace(Fault)`, `WriteMove`, `WriteMoveLost` | the branches of `write_small_file` up to the search, with the small/big test of `custom_write_iter` as their guard (`MayWrite`) |
| `StartAtHead`, `StartReadError`, `StartAlloc`, `StartNoSpace`, `StartInitError` | head of the list |
| `ScanHit`, `ScanHitNothing`, `ScanFault`, `ScanNext`, `ScanReadError`, `ScanAlloc`, `ScanNoSpace`, `ScanInitError` | the search loop, the copy, the update of the inode, and the failure return of a move (`FailWrite`) |
| `FreeNothing`, `FreeSlices`, `WalkEnd`, `WalkReadError`, `WalkFree`, `WalkKeep` | `delete_slice`, called by a move and by `Unlink` |
| `OpenTrunc`, `OpenTruncError` | `ouichefs_open` with `O_TRUNC` on a small file |
| `OtherAlloc`, `OtherAllocFails`, `OtherUnlink`, `OtherTruncate` | big files and directories taking and returning blocks, as an environment |

Choices worth knowing:

- `O_APPEND`: `custom_write_iter` decides between small and big from `ki_pos`,
  `write_small_file` writes at `i_size`. `StartsAt` and `MayWrite` keep the two apart.
- An error stored in the `uint32_t` head is `ErrBlock`, a number outside the
  device. After the NULL dereference (`Oops`) the thread is gone and the
  state stays; the list property is then no longer claimed.
- `sb_bread` is external: it fails for numbers outside the device and,
  with `"EIO" \in Faults`, at any time.
- When a copy faults, any proper prefix of the bytes may have arrived.
- Failed writes of sliced blocks return errors that the model does not keep:
  what a call returns is visible in the state it leaves.
- The refusal of block numbers above 2^27 is in `SliceMask`;
  `PackingAssumption` keeps `SmallFile` below it.

### SliceStore and SmallFileStore: what the small-file store promises

In `SliceStore` a file is given a *place* (consecutive slices of one block) that
overlaps nobody's, has a second one only while it moves, and gives them up as a
whole. There are no bitmaps, lists or blocks to allocate. `SmallFileStore` maps
the inode's fields, and the old extent of a move that `delete_slice` has not
freed yet, to places; `ImplementsSliceStore` is the abstract specification under
that mapping. Clearing and restoring `index_block`, the search, the walk and
every failure are stuttering steps.

### SliceMask: the bit arithmetic

`get_consequitive_free_slices` on a word, one step per round of the loop, the
packing of `index_block` and `delete_slice`'s mask, for every bitmap and the
sizes around the boundaries (none, one slice more or less, the full width,
too long). It justifies the sets and pairs of `SmallFile`. A word is the set of
its bits that are 1: `|`, `& ~` and `==` are set operations, `Shl` is `<<`, `Dec`
is the borrow of `- 1`, and `OneShl` what `1U << n` may be: a shift by the width
of the word is undefined in C, and both results a machine gives are tried.
`WordsAreNumbers` in `MCSliceMask`, which TLC evaluates for all words of the run,
says that these operators are the integer arithmetic modulo 2^`Width`.

### FreeBitmap: the block bitmap under threads

`get_free_block` and `put_block` as loads and stores of words and of the
counter, by several threads. Nothing in the module takes a lock around them, and
the VFS serialises only calls in one directory: writers of different files meet
at every one of these steps. `raced` and `miscounted` are history, and steer
nothing: the words in which a store undid another or a bit was taken twice
(`Collide`), and whether an update of the counter was lost. The counter wraps at
`CounterEnd`.

### Format: mkfs and mount

mkfs writes block after block from the counts it computes; the kernel
finds inode store, bitmaps and root from the counts in the superblock. Each
write may fail, each read of the mount too.

### BigFile: index blocks and data blocks

State: as in `SmallFile`, but a block's content is kept word by word, as the
number it would be in an index (`words`) and as the file whose data it is
(`bytes`): `write_big_file` neither zeroes a new data block nor a new index
block, so what a block held before decides what it means. A user's data is zeros
or a word that looks like a block number (`Words`). `write_big_file` is a loop
of one step per block; copies may fall short and blocks may be unreadable.

| Action | Code |
|---|---|
| `WriteSmall`, `WriteSmallNoSpace` | the first write of a file that stays small |
| `BigNoIndex`, `BigFirst`, `BigRefused`, `BigAgain` | `write_big_file` up to its loop; `EnoughBlocks` has the unsigned `i_blocks - 1` |
| `Convert`, `ConvertRefused` | `convert_small_to_big`, which hands `write_big_file` the packed `index_block` |
| `LoopCopy`, `LoopNoSpace`, `LoopTooBig`, `LoopReadError`, `LoopFault`, `LoopDone` | the loop, its four early exits, and the update of the inode (with `delete_slice` for a conversion) |
| `OpenTrunc`, `OpenTruncError` | `ouichefs_open` with `O_TRUNC` |
| `UnlinkSmall`, `UnlinkBig`, `UnlinkBlind` | `ouichefs_unlink`, with data blocks or the index block unreadable |

Truncation frees the leading blocks of the index as they are, and unlink the
blocks it cannot read, whatever they hold: their data stays in the free blocks
and is met again as data or, word by word, as an index. `exposed` remembers the
files whose data can turn up that way. `DeleteSlice` has `delete_slice` with its
two I/O errors; `lost` are the slices it could not give back. `oops` is set where
the kernel would run over the end of a block.

### FilePos: what processes see

One file, a writer (with `O_APPEND` or not, reopening, truncating and seeking) and
a reader. `bytes` is the file's space, byte by byte, each byte the number of the
write that put it there, 0, a hole, or `Stale`: something left by somebody else.
It reaches past `i_size`, since the code does not zero there and a later write can
bring it to light. A call is one step, as seen by processes that take turns.

| Action | Code |
|---|---|
| `WriteFirst` | first write of a small file, into slices that hold zeros or not |
| `WriteInPlace`, `InPlaceFaults` | as many slices as before; a copy that falls short leaves its first bytes |
| `WriteMoved`, `MoveLost` | another number of slices: through the combined buffer; the early returns that leave `index_block` and `i_size` at 0 |
| `Rewrite`, `ClaimFaults` | the move at position 0, which ignores the old content; a copy fault once slices are claimed, after which `num_slices` stays as it was set |
| `WriteBig`, `BigFails`, `FirstFails` | `write_big_file`: blocks named, given or zeroed up to the write; failing after some bytes; failing on its first write |
| `Convert` | `convert_small_to_big`, which returns what `delete_slice` returned |
| `Fails` | the failures that restore what they changed |
| `Seek`, `Reopen` | `llseek`, `ouichefs_open` with and without `O_TRUNC` |
| `ReadEnd`, `ReadSmall`, `ReadBig` | `custom_read_iter` |

`gone` is history: the writes that failed or whose bytes were truncated or lost.
`skewed` is set when the reader has read a small file from a position other than
its start, where it is served the start again.

### Directory: names, inodes, listings

Directories as arrays of entries with the shifts and the stops at the first
empty entry that the code has, the inode bitmap with its counter (which mkfs
starts one too high), and link counts. `Create`, `UnlinkFile`, `Rmdir`, `Rename`
(in place and between directories, also failing half-way: `TornOld`, and running
over a full directory: `OverrunOld`) are one step each, under the locks the VFS
holds. `OpenDir`, `Iterate` and `CloseDir` are a process whose listing the others
interrupt. `Stored` is what `strscpy` keeps of a name. `total_file_count` and
`total_small_file_count` are the loops of `sysfs.c`.

### Mount: memory, buffers, disk

`mem`, `buf` and `disk` are the three copies of counters, bitmaps and directory.
`LoadStep`/`LoadFails` and `MountStep`/`MountFails` go through `ouichefs_init`
and `ouichefs_fill_super` step by step and fail at each, freeing what the
labels free (`Unwinds`). `Create`, `Write` and `Delete` change memory;
`WriteBackInode`, `WriteInodeFails` and `WriteBackBuffer` are the kernel's
write-back, which may come at any time; `SyncBegin`, `SyncCopy`, `SyncFails`,
`SyncInodes` and `SyncFlush` are `sync_filesystem` around the two calls of
`ouichefs_sync_fs`; `Unmount` and `PutSuper` end a mount, `Crash` keeps only the
disk. The order in which the VFS calls these is external. A partition starts as
mkfs makes it, with `nr_free_inodes` one above the bits of the inode bitmap.

## Runs

| Run | Checks | Shows |
|---|---|---|
| `SmallFile_tight` | `TypeOK`, `ListThreadsSliced`, `ExtentsDisjoint`, `NoForeignData`, `NoSliceLeak`, `SpaceReturned`, `FreeCountNotLow`, `UsedNotLow`, `FailureRestores` | without device faults, `O_TRUNC` on data or empty writes, the store is consistent at every step, also when full |
| `SmallFile_trunc` | `ExtentsDisjoint`, `VacantBlocksFreed`, `CallReturns`, `ImplementsSliceStore` | files truncated to nothing, rewritten, and written with no bytes: the store implements `SliceStore`, and search and walk end |
| `SmallFile_faults` | `ListThreadsSliced`, `CallsProgress` | every fault at every point, also the ones after which files overlap: the list stays what it should be and no loop is kept from ending |
| `BigFile_calls` | `BlocksOwnedOnce`, `OnlyOwnBytes`, `NoBlockLeak`, `SizeLimited` | blocks belong to one file, show no other file's bytes but truncated or unreadable ones, and are lost only where the code says so; no file outgrows its index |
| `BigFile_convert` | `IndexBlockUsed` (violated) | see below |
| `FilePos_calls` | `WritesExact`, `ReaderFinishes` | a write puts the bytes it reports where it should and changes no others, whatever failed before; readers come to the end |
| `Directory_tree` | `TreeIntact`, `EntriesPacked`, `NamesUnique`, `LinksCountSubdirs`, `ListsEachOnce`, `SmallFilesCounted` | directories, bitmap and counts agree through every sequence of operations |
| `Mount_crash` | `NothingLeft`, `CleanRemount`, `CleanIsSound`, `SyncedSurvives` | nothing leaks at failed mounts, a clean unmount restores everything and leaves bitmaps, directory, inodes and data in agreement and the counters as far off as mkfs made them, a synced file survives a crash |
| `FreeBitmap_threads` | `DamageStaysInWord`, `NothingElseLost` | without a lock, damage stays in the words where two updates collided |
| `FreeBitmap_race` | `AllocExclusive` (violated) | see below |
| `Format_layout` | `FreeBlocksAreData`, `InodesHavePlace`, `RootFound` | mkfs and kernel agree |
| `SliceMask_search` | `FirstFit`, `DeleteRestores`, `PackingKeepsBlock` | the masks compute the sets, up to the last block number |

### Bounds

- `SmallFile`: two files are enough for neighbours in a block and for a move
  past the other file; three data blocks give a list with a head, a middle and
  an end, and run out. Four slices of two bytes give files of none, one, two and
  three slices, with positions inside a slice and beyond the end. `MaxUsed`,
  `MaxFree`, `MaxSliced` and `MaxOther` stop counters that the code lets grow
  for ever, and are set so that each of the effects described below is reached
  first. In the `trunc` geometry a packed index points at an unused block, whose
  zeros end the truncation at once, or outside the device (`-EIO`). The `faults`
  run has all faults, so its files are small: one or two slices, two data
  blocks. They grow by appends and are rewritten at 0, so that a copy fault in a
  rewriting move leaves `num_slices` wrong (see `FailureRestores` below).
- `BigFile`: three data blocks for two files, index blocks of two entries:
  files of one and two blocks, holes, writes past the largest size, an index
  block left without data, a disk that is full at every point of a write. The
  packed index of a file with slices lies outside this device, so that its
  conversion is refused; in `BigFile_convert` it succeeds. Conversions of files
  whose first write failed after taking an index block succeed in both. User
  data reads as block 9, outside the device: it is truncated, exposed, taken for
  an index and met by reads and by `put_block`; that it reads as a block of the
  device is among the disagreements.
- `FilePos`: slices of two bytes, blocks of six, two blocks: small files of none
  to two slices and files of up to twelve bytes; three writes of one to three
  bytes at 0, 3, 8 or where the last left off, which is enough for a file to be
  moved, cut after a faulting rewrite, lost, converted or truncated and then written
  again. Reads of two and four bytes: shorter than a small file, and not.
- `FreeBitmap`: two threads with two words of two bits, so that updates meet in
  one word and in different ones; the counter wraps right above the number of bits.
- `SliceMask`: every bitmap of eight bits; sizes around each boundary; block
  numbers 1, one below the limit, the limit and one above.
- `Directory`: four inodes and three entries per directory: a full directory, a
  tree of depth three, a chain of subdirectories, no free inode. Blocks for two
  directories.
- `Mount`: two files, two blocks, four file operations and one fault per
  behaviour: a file synced, the other being created, written or deleted while a
  sync, a failing read or a crash hits. `MaxEntries` bounds the entries of one
  inode, which grow when a deletion is lost in a crash.
- Files, names, threads and blocks of `Mount` are interchangeable, hence the
  symmetry sets; runs that check liveness have none. Deadlock is not checked
  where behaviours end by design (`SliceMask`, `Format`), at a bound (`Mount`, `BigFile`), or
  with an overrun (`BigFile`, `Directory`).

### Fairness

`FairSpec` of `SmallFile` asks that a handler that can take a step eventually
takes one: a system call runs in kernel mode until it returns and waits for
nobody in the model. Calls need not happen. `FairSpec` of `FilePos` asks that a
process that reads a file goes on reading; the writer may stop, but may also
write between any two reads until its writes are used up.

### Disagreements between code and text

`BigFile_convert` checks one sentence of the repository, "These two bitmaps track
if inodes/blocks are used or not" (`src/README.md`): `convert_small_to_big` leaves
the packed block and slice number in `index_block`, `write_big_file` takes it for
an allocated index block, and the bitmap has that block as free.

`FreeBitmap_race` checks "Return an unused block number and mark it used."
(`src/bitmap.h`): between the search and the store of one writer another finds the
same bit, and both have the block.

The modules state more sentences that the code does not keep, or that one would
expect of it. They have no run of their own: put the property in the
place of those of the configuration named, with the change named, and TLC shows
a behaviour that violates it.

| Property | Configuration | What happens |
|---|---|---|
| `NoNullBuffer` ("bh_data is NULL, this should not happen!") | `SmallFile_tight` | a full disk makes `put_block(sbi, 0)` set bit 0 of the bitmap; every later allocation finds bit 0 and reports no space, free blocks or not; once the last sliced block is gone, the next write takes `-ENOSPC` for a block number |
| `FirstBitNeverFree` ("we assume that the first bit is never free") | `SmallFile_tight` | the first half of that |
| `UsedSlicesExact` ("Number of used slices") | `SmallFile_tight` | a rewrite in place counts the slices again |
| `FailureRestores` ("Write failed, restore old inode") | `SmallFile_tight`, `Faults = {"EFAULT"}` | `num_slices` is not restored after a copy fault; without faults it holds |
| `ListThreadsSliced` ("Number of the first free sliced block (0 if there is none)") | `SmallFile_tight`, `Contents <- StaleContents` | `init_slice_block` keeps the old second word of the block as `NEXT` |
| `NumSlicesNonzero` ("num_slices is 0, this should never be the case here!") | `SmallFile_trunc` | a first write of no bytes |
| `UsedBlocksNotFree` (bitmaps track use) | `SmallFile_trunc`, `NrSlices = 2`, `MaxOther = 2`, `Contents <- StaleContents` | `O_TRUNC` on a small file frees blocks in use |
| `FreeInodesCounted` ("Number of free inodes") | `Format_layout` | mkfs counts one too many |
| `InodesAsManyAsBlocks` ("equal to the number of blocks of the partition") | `Format_layout` | the remainder is added instead of the difference |
| `FirstBlockSuffices` ("we suppose it won't go further than the first block") | `Format_layout`, `Sizes <- LargeSizes` | from about 1.3 million blocks (5 GB) on it does |
| `BlocksOwnedOnce`, `NoBlockLeak` | `BigFile_calls`, `Words = {4}` | truncation frees data unscrubbed, and a later file takes the old data for its index, which names a block of the other |
| `ExtentsDisjoint`, `ImplementsSliceStore` | `SmallFile_faults` | after a copy fault in a move at 0 the file has its old place and the new, larger `num_slices` |
| `NoOverrun` of `BigFile` | `BigFile_calls` | `O_TRUNC` on a file of 1024 blocks finds no 0 in the index and goes on behind it |
| `SizeLimited` ("limiting the size of a file to 4 MiB") | `BigFile_calls`, `Counts = {0, 3}`, `Offsets = {0, 5}` | a write of no bytes behind the limit raises `i_size` |
| `SequentialWrites` ("Update file position") | `FilePos_calls` | a write that does not move the file leaves `ki_pos` at its start; a conversion returns 0 |
| `EveryReaderFinishes` | `FilePos_calls` | a reader of a small file with a shorter buffer reads the start again and again |
| `AppendsFit` | `FilePos_calls` | an append by a descriptor at 0 to a file near the limit is sent to `write_small_file` with a size no block can hold; in `SmallFile` it adds sliced blocks until the disk is full, which come back at the next deletion (`SpaceReturned`, `VacantBlocksFreed`) |
| `ListsAll` | `Directory_tree` | a listing skips a file when one before it is deleted |
| `NoOverrun` of `Directory` | `Directory_tree` | a move out of a full directory searches past its block |
| `FilesCounted` | `Directory_tree` | the loop of `total_file_count` stops one inode early |
| `NoUseAfterFree` | `Mount_crash` | a mount that fails at the sysfs registration frees `sbi`, and `put_super` is called for it |
| `NoBlockUsedAndFree` | `Mount_crash` | of two bitmaps the inodes' is written and the blocks' is not |
| `SyncedSurvivesRemount` | `Mount_crash`, `MaxOps = 7` (4 minutes) | the inode store keeps the index of a deleted inode; a crash brings it back under a new name, and deleting that file frees the block of a file that was synced |

Some of what the code does is in the properties themselves, because no weaker
sentence is true. Block 2^27 passes `allocate_and_init_slice_block` and comes out of
`index_block` as block 0 (`LostNumber`). A write at 0 cuts the file to its own
length when an earlier fault has left `num_slices` wrong (`Cut`), and a move that
cannot have or fill its buffer leaves the file empty (`WritesExact`). Data of truncated
files shows in the next file that gets the block (`exposed`).

Also seen: `ouichefs_write_inode` failing with `-EIO` leaves the inode clean and
unwritten, and no caller of sync is told (`lost` in `Mount`).

## Proofs

Every safety property that a run checks on a small instance is also a theorem
for every number of files, blocks, slices, bits, inodes, entries, names, threads
and operations. The code does not keep all of them
always: where it does not, the theorem has a hypothesis that names what must not
happen, as an action (`Spec /\ [][~Harm]_vars`, "in no step does Harm happen") or
as a condition on the constants. They are what the disagreements above come from,
and what is excluded really does break the property:

| Hypothesis | Excludes | Why the theorem needs it |
|---|---|---|
| `~TruncHarms` (`SmallFile`) | `Misread`: `O_TRUNC` takes the packed index of a small file for a block number and that block starts with a nonzero word; `Unscrubbed`: `O_TRUNC` frees a block of a big file with content in it | blocks in use become free; `init_slice_block` keeps the old second word as `NEXT` |
| `~Harm` | `TruncHarms`, and a copy fault while a file is moved (`MoveFaults`) | `num_slices` is not restored: a file of the old place with the new length reaches into its neighbour |
| `~EmptyMove` | a move of no bytes | it returns 0, taken for a failure, with `num_slices` set to 0 |
| `NoFaults` | device, copy and memory faults, and writes of no bytes | their error paths lose slices |
| `~Misread` (`BigFile`) | `Repack`: `convert_small_to_big` on a file with slices, whose packed number is a block of the device; `StaleIndex`: a first write that takes an index block in which a truncated file's data reads as numbers of the partition | the packed number, or old data, becomes an index block |
| `Short` (`Directory`) | names that `strscpy` cuts | two names are stored as one |
| `Room`, `FirstBlock` (`Format`) | partitions too small for their metadata, or so large that its bits leave the first bitmap block | mkfs writes past its buffer |
| `0 \notin Counts` (`SmallFile`, `BigFile`) | writes of no bytes | a file without slices gets an `index_block`; a file grows behind what its index can name |
| `~(StartNoSpace \/ ScanNoSpace)` | `put_block(sbi, 0)` when there is no block | bit 0 becomes free |

### SmallFileProofs

- `TypeCorrect` (`TypeOK`) and `FreeCountSound` (`FreeCountNotLow`) have no
  hypothesis. `TypeOK` is inductive once it says that a search under way looks at
  a block of the device; the counter is two lemmas, `PutBlockCount` (the counter
  rises by one, the bits by at most one) and `TakeBlockCount`.
- `ListStaysThreaded` (`ListThreadsSliced`) and `WalkFreesVacant`
  (`VacantBlocksFreed`), under `~TruncHarms`. The recursive `ListAt` is of no use to the
  provers. `ListInv` says instead that some `L` from `1..n` enumerates the sliced
  blocks without repetition and each block's `NEXT` is its successor, and where in `L` the
  search and the walk are; after the NULL dereference, that nobody gets past
  the head again (`Stuck`). Taking a block appends to `L`, the walk removes from
  its middle. `BlocksInv` says that free blocks hold no `NEXT`, which is what
  `init_slice_block` relies on. That `L` is what `ListAt` computes follows from the least
  `k` where they would differ.
- `CallsMakeProgress` (`CallsProgress`), under `~TruncHarms`: each step of a handler
  lowers `StepsLeft`, a number. By the position in `L` that `ListInv` gives, a step
  of the search or the walk has one block less ahead of it; a block appended
  to the list is a free block less, and a block taken out of the list by the walk leaves
  those after it as many as they were. With the fairness of `FairSpec` this is
  `CallReturns`, for every instance but for the last, temporal, step.
- `ExtentsStayDisjoint` (`ExtentsDisjoint`), under `~Harm`. `StoreInv` is
  `BlocksInv`, `ListInv`, `CallInv` (what the locals of a running handler say
  of its inode) and `SpotInv`, which is `ExtentsDisjoint` slice by slice: who
  holds a slice is marked as holding it, alone. Each action is one of six
  ways in which holders change (`KeepHolders`, `MoveOut`, `MoveBack`, `DropOld`,
  `DropFile`, `Claims`), and the invariant is shown once for each.
- `FailedMovesRestore` (`FailureRestores`), under `~Harm` and `~EmptyMove`: a
  file that moves has its old slices in a sliced block, so the list is not empty
  and the NULL dereference cannot happen in a move.
- `SlicesDoNotLeak` (`NoSliceLeak`) and `SpaceComesBack` (`SpaceReturned`), under
  `NoFaults` and `~TruncHarms`. `SpaceInv` adds that every claimed slice has a
  holder, and that there are sliced blocks only while a file has slices or a
  handler is at work: a write that fails has not been the first to add a block.
- `OnlyOwnDataShown` (`NoForeignData`), under `~Harm`. `DataInv` adds that free
  slices and blocks hold nobody's bytes, and that the bytes of a file fit its slices.
- `UsedCountSafe` (`UsedNotLow`), under `~Harm`: `StoreInv`, and that
  there are finitely many files, make the sum in it change by exactly what a step claims or frees.
- `StoreImplements` (`ImplementsSliceStore`), under `~Harm`: the initial state
  is one of `SliceStore`, and every step is one of its steps or a stutter. The
  same six ways carry the proof: `KeepHolders`, `MoveOut` and `MoveBack` are
  invisible, `DropOld` and `DropFile` are `Release` or `Delete`, `Claims` is
  `Claim`. It needs besides that a deleted file has no `index_block` (`GoneInv`).
- Three sentences of the repository that the code does not keep always are proved
  of the behaviours where it does, so that what breaks them is known exactly.
  `UsedBlocksStayUsed` (`UsedBlocksNotFree`), under `~Harm`, follows from the extents.
  `WrittenFilesHaveSlices` (`NumSlicesNonzero`) needs only that nobody writes no
  bytes; `AsksForRoom` adds to `CallInv` that a search is for at least one byte.
  `OnlyNoSpaceFreesFirstBit` (`FirstBitNeverFree`) needs only that no write runs
  out of space: no other call of `put_block` has 0 for its argument.

### BigFileProofs

`BlocksAreOwnedOnce` (`BlocksOwnedOnce`), `BigFilesHoldOwnBytes` (`OnlyOwnBytes`)
and `LeaksOnlyByUnlink` (the action property `NoBlockLeak`), under `~Misread`:
truncation of data, unreadable blocks and every other conversion are allowed.
`write_big_file` scrubs neither a new index block nor a new data block, so the
invariant has to speak of what free blocks hold. A word of a block is a *name* if
it is an index entry and not user data (`names`). `OwnInv` says that the names in index
blocks *and in free blocks* (`Roots`) are blocks that are neither free, sliced nor an
index, that no block is named twice, and that whatever else an index block holds is
no number of the partition (`IndexSane`), which is what `StaleIndex` would break.
`BytesInv` says that free blocks and index blocks hold nobody's data but that
of exposed files (`RootsClean`), what an index names that of its file besides
(`IndexNamesOwn`), and that this is so also for names left in blocks that were
freed with them (`StrayNamesClean`). `SizeInv` says that `i_blocks` is at least
what `i_size` needs.

`SizesStayLimited` (`SizeLimited`) has no hypothesis but that nobody writes no bytes:
`LoopLimited` says that a write in its loop began with a size within the limit,
and that its position is within it once no bytes are left.

### FilePosProofs

`WritesAreExact` (the action property `WritesExact`), without hypotheses. `PosInv`
says that a file that was never written or was lost is empty (`NewIsEmpty`), so that
its first write has nothing to keep, and that past the end of the file there are only
holes, zeros, somebody else's remains and bytes of writes in `gone` (`TailIsDead`):
this is why a gap that is not zeroed shows nothing live. `SlicesFit` says that
`num_slices`, also a wrong one, is that of some small size, so that a write that stays
in place stays small. The five ways of a write and their failures are reduced to
three lemmas: `Wholly` (all bytes are there), `Partly` (the first are) and
`Unwritten` (none is), each from what happens to a single byte.

### DirectoryProofs

`AlwaysPacked` (`EntriesPacked`), `TreeStaysIntact` (`TreeIntact`),
`SmallFilesAreCounted`, `ListingsReportOnce` (`ListsEachOnce`) and `LinksAreCounted`
(`LinksCountSubdirs`), without hypotheses; `NamesStayUnique` (`NamesUnique`) for names that
are `Short`. `DirInv` says that blocks are packed, that `i_mode` and the bitmap agree, that only
directories have entries and that each inode in use has one entry; after a
rename that stopped half-way, that the tree with one entry less is such a tree
(`OneMore`). The shifts of a removal are lemmas about one block. `ListInv` says of every file that stayed
on which side of the listing's position its entry is, and how often it was reported.
`LinksInv` counts subdirectories by bijections between the entries before and
after.

### MountProofs

`MountFreesAll` (`NothingLeft`), `MountTypes` (`TypeOK`), `RemountIsClean` (`CleanRemount`)
and `SyncedFilesSurvive` (`SyncedSurvives`), without hypotheses, for any number of
operations and faults. What is allocated is a function of the stage
(`AllocInv`). `RestInv` says at each step of an unmount which of the copies have
arrived (`SavedInv`). `SyncInv` adds, as long as there was no crash, that
bitmaps, directory and inodes agree (`Consistent`), and at each step of a sync
what has reached the buffers of a file that nobody has touched since it began (`QuietInv`): the
file's block is marked used in the buffers before the sync counts as complete.
`CleanPartitionsAreSound` (`CleanIsSound`) takes `Consistent` and `RestInv` to the
disk, with `CountInv`: in memory, and in the buffers between mounts, the free-inode
counter is one above its bits and the free-block counter not below them.

### FormatProofs

`InodesArePlaced` (`InodesHavePlace`) for partitions with `Room`, `RootIsFound`
(`RootFound`) and `FreeBlocksAreFound` (`FreeBlocksAreData`) for those whose bits
also fit the `FirstBlock`; both hold for every size from mkfs's minimum of 100
blocks to about 5 GB. `FormatInv` says which blocks are written at each phase
and block of mkfs, and what the mount has read at each of its own.

### FreeBitmapProofs

`RacesStayInWord` (`DamageStaysInWord`) and `OnlyCollisionsLose` (`NothingElseLost`),
for every interleaving and without hypotheses. Neither is inductive: between the
search, the load and the store of a word a thread has a bit at hand that is in
no set yet, or in two. The invariants add where each thread's bit is, that a bit
lies in its own word, what the word a thread has loaded has to do with the one in
memory as long as the word is not in `raced`, and by how much the counter lags
behind the bits.

### SliceMaskProofs

`SearchIsFirstFit` (`FirstFit`), `PackingIsFaithful` (`PackingKeepsBlock`) and
`DeleteUndoesWrite` (`DeleteRestores`), for words of any width and all block
numbers, the lost one included. In the loop `mask` is the run of `num_slices` bits
from `i` and nothing below `i` is a place, so the first hit is the least place,
and the end of the loop means that there is none. For a file of the full width,
where the first mask is undefined, the loop ends before the mask is looked at;
for an empty one the mask is empty. Three lemmas say what the shifts and the `- 1`
make of runs of bits. Packing is division with remainder up to `BlockLimit`.

### What the proofs rest on, and what is only model-checked

The assumptions are those the modules state about their constants
(`GeometryAssumption`, `InputAssumption`, `DirectoryAssumption`,
`FilePosAssumption`, `FormatAssumption`, `MountAssumption`, `BitmapAssumption`,
`WordAssumption`):
geometry is positive, inputs have the types of the code's. The provers take
nothing else on trust.

Only TLC checks liveness (`CallReturns`, `ReaderFinishes`): fairness is beyond the provers
used here. `CallsMakeProgress` proves the part of `CallReturns` that is not temporal.
And only TLC compares the words of `SliceMask` with numbers
(`WordsAreNumbers`), for all words of eight bits: the sum of a word's powers of
two is a recursion that the provers cannot unfold.

## Not modelled

- Two handlers at once inside one sliced block or the sliced list. `SmallFile`
  runs one handler at a time; `FreeBitmap` has the threads, for the block bitmap.
- Descriptors that stay open after an unlink.
- The address space operations (`ouichefs_file_get_block`, `write_begin`,
  `write_end`, `writepage`, `readahead`): nothing reaches them, as the file
  operations have no `mmap` and replace `read_iter` and `write_iter`.
- `ioctl`, `statfs` and the sysfs attributes that print a counter: they change
  nothing. References to buffers and files (a faulting copy releases a buffer
  twice, the ioctl keeps its file) are not counted.
- Small files that move, inside `BigFile`; data of directories' blocks and files together: the
  contents are in `SmallFile` and `BigFile`, the names in `Directory`, the copies
  in `Mount`, each with the others reduced to what it needs.
- The test programs and scripts.

## Plan

1. Weaken hypotheses where the code allows it: what a copy fault during a move
   really breaks is one conjunct of `SpotInv`.
2. A composition of `Directory` and `SmallFile` for descriptors that stay open after an unlink.
