------------------------------- MODULE Format --------------------------------
(***************************************************************************)
(* mkfs.ouichefs writes the superblock, the inode store, the two bitmaps   *)
(* and the root directory's block one after the other; ouichefs_fill_super *)
(* finds them again from the counts in the superblock.  The two programs   *)
(* share no code: this module checks that they agree on the layout.        *)
(***************************************************************************)
EXTENDS Integers, FiniteSets

CONSTANTS
    Sizes,          \* sizes of the partition in blocks
    InodesPerBlock, \* OUICHEFS_INODES_PER_BLOCK
    BitsPerBlock    \* OUICHEFS_BLOCK_SIZE * 8: bits in a block of a bitmap

ASSUME FormatAssumption ==
    /\ Sizes \subseteq Nat \ {0}
    /\ InodesPerBlock \in Nat \ {0, 1}
    /\ BitsPerBlock \in Nat \ {0, 1}

VARIABLES
    disk,     \* what each block of the partition holds
    phase,    \* what is written or read next
    off,      \* block the next write goes to
    i,        \* blocks of this phase written or read so far
    overflow, \* write_bfree_blocks wrote past its one-block buffer
    ifree,    \* set bits of sbi->ifree_bitmap
    bfree     \* set bits of sbi->bfree_bitmap

vars == <<disk, phase, off, i, overflow, ifree, bfree>>

nr_blocks == Cardinality(DOMAIN disk)

\* Mutant of idiv_ceil: plain division.
idiv_floor(a, b) == a \div b

idiv_ceil(a, b) == IF a % b # 0 THEN a \div b + 1 ELSE a \div b

\* write_superblock: "rounding up" adds the remainder itself.
nr_inodes == nr_blocks + (nr_blocks % InodesPerBlock)
nr_istore_blocks == idiv_ceil(nr_inodes, InodesPerBlock)
nr_ifree_blocks == idiv_ceil(nr_inodes, BitsPerBlock)
nr_bfree_blocks == idiv_ceil(nr_blocks, BitsPerBlock)
nr_data_blocks == nr_blocks - 1 - nr_istore_blocks - nr_ifree_blocks - nr_bfree_blocks

Superblock ==
    [kind |-> "super", nr_inodes |-> nr_inodes, nr_istore_blocks |-> nr_istore_blocks,
     nr_ifree_blocks |-> nr_ifree_blocks, nr_bfree_blocks |-> nr_bfree_blocks,
     nr_free_inodes |-> nr_inodes - 1, nr_free_blocks |-> nr_data_blocks - 1]

Raw == [kind |-> "raw"]

Init ==
    /\ \E n \in Sizes : disk = [b \in 0..(n - 1) |-> Raw]
    /\ phase = "super" /\ off = 0 /\ i = 0
    /\ overflow = FALSE /\ ifree = {} /\ bfree = {}
-----------------------------------------------------------------------------
(* mkfs: every write may fail, which ends it *)

\* write(fd, block): one block at the file offset.
Write(content) == disk' = [disk EXCEPT ![off] = content] /\ off' = off + 1

\* The loop of this phase is at its end after count blocks.
Continue(count, next) ==
    IF i + 1 < count THEN i' = i + 1 /\ UNCHANGED phase ELSE i' = 0 /\ phase' = next

write_superblock ==
    /\ phase = "super"
    /\ Write(Superblock)
    /\ phase' = "istore"
    /\ UNCHANGED <<i, overflow, ifree, bfree>>

\* Mutant of FirstDataBlock: the superblock is not counted.
FirstDataBlockEarly == nr_bfree_blocks + nr_ifree_blocks + nr_istore_blocks

FirstDataBlock == 1 + nr_bfree_blocks + nr_ifree_blocks + nr_istore_blocks

\* The first block of the store holds the root inode; one block is written
\* whatever nr_istore_blocks is.
write_inode_store ==
    /\ phase = "istore"
    /\ Write([kind |-> "istore", root |-> IF i = 0 THEN FirstDataBlock ELSE 0])
    /\ Continue(nr_istore_blocks, "ifree")
    /\ UNCHANGED <<overflow, ifree, bfree>>

\* Inodes 0 and 1 are used.
write_ifree_blocks ==
    /\ phase = "ifree"
    /\ Write([kind |-> "ifree",
              bits |-> IF i = 0 THEN 2..(BitsPerBlock - 1) ELSE 0..(BitsPerBlock - 1)])
    /\ Continue(nr_ifree_blocks, "bfree")
    /\ UNCHANGED <<overflow, ifree, bfree>>

\* Mutant of NrUsed: the root directory's block is not counted.
NrUsedNoRoot == nr_istore_blocks + nr_ifree_blocks + nr_bfree_blocks + 1

\* The used blocks: superblock, inode store, bitmaps and one directory block.
NrUsed == nr_istore_blocks + nr_ifree_blocks + nr_bfree_blocks + 2

\* The bits of the used blocks are cleared in the first block of the bitmap.
write_bfree_blocks ==
    /\ phase = "bfree"
    /\ Write([kind |-> "bfree",
              bits |-> IF i = 0 THEN NrUsed..(BitsPerBlock - 1) ELSE 0..(BitsPerBlock - 1)])
    /\ overflow' = (overflow \/ NrUsed > BitsPerBlock)
    /\ Continue(nr_bfree_blocks, "root")
    /\ UNCHANGED <<ifree, bfree>>

write_root_index_block ==
    /\ phase = "root"
    /\ Write([kind |-> "root"])
    /\ phase' = "made"
    /\ UNCHANGED <<i, overflow, ifree, bfree>>

\* A short write: mkfs gives up and leaves what it has written.
WriteFails ==
    /\ phase \in {"super", "istore", "ifree", "bfree", "root"}
    /\ phase' = "failed"
    /\ UNCHANGED <<disk, off, i, overflow, ifree, bfree>>
-----------------------------------------------------------------------------
(* ouichefs_fill_super, from the counts in block 0 *)

sb == disk[0]

Mount ==
    /\ phase = "made"
    /\ i' = 0 /\ phase' = "read_ifree"
    /\ UNCHANGED <<disk, off, overflow, ifree, bfree>>

\* The bits of the i-th block of a bitmap, as bits of the whole bitmap.
BitsRead(idx) == {i * BitsPerBlock + b : b \in disk[idx].bits}

read_ifree ==
    /\ phase = "read_ifree"
    /\ ifree' = ifree \cup BitsRead(sb.nr_istore_blocks + i + 1)
    /\ Continue(sb.nr_ifree_blocks, "read_bfree")
    /\ UNCHANGED <<disk, off, overflow, bfree>>

read_bfree ==
    /\ phase = "read_bfree"
    /\ bfree' = bfree \cup BitsRead(sb.nr_istore_blocks + sb.nr_ifree_blocks + i + 1)
    /\ Continue(sb.nr_bfree_blocks, "mounted")
    /\ UNCHANGED <<disk, off, overflow, ifree>>

\* sb_bread or kzalloc fails: everything read so far is dropped.
MountFails ==
    /\ phase \in {"read_ifree", "read_bfree"}
    /\ phase' = "made" /\ i' = 0 /\ ifree' = {} /\ bfree' = {}
    /\ UNCHANGED <<disk, off, overflow>>

\* The block ouichefs_iget reads an inode from.
InodeBlock(ino) == ino \div InodesPerBlock + 1

Next ==
    \/ write_superblock \/ write_inode_store \/ write_ifree_blocks \/ write_bfree_blocks
    \/ write_root_index_block \/ WriteFails
    \/ Mount \/ read_ifree \/ read_bfree \/ MountFails

Spec == Init /\ [][Next]_vars
-----------------------------------------------------------------------------
(* After a mount the free blocks that get_free_block can find are exactly   *)
(* the ones mkfs left alone, and nr_free_blocks is their number.            *)
FreeBlocksAreData ==
    phase = "mounted" =>
        LET free == {b \in bfree : b < nr_blocks}
        IN /\ free = {b \in DOMAIN disk : disk[b] = Raw}
           /\ sb.nr_free_blocks = Cardinality(free)

(* Every inode number below nr_inodes, and every free one get_free_inode    *)
(* can find, has its place in a block mkfs wrote as inode store, although   *)
(* nr_inodes is not rounded to a multiple of the inodes per block.          *)
InodesHavePlace ==
    phase = "mounted" =>
        /\ \A ino \in 0..(sb.nr_inodes - 1) : disk[InodeBlock(ino)].kind = "istore"
        /\ {ino \in ifree : ino < sb.nr_inodes} = 2..(sb.nr_inodes - 1)

(* The block the root inode names is the directory block mkfs wrote, and it *)
(* is not free.                                                             *)
RootFound ==
    phase = "mounted" =>
        LET root == disk[InodeBlock(1)].root
        IN disk[root].kind = "root" /\ root \notin bfree

(* "Number of free inodes" (mkfs-ouichefs.c, ouichefs.h).                   *)
FreeInodesCounted ==
    phase = "mounted" =>
        sb.nr_free_inodes = Cardinality({ino \in ifree : ino < sb.nr_inodes})

(* "The maximum number of inodes is equal to the number of blocks of the    *)
(* partition" (README).                                                     *)
InodesAsManyAsBlocks == phase = "mounted" => sb.nr_inodes = nr_blocks

(* "we suppose it won't go further than the first block"                    *)
(* (mkfs-ouichefs.c).                                                       *)
FirstBlockSuffices == ~overflow
=============================================================================
