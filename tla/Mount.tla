-------------------------------- MODULE Mount --------------------------------
(***************************************************************************)
(* What of ouichefs is in memory and what is on the disk: mounting,        *)
(* write-back, sync, unmounting, and crashes in between.                   *)
(*                                                                         *)
(* Three copies are kept.  The kernel's structures (superblock counters,   *)
(* bitmaps, inodes) are mem; the buffers of the superblock, the bitmaps    *)
(* and the directory are buf; disk is what a crash leaves.  The counters   *)
(* and bitmaps reach their buffers only in ouichefs_sync_fs, an inode goes *)
(* to the disk when ouichefs_write_inode writes it, the directory's        *)
(* changes are made in its buffer, and a dirty buffer may be written at    *)
(* any time.  A file's data is written at once.                            *)
(*                                                                         *)
(* All files are in one directory and have at most one block; a file is    *)
(* its inode number.  Which free inode or block is taken is left open.     *)
(***************************************************************************)
EXTENDS Integers, Sequences, FiniteSets

CONSTANTS
    Files,       \* inode numbers of files
    Blocks,      \* data blocks
    None,        \* no block, no file, no record
    MaxFaults,   \* bound on the number of crashes and of failed reads while mounted
    MaxOps,      \* bound on the number of files created, written and deleted
    MaxEntries   \* bound: entries of the directory that name the same inode

ASSUME MountAssumption ==
    /\ IsFiniteSet(Files) /\ IsFiniteSet(Blocks) /\ None \notin Blocks \cup Files
    /\ MaxFaults \in Nat /\ MaxOps \in Nat /\ MaxEntries \in Nat \ {0}

VARIABLES
    stage,    \* how far loading and mounting have come
    alloc,    \* what the module has allocated
    uaf,      \* ouichefs_put_super used a freed sbi
    mem,      \* the counters and bitmaps of sbi
    buf,      \* the buffers of the superblock, the bitmaps and the directory
    disk,     \* what the partition holds of them
    inode,    \* inode[f]: index_block of the inode in memory
    itable,   \* itable[f]: index_block in the inode store on the partition
    data,     \* data[b]: the file whose data is in block b
    dirty,    \* inodes marked dirty
    sync,     \* the step of sync_filesystem that is next, or "none"
    lost,     \* history: inodes whose last write failed
    quiet,    \* history: files not touched since the sync in progress began
    synced,   \* history: files of a completed sync that were not touched since
    damaged,  \* history: "left" by a crash or a failed unmount, then mounted: "used"
    saved,    \* history: what a clean unmount saved, until the next change
    ops,      \* files created, written and deleted so far
    faults    \* crashes and failed reads so far

filevars == <<mem, buf, disk, inode, itable, data, dirty>>
histvars == <<lost, quiet, synced, damaged, saved>>
counts == <<ops, faults>>
vars == <<stage, alloc, uaf, filevars, sync, histvars, counts>>
-----------------------------------------------------------------------------
(* The steps of ouichefs_init and ouichefs_fill_super, in their order *)

LoadSteps == <<"unloaded", "sysfs_root", "cache", "loaded">>
MountSteps == <<"loaded", "sbi", "ifree", "ifree_read", "bfree", "bfree_read", "root",
                "dentry", "on">>
After(steps, s) == steps[(CHOOSE i \in DOMAIN steps : steps[i] = s) + 1]

\* What the step that follows a stage allocates.
Takes(s) ==
    CASE s = "unloaded" -> {"sysfs_root"} [] s = "sysfs_root" -> {"cache"}
      [] s = "cache" -> {"fs", "device"} [] s = "loaded" -> {"sbi"} [] s = "sbi" -> {"ifree"}
      [] s = "ifree_read" -> {"bfree"} [] s = "bfree_read" -> {"root"}
      [] s = "dentry" -> {"kobj"} [] OTHER -> {}

\* Mutant of Unwinds: a bitmap is only freed if it was read.
UnwindsRead(s) ==
    CASE s = "sysfs_root" -> {"sysfs_root"} [] s = "cache" -> {"cache", "sysfs_root"}
      [] s \in {"sbi", "ifree"} -> {"sbi"} [] s \in {"ifree_read", "bfree"} -> {"ifree", "sbi"}
      [] s = "bfree_read" -> {"bfree", "ifree", "sbi"}
      [] s = "root" -> {"root", "bfree", "ifree", "sbi"}
      [] s = "dentry" -> {"root", "bfree", "ifree", "sbi"} [] OTHER -> {}

\* What is freed when the step that follows a stage fails: the chain of labels
\* err_inode, err_sysfs and free_root, free_bfree, free_ifree, free_sbi.  The
\* root inode is put by d_make_root when that fails, and with the root dentry.
Unwinds(s) ==
    CASE s = "sysfs_root" -> {"sysfs_root"} [] s = "cache" -> {"cache", "sysfs_root"}
      [] s = "sbi" -> {"sbi"} [] s \in {"ifree", "ifree_read"} -> {"ifree", "sbi"}
      [] s \in {"bfree", "bfree_read"} -> {"bfree", "ifree", "sbi"}
      [] s = "root" -> {"root", "bfree", "ifree", "sbi"}
      [] s = "dentry" -> {"root", "bfree", "ifree", "sbi"} [] OTHER -> {}

Loading == {"unloaded", "sysfs_root", "cache"}
Mounting == {MountSteps[i] : i \in 1..(Len(MountSteps) - 1)}
-----------------------------------------------------------------------------
(* State *)

Blank == [sb |-> [inodes |-> 0, blocks |-> 0], ifree |-> {}, bfree |-> {}]

\* What mkfs leaves.  It counts one free inode more than it has set bits: the
\* bits of inodes 0 and 1 are clear, and the counter is nr_inodes - 1.
Everything == [sb |-> [inodes |-> Cardinality(Files) + 1, blocks |-> Cardinality(Blocks)],
               ifree |-> Files, bfree |-> Blocks, dir |-> [f \in Files |-> 0]]
NoBlocks == [f \in Files |-> None]

Pieces == {"sb", "ifree", "bfree", "dir"}

Counters == [inodes : Int, blocks : Int]
Memory == [sb : Counters, ifree : SUBSET Files, bfree : SUBSET Blocks]
Partition == [sb : Counters, ifree : SUBSET Files, bfree : SUBSET Blocks,
              dir : [Files -> 0..MaxEntries]]
Pointers == [Files -> Blocks \cup {None}]

StageOK ==
    /\ stage \in {"broken", "umount", "on"} \cup Loading \cup Mounting
    /\ alloc \subseteq {"sysfs_root", "cache", "fs", "device", "sbi", "ifree", "bfree", "root", "kobj"}
    /\ sync \in {"none", "sb", "ifree", "bfree", "inodes", "sb_wait", "ifree_wait", "bfree_wait", "flush"}
    /\ damaged \in {"no", "left", "used"}
    /\ ops \in 0..MaxOps /\ faults \in 0..MaxFaults
CopiesOK ==
    /\ mem \in Memory /\ buf \in Partition /\ disk \in Partition
InodesOK ==
    /\ inode \in Pointers /\ itable \in Pointers /\ data \in [Blocks -> Files \cup {None}]
    /\ dirty \subseteq Files /\ lost \subseteq Files /\ quiet \subseteq Files /\ synced \subseteq Files

TypeOK == StageOK /\ CopiesOK /\ InodesOK /\ uaf \in BOOLEAN

\* A freshly formatted partition, and no module.
Init ==
    /\ stage = "unloaded" /\ alloc = {} /\ uaf = FALSE
    /\ mem = Blank /\ disk = Everything /\ buf = disk
    /\ inode = NoBlocks /\ itable = NoBlocks /\ data = [b \in Blocks |-> None]
    /\ dirty = {} /\ sync = "none" /\ lost = {} /\ quiet = {} /\ synced = {}
    /\ saved = None /\ damaged = "no" /\ ops = 0 /\ faults = 0
-----------------------------------------------------------------------------
(* Loading the module *)

LoadStep ==
    /\ stage \in Loading
    /\ stage' = After(LoadSteps, stage)
    /\ alloc' = alloc \cup Takes(stage)
    /\ UNCHANGED <<uaf, filevars, sync, histvars, counts>>

LoadFails ==
    /\ stage \in Loading
    /\ stage' = "unloaded"
    /\ alloc' = alloc \ Unwinds(stage)
    /\ UNCHANGED <<uaf, filevars, sync, histvars, counts>>

Unload ==
    /\ stage = "loaded"
    /\ stage' = "unloaded"
    /\ alloc' = alloc \ {"device", "fs", "cache", "sysfs_root"}
    /\ UNCHANGED <<uaf, filevars, sync, histvars, counts>>
-----------------------------------------------------------------------------
(* Mounting *)

MountStep ==
    /\ stage \in Mounting
    /\ stage' = After(MountSteps, stage)
    /\ alloc' = alloc \cup Takes(stage)
    /\ mem' = CASE stage = "loaded" -> [mem EXCEPT !.sb = buf.sb]
                [] stage = "ifree" -> [mem EXCEPT !.ifree = buf.ifree]
                [] stage = "bfree" -> [mem EXCEPT !.bfree = buf.bfree]
                [] OTHER -> mem
    /\ inode' = IF stage = "dentry" THEN itable ELSE inode   \* by ouichefs_iget, later
    /\ damaged' = IF stage = "dentry" /\ damaged = "left" THEN "used" ELSE damaged
    /\ UNCHANGED <<uaf, buf, disk, itable, data, dirty, sync, lost, quiet, synced, saved, counts>>

\* A read or an allocation fails.  After a failure to register with sysfs
\* s_root is set, so the kernel calls ouichefs_put_super for the freed sbi.
MountFails ==
    /\ stage \in Mounting
    /\ alloc' = alloc \ Unwinds(stage)
    /\ IF stage = "dentry" THEN stage' = "broken" /\ uaf' = TRUE
                           ELSE stage' = "loaded" /\ uaf' = uaf
    /\ mem' = Blank
    /\ UNCHANGED <<buf, disk, inode, itable, data, dirty, sync, histvars, counts>>
-----------------------------------------------------------------------------
(* Files *)

\* Mutant of MarkDirty: only a new inode is marked.
MarkDirtyNew(f) == dirty \cup (IF inode[f] = None /\ f \in mem.ifree THEN {f} ELSE {})
MarkDirty(f) == dirty \cup {f}

Touch(f) ==
    /\ ops < MaxOps /\ ops' = ops + 1
    /\ quiet' = quiet \ {f}
    /\ synced' = synced \ {f}
    /\ saved' = None

\* ouichefs_create of a regular file.
Create(f) ==
    /\ stage = "on" /\ f \in mem.ifree /\ buf.dir[f] < MaxEntries
    /\ mem.sb.inodes > 0 /\ mem.sb.blocks > 0
    /\ mem' = [mem EXCEPT !.ifree = @ \ {f}, !.sb.inodes = @ - 1]
    /\ buf' = [buf EXCEPT !.dir[f] = @ + 1]
    /\ inode' = [inode EXCEPT ![f] = None]
    /\ dirty' = MarkDirty(f)
    /\ Touch(f)
    /\ UNCHANGED <<stage, alloc, uaf, disk, itable, data, sync, lost, damaged, faults>>

\* The first write to a file: a block is taken and its content synced.
Write(f, b) ==
    /\ stage = "on" /\ buf.dir[f] > 0 /\ inode[f] = None
    /\ b \in mem.bfree /\ mem.sb.blocks > 0
    /\ mem' = [mem EXCEPT !.bfree = @ \ {b}, !.sb.blocks = @ - 1]
    /\ inode' = [inode EXCEPT ![f] = b]
    /\ data' = [data EXCEPT ![b] = f]
    /\ dirty' = MarkDirty(f)
    /\ Touch(f)
    /\ UNCHANGED <<stage, alloc, uaf, buf, disk, itable, sync, lost, damaged, faults>>

\* Mutant of PutBlocks: the counter is forgotten.
PutBlocksUncounted(m, bs) == [m EXCEPT !.bfree = @ \cup bs]

\* What is put back on a bitmap counts again.
PutBlocks(m, bs) == [m EXCEPT !.bfree = @ \cup bs, !.sb.blocks = @ + Cardinality(bs)]
PutInode(m, f) == [m EXCEPT !.ifree = @ \cup {f}, !.sb.inodes = @ + 1]

\* ouichefs_unlink.  The cleared inode is marked dirty, but with no link left
\* it is dropped without being written unless write-back meets it first
\* (written): the next ouichefs_iget sees what the inode store then has.
Delete(f, written) ==
    /\ stage = "on" /\ buf.dir[f] > 0
    /\ LET owned == {inode[f]} \ {None} IN
         /\ mem' = PutInode(PutBlocks(mem, owned), f)
         /\ data' = [b \in Blocks |-> IF b \in owned THEN None ELSE data[b]]
    /\ buf' = [buf EXCEPT !.dir[f] = @ - 1]
    /\ itable' = IF written THEN [itable EXCEPT ![f] = None] ELSE itable
    /\ inode' = [inode EXCEPT ![f] = itable'[f]]
    /\ dirty' = dirty \ {f}
    /\ Touch(f)
    /\ UNCHANGED <<stage, alloc, uaf, disk, sync, lost, damaged, faults>>
-----------------------------------------------------------------------------
(* Write-back *)

Fault == faults < MaxFaults /\ faults' = faults + 1

WriteInode(f) ==
    /\ itable' = [itable EXCEPT ![f] = inode[f]]
    /\ lost' = lost \ {f}

\* ouichefs_write_inode, which the kernel calls for a dirty inode at any time.
WriteBackInode(f) ==
    /\ stage \in {"on", "umount"} /\ f \in dirty
    /\ dirty' = dirty \ {f}
    /\ WriteInode(f)
    /\ UNCHANGED <<stage, alloc, uaf, mem, buf, disk, inode, data, sync, quiet, synced, damaged, saved, counts>>

\* The block of the inode store cannot be read: the inode is not dirty any
\* more, and nobody is told.
WriteInodeFails(f) ==
    /\ stage \in {"on", "umount"} /\ f \in dirty
    /\ Fault
    /\ dirty' = dirty \ {f}
    /\ lost' = lost \cup {f}
    /\ quiet' = quiet \ {f}
    /\ saved' = None
    /\ UNCHANGED <<stage, alloc, uaf, mem, buf, disk, inode, itable, data, sync, synced, damaged, ops>>

\* The kernel writes a dirty buffer.
WriteBackBuffer(p) ==
    /\ stage \in {"on", "umount"} /\ buf[p] # disk[p]
    /\ disk' = [disk EXCEPT ![p] = buf[p]]
    /\ UNCHANGED <<stage, alloc, uaf, mem, buf, inode, itable, data, dirty, sync, histvars, counts>>
-----------------------------------------------------------------------------
(* sync_filesystem: sync_fs without and with waiting, the inodes between them *)

SyncSteps == <<"sb", "ifree", "bfree", "inodes", "sb_wait", "ifree_wait", "bfree_wait",
               "flush", "none">>

PieceOf(s) ==
    CASE s \in {"sb", "sb_wait"} -> "sb" [] s \in {"ifree", "ifree_wait"} -> "ifree"
      [] s \in {"bfree", "bfree_wait"} -> "bfree"

SyncBegin ==
    /\ stage = "on" /\ sync = "none"
    /\ sync' = "sb"
    /\ quiet' = {f \in Files \ lost : buf.dir[f] > 0 /\ inode[f] # None}
    /\ UNCHANGED <<stage, alloc, uaf, filevars, lost, synced, damaged, saved, counts>>

\* Mutant of Copied: the block bitmap is left out.
CopiedInodes(to, p) == IF p = "bfree" THEN to ELSE [to EXCEPT ![p] = mem[p]]
Copied(to, p) == [to EXCEPT ![p] = mem[p]]

\* sync_sb_info, sync_ifree and sync_bfree.
SyncCopy ==
    /\ sync \in {"sb", "ifree", "bfree", "sb_wait", "ifree_wait", "bfree_wait"}
    /\ buf' = Copied(buf, PieceOf(sync))
    /\ disk' = IF sync \in {"sb_wait", "ifree_wait", "bfree_wait"}
               THEN Copied(disk, PieceOf(sync)) ELSE disk
    /\ sync' = After(SyncSteps, sync)
    /\ UNCHANGED <<stage, alloc, uaf, mem, inode, itable, data, dirty, histvars, counts>>

\* A block cannot be read: ouichefs_sync_fs and sync_filesystem give up.
SyncFails ==
    /\ sync \in {"sb", "ifree", "bfree", "sb_wait", "ifree_wait", "bfree_wait"}
    /\ Fault
    /\ sync' = "none"
    /\ quiet' = {} /\ saved' = None
    /\ UNCHANGED <<stage, alloc, uaf, filevars, lost, synced, damaged, ops>>

\* sync_inodes_sb: every inode that was dirty is written, one by one, by then.
SyncInodes ==
    /\ sync = "inodes" /\ dirty \cap quiet = {} /\ (stage = "umount" => dirty = {})
    /\ sync' = "sb_wait"
    /\ UNCHANGED <<stage, alloc, uaf, filevars, histvars, counts>>

\* sync_blockdev writes the buffers that are still dirty.
SyncFlush ==
    /\ sync = "flush"
    /\ sync' = "none"
    /\ disk' = buf
    /\ synced' = IF damaged = "no" THEN synced \cup quiet ELSE synced
    /\ quiet' = {}
    /\ UNCHANGED <<stage, alloc, uaf, mem, buf, inode, itable, data, dirty, lost, damaged, saved, counts>>
-----------------------------------------------------------------------------
(* Unmounting, and crashes *)

Linked == {f \in Files : buf.dir[f] > 0}
Contents == [sb |-> mem.sb, ifree |-> mem.ifree, bfree |-> mem.bfree, dir |-> buf.dir,
             inode |-> [f \in Linked |-> inode[f]]]

\* generic_shutdown_super: no call is running, the file system is synced.
Unmount ==
    /\ stage = "on" /\ sync = "none"
    /\ stage' = "umount" /\ sync' = "sb"
    /\ quiet' = {f \in Linked \ lost : inode[f] # None}
    /\ saved' = IF lost = {} THEN Contents ELSE None
    /\ UNCHANGED <<alloc, uaf, filevars, lost, synced, damaged, counts>>

\* What ouichefs_put_super frees; the root dentry went before.
PutSuperFrees == {"root", "kobj", "ifree", "bfree", "sbi"}

\* Then kill_block_super writes the dirty buffers, whatever the sync did.
PutSuper ==
    /\ stage = "umount" /\ sync = "none"
    /\ stage' = "loaded"
    /\ alloc' = alloc \ PutSuperFrees
    /\ mem' = Blank /\ inode' = NoBlocks /\ dirty' = {} /\ lost' = {}
    /\ disk' = buf
    /\ damaged' = IF damaged = "no" /\ saved = None THEN "left" ELSE damaged
    /\ UNCHANGED <<uaf, buf, itable, data, sync, quiet, synced, saved, counts>>

\* Power is lost: only the partition is left.
Crash ==
    /\ Fault /\ stage # "unloaded"
    /\ stage' = "unloaded" /\ alloc' = {} /\ uaf' = FALSE
    /\ mem' = Blank /\ buf' = disk /\ inode' = NoBlocks /\ dirty' = {} /\ sync' = "none"
    /\ lost' = {} /\ quiet' = {}
    /\ IF stage \in {"on", "umount"}
       THEN saved' = None /\ damaged' = IF damaged = "no" THEN "left" ELSE damaged
       ELSE UNCHANGED <<saved, damaged>>
    /\ UNCHANGED <<disk, itable, data, synced, ops>>
-----------------------------------------------------------------------------
Next ==
    \/ LoadStep \/ LoadFails \/ Unload \/ MountStep \/ MountFails
    \/ \E f \in Files : Create(f)
    \/ \E f \in Files, b \in Blocks : Write(f, b)
    \/ \E f \in Files, written \in BOOLEAN : Delete(f, written)
    \/ \E f \in Files : WriteBackInode(f)
    \/ \E f \in Files : WriteInodeFails(f)
    \/ \E p \in Pieces : WriteBackBuffer(p)
    \/ SyncBegin \/ SyncCopy \/ SyncFails \/ SyncInodes \/ SyncFlush
    \/ Unmount \/ PutSuper \/ Crash

Spec == Init /\ [][Next]_vars
-----------------------------------------------------------------------------
(* Properties *)

\* Whatever step of loading or mounting fails, and after every unmount,
\* exactly what the module needs is allocated: ouichefs_fill_super,
\* ouichefs_init and ouichefs_put_super free all they took.
NothingLeft ==
    /\ stage = "unloaded" => alloc = {}
    /\ stage = "loaded" => alloc = {"sysfs_root", "cache", "fs", "device"}

\* After an unmount that met no error the next mount finds every counter,
\* bitmap, directory entry and inode as it was, however often the module is
\* reloaded or a mount fails in between.
CleanRemount == stage = "on" /\ saved # None => Contents = saved

WholeOnDisk(f) ==
    /\ disk.dir[f] > 0 /\ f \notin disk.ifree
    /\ \E b \in Blocks : itable[f] = b /\ b \notin disk.bfree /\ data[b] = f

\* A file that a sync completed for, and that nobody touched since, is whole
\* on the partition at every moment, whatever other files do and whatever is
\* written back half way: its entry, its inode, both bitmap bits and its data.
\* A crash or an unmount that fails at any point takes nothing of it.
SyncedSurvives == damaged # "used" => \A f \in synced : WholeOnDisk(f)

\* A partition that is not mounted and never met a crash or a failed unmount
\* is what a checker would want it to be: the inode bitmap is the directory's,
\* the block of every file is marked used and holds that file's data, so no
\* two files have one block.  The free-inode counter is still exactly the one
\* too high that mkfs made it, and the free-block counter is never too low.
PartitionSound ==
    /\ \A f \in Files : f \in disk.ifree <=> disk.dir[f] = 0
    /\ \A f \in Files : disk.dir[f] > 0 /\ itable[f] # None =>
         itable[f] \notin disk.bfree /\ data[itable[f]] = f
    /\ disk.sb.inodes = Cardinality(disk.ifree) + 1
    /\ disk.sb.blocks >= Cardinality(disk.bfree)

CleanIsSound == damaged = "no" /\ stage \notin {"on", "umount"} => PartitionSound

\* Not so: it stays whole when the partition is mounted again after a crash.
SyncedSurvivesRemount == \A f \in synced : WholeOnDisk(f)

\* Not so: ouichefs_put_super is only called for a live sbi.
NoUseAfterFree == ~uaf

\* Not so: no inode on the partition has a block that the bitmap there has as free.
NoBlockUsedAndFree ==
    \A f \in Files : disk.dir[f] > 0 /\ f \notin disk.ifree => itable[f] \notin disk.bfree
=============================================================================
