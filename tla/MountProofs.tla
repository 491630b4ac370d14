----------------------------- MODULE MountProofs -----------------------------
(* Theorems about Mount, for every number of files and blocks and every     *)
(* number of operations and faults.                                         *)
EXTENDS Mount, FiniteSetTheorems, TLAPS

Live == {"on", "umount"}

\* What is allocated at a stage.
Module == {"sysfs_root", "cache", "fs", "device"}
AllocAt(s) ==
    CASE s = "unloaded" -> {} [] s = "sysfs_root" -> {"sysfs_root"}
      [] s = "cache" -> {"sysfs_root", "cache"} [] s = "loaded" -> Module
      [] s = "sbi" -> Module \cup {"sbi"}
      [] s \in {"ifree", "ifree_read"} -> Module \cup {"sbi", "ifree"}
      [] s \in {"bfree", "bfree_read"} -> Module \cup {"sbi", "ifree", "bfree"}
      [] s \in {"root", "dentry"} -> Module \cup {"sbi", "ifree", "bfree", "root"}
      [] OTHER -> Module \cup {"sbi", "ifree", "bfree", "root", "kobj"}
AllocInv == stage # "broken" => alloc = AllocAt(stage)

\* Outside of a mount nothing is dirty and the buffers are what the disk has.
AtRest ==
    stage \notin Live => disk = buf /\ dirty = {} /\ lost = {} /\ sync = "none"

\* An inode in memory that is not dirty is the one in the inode store, unless
\* its last write failed.
CleanInodes ==
    stage \in Live => \A f \in Files \ (dirty \cup lost) : itable[f] = inode[f]

\* What the mount has read so far.
HasSb == {"sbi", "ifree", "ifree_read", "bfree", "bfree_read", "root", "dentry"}
HasIfree == {"ifree_read", "bfree", "bfree_read", "root", "dentry"}
HasBfree == {"bfree_read", "root", "dentry"}
ReadIn ==
    /\ stage \in HasSb => mem.sb = buf.sb
    /\ stage \in HasIfree => mem.ifree = buf.ifree
    /\ stage \in HasBfree => mem.bfree = buf.bfree

\* The steps of sync_filesystem that come after a given one.
PastSb == {"ifree", "bfree", "inodes", "sb_wait", "ifree_wait", "bfree_wait", "flush", "none"}
PastIfree == PastSb \ {"ifree"}
PastBfree == PastIfree \ {"bfree"}
PastInodes == PastBfree \ {"inodes"}

\* What the next mount will find.
InBuffers == [sb |-> buf.sb, ifree |-> buf.ifree, bfree |-> buf.bfree, dir |-> buf.dir,
              inode |-> [f \in Linked |-> itable[f]]]

\* What an unmount that has met no error so far has brought to the buffers and
\* the inode store.
SavedInv ==
    saved # None =>
      /\ stage \in Live => Contents = saved
      /\ stage = "umount" =>
           /\ lost = {}
           /\ sync \in PastSb => buf.sb = mem.sb
           /\ sync \in PastIfree => buf.ifree = mem.ifree
           /\ sync \in PastBfree => buf.bfree = mem.bfree
           /\ sync \in PastInodes => dirty = {}
      /\ stage \notin Live => InBuffers = saved

\* A directory, an inode bitmap, a block bitmap and inodes that agree.
Agree(dir, ifr, bfr, ino) ==
    /\ \A f \in Files : (f \in ifr <=> dir[f] = 0) /\ dir[f] <= 1
    /\ \A f \in Files : dir[f] > 0 /\ ino[f] # None =>
         ino[f] \in Blocks /\ ino[f] \notin bfr /\ data[ino[f]] = f

\* As long as there was no crash, memory agrees while mounted, and the
\* partition otherwise.
Consistent ==
    damaged = "no" =>
      /\ stage \in Live => Agree(buf.dir, mem.ifree, mem.bfree, inode)
      /\ stage \notin Live => Agree(buf.dir, buf.ifree, buf.bfree, itable)

\* What is known of a file that nobody has touched since a sync began.
NoQuiet == sync = "none" => quiet = {}
QuietInv ==
    damaged = "no" /\ stage \in Live =>
      \A f \in quiet :
        /\ buf.dir[f] > 0 /\ inode[f] # None /\ f \notin lost
        /\ sync \in PastIfree => f \notin buf.ifree
        /\ sync \in PastBfree => inode[f] \notin buf.bfree
        /\ sync \in PastInodes => f \notin dirty

\* What is known of a file that a sync completed for.
WholeInBuffers(f) == buf.dir[f] > 0 /\ f \notin buf.ifree /\ itable[f] \notin buf.bfree
SyncedInv ==
    /\ damaged # "used" => \A f \in synced : WholeOnDisk(f)
    /\ damaged = "no" =>
         \A f \in synced : WholeInBuffers(f) /\ f \notin dirty \cup lost

DamagedInv == damaged = "left" => stage \notin Live

-----------------------------------------------------------------------------
(* The sequences of steps *)

LEMMA Stages ==
    Mounting = {"loaded", "sbi", "ifree", "ifree_read", "bfree", "bfree_read", "root", "dentry"}
BY DEF Mounting, MountSteps

LEMMA AfterLoad ==
    /\ After(LoadSteps, "unloaded") = "sysfs_root"
    /\ After(LoadSteps, "sysfs_root") = "cache"
    /\ After(LoadSteps, "cache") = "loaded"
BY DEF After, LoadSteps

LEMMA AfterMount ==
    /\ After(MountSteps, "loaded") = "sbi" /\ After(MountSteps, "sbi") = "ifree"
    /\ After(MountSteps, "ifree") = "ifree_read" /\ After(MountSteps, "ifree_read") = "bfree"
    /\ After(MountSteps, "bfree") = "bfree_read" /\ After(MountSteps, "bfree_read") = "root"
    /\ After(MountSteps, "root") = "dentry" /\ After(MountSteps, "dentry") = "on"
BY DEF After, MountSteps

LEMMA AfterSync ==
    /\ After(SyncSteps, "sb") = "ifree" /\ After(SyncSteps, "ifree") = "bfree"
    /\ After(SyncSteps, "bfree") = "inodes" /\ After(SyncSteps, "sb_wait") = "ifree_wait"
    /\ After(SyncSteps, "ifree_wait") = "bfree_wait"
    /\ After(SyncSteps, "bfree_wait") = "flush"
BY DEF After, SyncSteps
-----------------------------------------------------------------------------
(* Types *)

\* A piece copied from one record to another.
LEMMA CopiedType ==
    ASSUME TypeOK, NEW to \in Partition, NEW p \in {"sb", "ifree", "bfree"}
    PROVE  Copied(to, p) \in Partition
BY DEF TypeOK, CopiesOK, Memory, Partition, Copied

LEMMA PieceType ==
    ASSUME TypeOK, NEW p \in Pieces
    PROVE  [disk EXCEPT ![p] = buf[p]] \in Partition
BY DEF TypeOK, CopiesOK, Partition, Pieces

LEMMA PieceOfSync ==
    ASSUME sync \in {"sb", "ifree", "bfree", "sb_wait", "ifree_wait", "bfree_wait"}
    PROVE  PieceOf(sync) \in {"sb", "ifree", "bfree"}
BY DEF PieceOf

\* What is put back on the bitmaps.
LEMMA PutType ==
    ASSUME NEW m \in Memory, NEW bs \in SUBSET Blocks, NEW f \in Files
    PROVE  PutInode(PutBlocks(m, bs), f) \in Memory
<1> DEFINE sb1 == [m.sb EXCEPT !.blocks = m.sb.blocks + Cardinality(bs)]
           m1 == [m EXCEPT !.bfree = m.bfree \cup bs, !.sb = sb1]
           sb2 == [m1.sb EXCEPT !.inodes = m1.sb.inodes + 1]
<1>1. Cardinality(bs) \in Int
  BY MountAssumption, FS_Subset, FS_CardinalityType
<1>2. m.sb \in Counters
  BY DEF Memory
<1>3. sb1 \in Counters
  BY <1>1, <1>2 DEF Counters
<1>4. PutBlocks(m, bs) = m1
  BY DEF PutBlocks
<1> HIDE DEF sb1
<1>5. m1 \in Memory
  BY <1>3 DEF Memory
<1> HIDE DEF m1
<1>6. m1.sb \in Counters
  BY <1>5 DEF Memory
<1>7. sb2 \in Counters
  BY <1>6 DEF Counters
<1>8. PutInode(m1, f) = [m1 EXCEPT !.ifree = m1.ifree \cup {f}, !.sb = sb2]
  BY DEF PutInode
<1> HIDE DEF sb2
<1>9. PutInode(m1, f) \in Memory
  BY <1>5, <1>7, <1>8 DEF Memory
<1> QED
  BY <1>4, <1>9

LEMMA TypeOKInit == Init => TypeOK
<1> SUFFICES ASSUME Init PROVE TypeOK
  OBVIOUS
<1>1. Cardinality(Files) \in Int /\ Cardinality(Blocks) \in Int
  BY MountAssumption, FS_CardinalityType
<1>2. StageOK
  BY MountAssumption DEF Init, StageOK, Loading
<1>3. CopiesOK
  BY <1>1, MountAssumption DEF Init, CopiesOK, Everything, Blank, Memory, Partition, Counters
<1>4. NoBlocks \in Pointers /\ [b \in Blocks |-> None] \in [Blocks -> Files \cup {None}]
  BY DEF Pointers, NoBlocks
<1>5. InodesOK
  BY <1>4 DEF Init, InodesOK
<1>6. uaf \in BOOLEAN
  BY DEF Init
<1> QED
  BY <1>2, <1>3, <1>5, <1>6 DEF TypeOK

LEMMA StageOKNext == StageOK /\ [Next]_vars => StageOK'
<1> SUFFICES ASSUME StageOK, [Next]_vars PROVE StageOK'
  OBVIOUS
<1> USE DEF StageOK, histvars, counts
<1>1. CASE LoadStep
  BY <1>1, AfterLoad, Stages DEF LoadStep, Loading, Takes
<1>2. CASE LoadFails \/ Unload
  BY <1>2, Stages DEF LoadFails, Unload, Loading
<1>3. CASE MountStep
  BY <1>3, AfterMount, Stages DEF MountStep, Takes
<1>4. CASE MountFails
  BY <1>4, Stages DEF MountFails
<1>5. ASSUME NEW f \in Files, Create(f) PROVE StageOK'
  BY <1>5, MountAssumption DEF Create, Touch
<1>5w. ASSUME NEW f \in Files, NEW b \in Blocks, Write(f, b) PROVE StageOK'
  BY <1>5w, MountAssumption DEF Write, Touch
<1>6. ASSUME NEW f \in Files, NEW written \in BOOLEAN, Delete(f, written) PROVE StageOK'
  BY <1>6, MountAssumption DEF Delete, Touch
<1>7. ASSUME NEW f \in Files, WriteBackInode(f) PROVE StageOK'
  BY <1>7, MountAssumption DEF WriteBackInode
<1>7f. ASSUME NEW f \in Files, WriteInodeFails(f) PROVE StageOK'
  BY <1>7f, MountAssumption DEF WriteInodeFails, Fault
<1>8. ASSUME NEW p \in Pieces, WriteBackBuffer(p) PROVE StageOK'
  BY <1>8 DEF WriteBackBuffer
<1>9. CASE SyncCopy
  BY <1>9, AfterSync DEF SyncCopy
<1>10. CASE SyncBegin \/ SyncInodes \/ SyncFlush
  BY <1>10 DEF SyncBegin, SyncInodes, SyncFlush
<1>10f. CASE SyncFails
  BY <1>10f, MountAssumption DEF SyncFails, Fault
<1>11. CASE Unmount \/ PutSuper
  BY <1>11, Stages DEF Unmount, PutSuper
<1>11c. CASE Crash
  BY <1>11c, MountAssumption DEF Crash, Fault, Loading
<1>12. CASE UNCHANGED vars
  BY <1>12 DEF vars
<1> QED
  BY <1>1, <1>2, <1>3, <1>4, <1>5, <1>5w, <1>6, <1>7, <1>7f, <1>8, <1>9, <1>10, <1>10f, <1>11,
     <1>11c, <1>12 DEF Next

LEMMA CopiesOKNext == TypeOK /\ [Next]_vars => CopiesOK'
<1> SUFFICES ASSUME TypeOK, [Next]_vars PROVE CopiesOK'
  OBVIOUS
<1> USE DEF TypeOK, CopiesOK, filevars
<1>1. CASE LoadStep \/ LoadFails \/ Unload
  BY <1>1 DEF LoadStep, LoadFails, Unload
<1>2. CASE MountStep
  BY <1>2 DEF MountStep, Memory, Partition
<1>3. CASE MountFails \/ PutSuper \/ Crash
  BY <1>3 DEF MountFails, PutSuper, Crash, Blank, Memory, Counters
<1> DEFINE TakeInode == [mem.sb EXCEPT !.inodes = mem.sb.inodes - 1]
           TakeBlock == [mem.sb EXCEPT !.blocks = mem.sb.blocks - 1]
<1>a. mem.sb \in Counters
  BY DEF Memory
<1>b. TakeInode \in Counters /\ TakeBlock \in Counters
  BY <1>a DEF Counters
<1> HIDE DEF TakeInode, TakeBlock
<1>4. ASSUME NEW f \in Files, Create(f) PROVE CopiesOK'
  <2>1. mem' = [mem EXCEPT !.ifree = @ \ {f}, !.sb = TakeInode]
    BY <1>4 DEF Create, TakeInode
  <2>2. mem' \in Memory
    BY <1>b, <2>1 DEF Memory
  <2>3. buf' \in Partition /\ disk' = disk
    BY <1>4, MountAssumption DEF Create, Partition
  <2> QED
    BY <2>2, <2>3
<1>5. ASSUME NEW f \in Files, NEW b \in Blocks, Write(f, b) PROVE CopiesOK'
  <2>1. mem' = [mem EXCEPT !.bfree = @ \ {b}, !.sb = TakeBlock]
    BY <1>5 DEF Write, TakeBlock
  <2>2. mem' \in Memory
    BY <1>b, <2>1 DEF Memory
  <2> QED
    BY <1>5, <2>2 DEF Write
<1>6. ASSUME NEW f \in Files, NEW written \in BOOLEAN, Delete(f, written) PROVE CopiesOK'
  <2>1. {inode[f]} \ {None} \in SUBSET Blocks
    BY DEF InodesOK, Pointers
  <2>2. mem' \in Memory
    BY <1>6, <2>1, FS_Singleton, FS_Subset, PutType DEF Delete
  <2>3. buf' \in Partition /\ disk' = disk
    BY <1>6, MountAssumption DEF Delete, Partition
  <2> QED
    BY <2>2, <2>3
<1>7. ASSUME NEW f \in Files, WriteBackInode(f) \/ WriteInodeFails(f) PROVE CopiesOK'
  BY <1>7 DEF WriteBackInode, WriteInodeFails
<1>8. ASSUME NEW p \in Pieces, WriteBackBuffer(p) PROVE CopiesOK'
  BY <1>8, PieceType DEF WriteBackBuffer
<1>9. CASE SyncCopy
  BY <1>9, CopiedType, PieceOfSync DEF SyncCopy
<1>10. CASE SyncBegin \/ SyncFails \/ SyncInodes \/ SyncFlush \/ Unmount
  BY <1>10 DEF SyncBegin, SyncFails, SyncInodes, SyncFlush, Unmount
<1>11. CASE UNCHANGED vars
  BY <1>11 DEF vars
<1> QED
  BY <1>1, <1>2, <1>3, <1>4, <1>5, <1>6, <1>7, <1>8, <1>9, <1>10, <1>11 DEF Next

LEMMA InodesOKNext == InodesOK /\ [Next]_vars => InodesOK'
<1> SUFFICES ASSUME InodesOK, [Next]_vars PROVE InodesOK'
  OBVIOUS
<1> USE DEF InodesOK, filevars, histvars, Pointers
<1>1. CASE LoadStep \/ LoadFails \/ Unload \/ MountStep \/ MountFails
  BY <1>1 DEF LoadStep, LoadFails, Unload, MountStep, MountFails
<1>2. ASSUME NEW f \in Files, Create(f) PROVE InodesOK'
  BY <1>2 DEF Create, Touch, MarkDirty
<1>2w. ASSUME NEW f \in Files, NEW b \in Blocks, Write(f, b) PROVE InodesOK'
  BY <1>2w DEF Write, Touch, MarkDirty
<1>3. ASSUME NEW f \in Files, NEW written \in BOOLEAN, Delete(f, written) PROVE InodesOK'
  <2>1. itable' \in Pointers /\ inode' = [inode EXCEPT ![f] = itable'[f]]
    BY <1>3 DEF Delete
  <2>2. data' \in [Blocks -> Files \cup {None}]
    BY <1>3 DEF Delete
  <2> QED
    BY <1>3, <2>1, <2>2 DEF Delete, Touch
<1>4. ASSUME NEW f \in Files, WriteBackInode(f) \/ WriteInodeFails(f) PROVE InodesOK'
  BY <1>4 DEF WriteBackInode, WriteInode, WriteInodeFails
<1>5. ASSUME NEW p \in Pieces, WriteBackBuffer(p) PROVE InodesOK'
  BY <1>5 DEF WriteBackBuffer
<1>6. CASE SyncBegin \/ SyncCopy \/ SyncFails \/ SyncInodes \/ SyncFlush \/ Unmount
  BY <1>6 DEF SyncBegin, SyncCopy, SyncFails, SyncInodes, SyncFlush, Unmount, Linked
<1>7. CASE PutSuper \/ Crash
  BY <1>7 DEF PutSuper, Crash, NoBlocks
<1>8. CASE UNCHANGED vars
  BY <1>8 DEF vars
<1> QED
  BY <1>1, <1>2, <1>2w, <1>3, <1>4, <1>5, <1>6, <1>7, <1>8 DEF Next

LEMMA TypeOKNext == TypeOK /\ [Next]_vars => TypeOK'
<1> SUFFICES ASSUME TypeOK, [Next]_vars PROVE TypeOK'
  OBVIOUS
<1>1. uaf' \in BOOLEAN
  <2>1. uaf' = uaf \/ uaf' = TRUE \/ uaf' = FALSE
    BY DEF Next, vars, LoadStep, LoadFails, Unload, MountStep, MountFails, Create, Write,
       Delete, WriteBackInode, WriteInodeFails, WriteBackBuffer, SyncBegin, SyncCopy,
       SyncFails, SyncInodes, SyncFlush, Unmount, PutSuper, Crash
  <2> QED
    BY <2>1 DEF TypeOK
<1> QED
  BY <1>1, StageOKNext, CopiesOKNext, InodesOKNext DEF TypeOK
-----------------------------------------------------------------------------
(* What is allocated *)

\* What each step of loading or mounting adds, and what its failure takes away.
LEMMA AllocSteps ==
    /\ \A s \in Loading : /\ AllocAt(s) \cup Takes(s) = AllocAt(After(LoadSteps, s))
                          /\ AllocAt(s) \ Unwinds(s) = {}
    /\ \A s \in Mounting : AllocAt(s) \cup Takes(s) = AllocAt(After(MountSteps, s))
    /\ \A s \in Mounting : AllocAt(s) \ Unwinds(s) = Module
<1>1. \A s \in Loading : /\ AllocAt(s) \cup Takes(s) = AllocAt(After(LoadSteps, s))
                         /\ AllocAt(s) \ Unwinds(s) = {}
  BY AfterLoad DEF Loading, AllocAt, Takes, Unwinds, Module
<1>2. \A s \in Mounting : AllocAt(s) \cup Takes(s) = AllocAt(After(MountSteps, s))
  <2> SUFFICES ASSUME NEW s \in Mounting
               PROVE  AllocAt(s) \cup Takes(s) = AllocAt(After(MountSteps, s))
    OBVIOUS
  <2>1. CASE s \in {"loaded", "sbi", "ifree", "ifree_read"}
    BY <2>1, AfterMount DEF AllocAt, Takes, Module
  <2>2. CASE s \in {"bfree", "bfree_read", "root", "dentry"}
    BY <2>2, AfterMount DEF AllocAt, Takes, Module
  <2> QED
    BY <2>1, <2>2, Stages
<1>3. \A s \in Mounting : AllocAt(s) \ Unwinds(s) = Module
  BY Stages DEF AllocAt, Unwinds, Module
<1> QED
  BY <1>1, <1>2, <1>3

\* Every step keeps what is allocated to what the stage calls for.
LEMMA AllocInvNext == TypeOK /\ AllocInv /\ [Next]_vars => AllocInv'
<1> SUFFICES ASSUME TypeOK, AllocInv, [Next]_vars PROVE AllocInv'
  OBVIOUS
<1> USE DEF AllocInv
<1>1. CASE LoadStep
  BY <1>1, AllocSteps DEF LoadStep, Loading
<1>2. CASE LoadFails
  <2>1. alloc' = {} /\ stage' = "unloaded"
    BY <1>2, AllocSteps DEF LoadFails, Loading
  <2> QED
    BY <2>1 DEF AllocAt
<1>3. CASE Unload
  BY <1>3 DEF Unload, AllocAt, Module
<1>4. CASE MountStep
  BY <1>4, AllocSteps, Stages DEF MountStep
<1>5. CASE MountFails
  <2>1. alloc' = Module /\ stage' \in {"broken", "loaded"}
    BY <1>5, AllocSteps, Stages DEF MountFails
  <2> QED
    BY <2>1 DEF AllocAt
<1>6. CASE Unmount
  BY <1>6 DEF Unmount, AllocAt
<1>7. CASE PutSuper
  BY <1>7 DEF PutSuper, PutSuperFrees, AllocAt, Module
<1>8. CASE Crash
  BY <1>8 DEF Crash, AllocAt
<1>9. CASE UNCHANGED <<stage, alloc>>
  BY <1>9
<1> QED
  BY <1>1, <1>2, <1>3, <1>4, <1>5, <1>6, <1>7, <1>8, <1>9 DEF Next, vars, Create, Write, Delete,
     WriteBackInode, WriteInodeFails, WriteBackBuffer, SyncBegin, SyncCopy, SyncFails,
     SyncInodes, SyncFlush

\* Whatever step of ouichefs_init or ouichefs_fill_super fails, exactly what
\* the module needs at that stage stays allocated, and ouichefs_put_super
\* leaves nothing of the mount behind: for every sequence of loads, mounts,
\* failures and crashes.
THEOREM MountFreesAll == Spec => []NothingLeft
<1>1. Init => TypeOK /\ AllocInv
  BY TypeOKInit DEF Init, AllocInv, AllocAt
<1>2. TypeOK /\ AllocInv /\ [Next]_vars => (TypeOK /\ AllocInv)'
  BY TypeOKNext, AllocInvNext
<1>3. TypeOK /\ AllocInv => NothingLeft
  BY DEF NothingLeft, AllocInv, AllocAt, Module
<1> QED
  BY <1>1, <1>2, <1>3, PTL DEF Spec

\* Every variable keeps its type.
THEOREM MountTypes == Spec => []TypeOK
BY TypeOKInit, TypeOKNext, PTL DEF Spec
-----------------------------------------------------------------------------
(* What a clean unmount saves *)

\* Only a live file system has dirty inodes, dirty buffers or a sync under way.
LEMMA AtRestNext == TypeOK /\ AtRest /\ [Next]_vars => AtRest'
<1> SUFFICES ASSUME TypeOK, AtRest, [Next]_vars PROVE AtRest'
  OBVIOUS
<1> USE DEF AtRest, Live, filevars, histvars
<1>1. CASE LoadStep \/ LoadFails \/ Unload
  BY <1>1 DEF LoadStep, LoadFails, Unload, Loading
<1>2. CASE MountStep \/ MountFails
  BY <1>2, Stages DEF MountStep, MountFails
<1>3. ASSUME NEW f \in Files, Create(f) \/ (\E b \in Blocks : Write(f, b)) PROVE AtRest'
  BY <1>3 DEF Create, Write
<1>4. ASSUME NEW f \in Files, NEW written \in BOOLEAN, Delete(f, written) PROVE AtRest'
  BY <1>4 DEF Delete
<1>5. ASSUME NEW f \in Files, WriteBackInode(f) \/ WriteInodeFails(f) PROVE AtRest'
  BY <1>5 DEF WriteBackInode, WriteInodeFails
<1>6. ASSUME NEW p \in Pieces, WriteBackBuffer(p) PROVE AtRest'
  BY <1>6 DEF WriteBackBuffer
<1>7. CASE SyncBegin \/ SyncFails \/ SyncInodes \/ SyncFlush \/ SyncCopy
  BY <1>7 DEF SyncBegin, SyncFails, SyncInodes, SyncFlush, SyncCopy
<1>8. CASE Unmount \/ PutSuper \/ Crash
  BY <1>8 DEF Unmount, PutSuper, Crash
<1>9. CASE UNCHANGED vars
  BY <1>9 DEF vars
<1> QED
  BY <1>1, <1>2, <1>3, <1>4, <1>5, <1>6, <1>7, <1>8, <1>9 DEF Next

\* ouichefs_write_inode is the only way an inode leaves the dirty list.
LEMMA CleanInodesNext == TypeOK /\ AtRest /\ CleanInodes /\ [Next]_vars => CleanInodes'
<1> SUFFICES ASSUME TypeOK, AtRest, CleanInodes, [Next]_vars PROVE CleanInodes'
  OBVIOUS
<1> USE DEF CleanInodes, Live, filevars, histvars
<1>0. inode \in [Files -> Blocks \cup {None}] /\ itable \in [Files -> Blocks \cup {None}]
  BY DEF TypeOK, InodesOK, Pointers
<1>1. CASE LoadStep \/ LoadFails \/ Unload \/ MountFails
  BY <1>1, AfterLoad DEF LoadStep, LoadFails, Unload, Loading, MountFails
<1>2. CASE MountStep
  BY <1>2, Stages, AfterMount DEF MountStep
<1>3. ASSUME NEW f \in Files, Create(f) PROVE CleanInodes'
  BY <1>0, <1>3 DEF Create, MarkDirty
<1>3w. ASSUME NEW f \in Files, NEW b \in Blocks, Write(f, b) PROVE CleanInodes'
  BY <1>0, <1>3w DEF Write, MarkDirty
<1>4. ASSUME NEW f \in Files, NEW written \in BOOLEAN, Delete(f, written) PROVE CleanInodes'
  <2>1. stage = "on" /\ dirty' = dirty \ {f} /\ lost' = lost
        /\ inode' = [inode EXCEPT ![f] = itable'[f]]
        /\ \A g \in Files \ {f} : itable'[g] = itable[g]
    BY <1>0, <1>4 DEF Delete
  <2> QED
    BY <1>0, <2>1
<1>5. ASSUME NEW f \in Files, WriteBackInode(f) PROVE CleanInodes'
  BY <1>0, <1>5 DEF WriteBackInode, WriteInode
<1>5f. ASSUME NEW f \in Files, WriteInodeFails(f) PROVE CleanInodes'
  BY <1>5f DEF WriteInodeFails
<1>6. ASSUME NEW p \in Pieces, WriteBackBuffer(p) PROVE CleanInodes'
  BY <1>6 DEF WriteBackBuffer
<1>7. CASE SyncBegin \/ SyncFails \/ SyncInodes \/ SyncFlush \/ SyncCopy
  BY <1>7 DEF SyncBegin, SyncFails, SyncInodes, SyncFlush, SyncCopy
<1>8. CASE Unmount \/ PutSuper \/ Crash
  BY <1>8 DEF Unmount, PutSuper, Crash
<1>9. CASE UNCHANGED vars
  BY <1>9 DEF vars
<1> QED
  BY <1>1, <1>2, <1>3, <1>3w, <1>4, <1>5, <1>5f, <1>6, <1>7, <1>8, <1>9 DEF Next

\* What a mount has read stays what the buffers hold.
LEMMA ReadInNext == TypeOK /\ AtRest /\ ReadIn /\ [Next]_vars => ReadIn'
<1> SUFFICES ASSUME TypeOK, AtRest, ReadIn, [Next]_vars PROVE ReadIn'
  OBVIOUS
<1> USE DEF ReadIn, HasSb, HasIfree, HasBfree, Live, filevars
<1>1. CASE LoadStep \/ LoadFails \/ Unload
  BY <1>1, AfterLoad DEF LoadStep, LoadFails, Unload, Loading
<1>2. CASE MountStep
  <2>1. mem \in Memory /\ buf' = buf
    BY <1>2 DEF MountStep, TypeOK, CopiesOK
  <2>2. CASE stage \in {"loaded", "ifree", "bfree"}
    BY <1>2, <2>1, <2>2, AfterMount DEF MountStep, Memory
  <2>3. CASE stage \in {"sbi", "ifree_read", "bfree_read", "root", "dentry"}
    BY <1>2, <2>1, <2>3, AfterMount DEF MountStep
  <2> QED
    BY <1>2, <2>2, <2>3, Stages DEF MountStep
<1>3. CASE stage' \in {"loaded", "unloaded", "broken", "on", "umount"}
  BY <1>3
<1>4. CASE UNCHANGED vars
  BY <1>4 DEF vars
<1> QED
  BY <1>1, <1>2, <1>3, <1>4 DEF Next, MountFails, Create, Write, Delete, WriteBackInode,
     WriteInodeFails, WriteBackBuffer, SyncBegin, SyncCopy, SyncFails, SyncInodes, SyncFlush,
     Unmount, PutSuper, Crash, AtRest

\* sync_sb_info, sync_ifree and sync_bfree leave the other pieces of the
\* buffers alone.
LEMMA CopiedPieces ==
    ASSUME TypeOK, SyncCopy
    PROVE  /\ buf'.dir = buf.dir
           /\ buf'.sb = IF sync \in {"sb", "sb_wait"} THEN mem.sb ELSE buf.sb
           /\ buf'.ifree = IF sync \in {"ifree", "ifree_wait"} THEN mem.ifree ELSE buf.ifree
           /\ buf'.bfree = IF sync \in {"bfree", "bfree_wait"} THEN mem.bfree ELSE buf.bfree
<1>1. buf \in Partition /\ buf' = [buf EXCEPT ![PieceOf(sync)] = mem[PieceOf(sync)]]
  BY DEF TypeOK, CopiesOK, SyncCopy, Copied
<1>2. CASE sync \in {"sb", "sb_wait"}
  BY <1>1, <1>2 DEF PieceOf, Partition
<1>3. CASE sync \in {"ifree", "ifree_wait"}
  BY <1>1, <1>3 DEF PieceOf, Partition
<1>4. CASE sync \in {"bfree", "bfree_wait"}
  BY <1>1, <1>4 DEF PieceOf, Partition
<1> QED
  BY <1>2, <1>3, <1>4 DEF SyncCopy

\* What a clean unmount saved stays what the next mount finds.
LEMMA SavedInvNext ==
    TypeOK /\ AtRest /\ CleanInodes /\ ReadIn /\ SavedInv /\ [Next]_vars => SavedInv'
<1> SUFFICES ASSUME TypeOK, AtRest, CleanInodes, ReadIn, SavedInv, [Next]_vars, saved' # None
             PROVE  SavedInv'
  BY DEF SavedInv
<1> USE DEF SavedInv, Live, filevars, histvars, PastSb, PastIfree, PastBfree, PastInodes
<1>1. CASE LoadStep \/ LoadFails \/ Unload \/ MountFails
  <2>1. stage \notin Live /\ stage' \notin Live /\ UNCHANGED <<buf, itable, saved>>
    BY <1>1, AfterLoad, Stages DEF LoadStep, LoadFails, Unload, Loading, MountFails
  <2> QED
    BY <2>1 DEF InBuffers, Linked
<1>2. CASE MountStep
  <2>1. stage \notin Live /\ UNCHANGED <<buf, itable, saved>> /\ stage' # "umount"
    BY <1>2, AfterMount, Stages DEF MountStep
  <2>2. CASE stage = "dentry"
    <3>1. inode' = itable /\ mem' = mem /\ stage' = "on"
      BY <1>2, <2>2, AfterMount DEF MountStep
    <3>2. mem.sb = buf.sb /\ mem.ifree = buf.ifree /\ mem.bfree = buf.bfree
      BY <2>2 DEF ReadIn, HasSb, HasIfree, HasBfree
    <3>3. Contents' = InBuffers
      BY <2>1, <3>1, <3>2 DEF Contents, InBuffers, Linked
    <3> QED
      BY <2>1, <3>1, <3>3
  <2>3. CASE stage # "dentry"
    <3>1. stage' \notin Live
      BY <1>2, <2>3, AfterMount, Stages DEF MountStep
    <3> QED
      BY <2>1, <3>1 DEF InBuffers, Linked
  <2> QED
    BY <2>2, <2>3
<1>3. ASSUME NEW f \in Files, WriteBackInode(f) PROVE SavedInv'
  BY <1>3 DEF WriteBackInode, WriteInode, Contents, Linked
<1>4. ASSUME NEW p \in Pieces, WriteBackBuffer(p) PROVE SavedInv'
  BY <1>4 DEF WriteBackBuffer, Contents, Linked
<1>5. CASE SyncBegin \/ SyncInodes \/ SyncFlush
  <2>1. UNCHANGED <<stage, mem, buf, inode, dirty, saved, lost>> /\ stage \in Live
    BY <1>5 DEF SyncBegin, SyncInodes, SyncFlush, AtRest
  <2>2. UNCHANGED Contents
    BY <2>1 DEF Contents, Linked
  <2> QED
    BY <1>5, <2>1, <2>2 DEF SyncBegin, SyncInodes, SyncFlush
<1>6. CASE SyncCopy
  <2>1. UNCHANGED <<stage, mem, inode, dirty, saved, lost>> /\ stage \in Live
    BY <1>6 DEF SyncCopy, AtRest
  <2>2. UNCHANGED Contents
    BY <1>6, <2>1, CopiedPieces DEF Contents, Linked
  <2>3. sync' = After(SyncSteps, sync)
        /\ sync \in {"sb", "ifree", "bfree", "sb_wait", "ifree_wait", "bfree_wait"}
    BY <1>6 DEF SyncCopy
  <2> QED
    BY <1>6, <2>1, <2>2, <2>3, CopiedPieces, AfterSync
<1>7. CASE Unmount
  <2>1. Contents' = Contents /\ saved' = Contents /\ lost' = {} /\ stage' = "umount" /\ sync' = "sb"
    BY <1>7 DEF Unmount, Contents, Linked
  <2> QED
    BY <2>1
<1>8. CASE PutSuper
  <2>1. saved # None /\ stage = "umount" /\ stage' = "loaded" /\ sync = "none"
        /\ UNCHANGED <<buf, itable, saved>>
    BY <1>8 DEF PutSuper
  <2>2. \A f \in Files : itable[f] = inode[f]
    BY <2>1 DEF CleanInodes
  <2>3. InBuffers' = Contents
    BY <2>1, <2>2 DEF InBuffers, Contents, Linked
  <2> QED
    BY <2>1, <2>3
<1>9. CASE Crash
  <2>1. stage \notin Live /\ stage' = "unloaded" /\ buf' = disk /\ UNCHANGED <<itable, saved>>
    BY <1>9 DEF Crash
  <2> QED
    BY <2>1 DEF AtRest, InBuffers, Linked
<1>10. CASE saved' = None
  BY <1>10
<1>11. CASE UNCHANGED vars
  BY <1>11 DEF vars, Contents, InBuffers, Linked
<1> QED
  BY <1>1, <1>2, <1>3, <1>4, <1>5, <1>6, <1>7, <1>8, <1>9, <1>10, <1>11
     DEF Next, Create, Write, Delete, Touch, WriteInodeFails, SyncFails

RestInv == TypeOK /\ AtRest /\ CleanInodes /\ ReadIn /\ SavedInv

\* After an unmount that met no error the next mount finds every counter,
\* bitmap, directory entry and inode as it was: for every number of files and
\* every order of write-back, sync steps, failed mounts and reloads.
THEOREM RemountIsClean == Spec => []CleanRemount
<1>1. Init => RestInv
  BY TypeOKInit DEF Init, RestInv, AtRest, CleanInodes, ReadIn, SavedInv, Live, HasSb, HasIfree,
     HasBfree
<1>2. RestInv /\ [Next]_vars => RestInv'
  BY TypeOKNext, AtRestNext, CleanInodesNext, ReadInNext, SavedInvNext DEF RestInv
<1>3. RestInv => CleanRemount
  BY DEF RestInv, SavedInv, CleanRemount, Live
<1> QED
  BY <1>1, <1>2, <1>3, PTL DEF Spec
-----------------------------------------------------------------------------
(* What a completed sync keeps *)

LEMMA Basics ==
    ASSUME TypeOK
    PROVE  /\ inode \in [Files -> Blocks \cup {None}] /\ itable \in [Files -> Blocks \cup {None}]
           /\ data \in [Blocks -> Files \cup {None}]
           /\ buf.dir \in [Files -> Nat] /\ disk.dir \in [Files -> Nat]
           /\ quiet \subseteq Files /\ synced \subseteq Files
           /\ None \notin Blocks /\ None \notin Files
BY MountAssumption DEF TypeOK, CopiesOK, InodesOK, Pointers, Partition

\* What ouichefs_create, the first write and ouichefs_unlink change.
LEMMA CreateEffect ==
    ASSUME TypeOK, NEW f \in Files, Create(f)
    PROVE  /\ mem'.ifree = mem.ifree \ {f} /\ mem'.bfree = mem.bfree
           /\ buf'.ifree = buf.ifree /\ buf'.bfree = buf.bfree
           /\ buf'.dir[f] = buf.dir[f] + 1
           /\ \A g \in Files \ {f} : buf'.dir[g] = buf.dir[g]
<1>1. mem \in Memory /\ buf \in Partition
  BY DEF TypeOK, CopiesOK
<1>2. mem'.ifree = mem.ifree \ {f} /\ mem'.bfree = mem.bfree
  BY <1>1 DEF Create, Memory
<1>3. /\ buf'.ifree = buf.ifree /\ buf'.bfree = buf.bfree
      /\ buf'.dir = [buf.dir EXCEPT ![f] = buf.dir[f] + 1]
  BY <1>1 DEF Create, Partition
<1> QED
  BY <1>2, <1>3, Basics

LEMMA WriteEffect ==
    ASSUME TypeOK, NEW f \in Files, NEW b \in Blocks, Write(f, b)
    PROVE  mem'.ifree = mem.ifree /\ mem'.bfree = mem.bfree \ {b}
BY DEF TypeOK, CopiesOK, Memory, Write

LEMMA DeleteEffect ==
    ASSUME TypeOK, NEW f \in Files, NEW written \in BOOLEAN, Delete(f, written)
    PROVE  /\ mem'.ifree = mem.ifree \cup {f}
           /\ mem'.bfree = mem.bfree \cup ({inode[f]} \ {None})
           /\ buf'.ifree = buf.ifree /\ buf'.bfree = buf.bfree
           /\ buf'.dir[f] = buf.dir[f] - 1
           /\ \A g \in Files \ {f} :
                buf'.dir[g] = buf.dir[g] /\ itable'[g] = itable[g] /\ inode'[g] = inode[g]
<1> DEFINE owned == {inode[f]} \ {None}
           m1 == PutBlocks(mem, owned)
<1>1. mem \in Memory /\ buf \in Partition
  BY DEF TypeOK, CopiesOK
<1>2. m1.ifree = mem.ifree /\ m1.bfree = mem.bfree \cup owned /\ DOMAIN m1 = DOMAIN mem
  BY <1>1 DEF PutBlocks, Memory
<1>3. mem' = PutInode(m1, f)
  BY DEF Delete
<1>4. DOMAIN mem = {"sb", "ifree", "bfree"}
  BY <1>1 DEF Memory
<1> HIDE DEF m1
<1>5. mem'.ifree = mem.ifree \cup {f} /\ mem'.bfree = mem.bfree \cup owned
  BY <1>2, <1>3, <1>4 DEF PutInode
<1>6. /\ buf'.ifree = buf.ifree /\ buf'.bfree = buf.bfree
      /\ buf'.dir = [buf.dir EXCEPT ![f] = buf.dir[f] - 1]
  BY <1>1 DEF Delete, Partition
<1>7. \A g \in Files \ {f} : itable'[g] = itable[g] /\ inode'[g] = inode[g]
  BY Basics DEF Delete
<1> QED
  BY <1>5, <1>6, <1>7, Basics

\* The actions of a live file system leave the record of damage alone.
LEMMA DamagedSteps ==
    ASSUME TypeOK, AtRest, [Next]_vars
    PROVE  /\ damaged' = "no" => damaged = "no"
           /\ damaged' = "left" /\ damaged # "left" => stage' \notin Live
           /\ DamagedInv => DamagedInv'
<1> USE DEF Live, histvars, DamagedInv
<1>1. CASE LoadStep \/ LoadFails \/ Unload
  BY <1>1, AfterLoad DEF LoadStep, LoadFails, Unload, Loading
<1>2. CASE MountStep
  BY <1>2, AfterMount, Stages DEF MountStep
<1>3. CASE MountFails
  BY <1>3 DEF MountFails
<1>4. CASE PutSuper \/ Crash
  BY <1>4 DEF PutSuper, Crash
<1>5. CASE Unmount \/ UNCHANGED <<stage, damaged>>
  BY <1>5 DEF Unmount
<1> QED
  BY <1>1, <1>2, <1>3, <1>4, <1>5 DEF Next, vars, Create, Write, Delete, WriteBackInode,
     WriteInodeFails, WriteBackBuffer, SyncBegin, SyncCopy, SyncFails, SyncInodes, SyncFlush

LEMMA NoQuietNext == NoQuiet /\ [Next]_vars => NoQuiet'
<1> SUFFICES ASSUME NoQuiet, [Next]_vars PROVE NoQuiet'
  OBVIOUS
<1> USE DEF NoQuiet, histvars
<1>1. CASE SyncCopy
  BY <1>1, AfterSync DEF SyncCopy
<1>2. CASE SyncBegin \/ SyncFails \/ SyncInodes \/ SyncFlush \/ Unmount \/ Crash
  BY <1>2 DEF SyncBegin, SyncFails, SyncInodes, SyncFlush, Unmount, Crash
<1>3. CASE sync' = sync /\ quiet' \subseteq quiet
  BY <1>3
<1> QED
  BY <1>1, <1>2, <1>3 DEF Next, vars, LoadStep, LoadFails, Unload, MountStep, MountFails, Create,
     Write, Delete, Touch, WriteBackInode, WriteInodeFails, WriteBackBuffer, PutSuper

\* Until something is damaged, the directory, the bitmaps and the inodes agree:
\* a block that an inode has is not free and holds that inode's data.
LEMMA ConsistentNext ==
    RestInv /\ DamagedInv /\ Consistent /\ [Next]_vars => Consistent'
<1> SUFFICES ASSUME RestInv, DamagedInv, Consistent, [Next]_vars, damaged' = "no"
             PROVE  Consistent'
  BY DEF Consistent
<1> USE DEF Consistent, Live, filevars
<1>0. TypeOK /\ AtRest /\ damaged = "no"
  BY DamagedSteps DEF RestInv
<1>1. CASE LoadStep \/ LoadFails \/ Unload \/ MountFails
  <2>1. stage \notin Live /\ stage' \notin Live /\ UNCHANGED <<buf, itable, data>>
    BY <1>1, AfterLoad, Stages DEF LoadStep, LoadFails, Unload, Loading, MountFails
  <2> QED
    BY <1>0, <2>1 DEF Agree
<1>2. CASE MountStep
  <2>1. stage \notin Live /\ UNCHANGED <<buf, itable, data>>
    BY <1>2, Stages DEF MountStep
  <2>2. CASE stage = "dentry"
    <3>1. inode' = itable /\ mem' = mem /\ stage' = "on"
      BY <1>2, <2>2, AfterMount DEF MountStep
    <3>2. mem.ifree = buf.ifree /\ mem.bfree = buf.bfree
      BY <2>2 DEF RestInv, ReadIn, HasSb, HasIfree, HasBfree
    <3> QED
      BY <1>0, <2>1, <3>1, <3>2 DEF Agree
  <2>3. CASE stage # "dentry"
    <3>1. stage' \notin Live
      BY <1>2, <2>3, AfterMount, Stages DEF MountStep
    <3> QED
      BY <1>0, <2>1, <3>1 DEF Agree
  <2> QED
    BY <2>2, <2>3
<1>3. ASSUME NEW f \in Files, Create(f) PROVE Consistent'
  <2>1. stage = "on" /\ stage' = "on" /\ f \in mem.ifree /\ data' = data
        /\ inode' = [inode EXCEPT ![f] = None]
    BY <1>3 DEF Create
  <2>2. Agree(buf.dir, mem.ifree, mem.bfree, inode)
    BY <1>0, <2>1
  <2>3. buf.dir[f] = 0
    BY <2>1, <2>2 DEF Agree
  <2>4. \A g \in Files : (g \in mem'.ifree <=> buf'.dir[g] = 0) /\ buf'.dir[g] <= 1
    <3> TAKE g \in Files
    <3>1. CASE g = f
      BY <1>0, <1>3, <2>3, <3>1, CreateEffect
    <3>2. CASE g # f
      BY <1>0, <1>3, <2>2, <3>2, CreateEffect DEF Agree
    <3> QED
      BY <3>1, <3>2
  <2>5. ASSUME NEW g \in Files, buf'.dir[g] > 0, inode'[g] # None
        PROVE  inode'[g] \in Blocks /\ inode'[g] \notin mem'.bfree /\ data'[inode'[g]] = g
    BY <1>0, <1>3, <2>1, <2>2, <2>5, CreateEffect, Basics DEF Agree
  <2> QED
    BY <2>1, <2>4, <2>5 DEF Agree
<1>4. ASSUME NEW f \in Files, NEW b \in Blocks, Write(f, b) PROVE Consistent'
  <2>1. stage = "on" /\ stage' = "on" /\ b \in mem.bfree /\ buf' = buf
        /\ inode' = [inode EXCEPT ![f] = b] /\ data' = [data EXCEPT ![b] = f]
    BY <1>4 DEF Write
  <2> QED
    BY <1>0, <1>4, <2>1, WriteEffect, Basics DEF Agree
<1>5. ASSUME NEW f \in Files, NEW written \in BOOLEAN, Delete(f, written) PROVE Consistent'
  <2>1. stage = "on" /\ stage' = "on" /\ buf.dir[f] > 0
        /\ data' = [b \in Blocks |-> IF b \in {inode[f]} \ {None} THEN None ELSE data[b]]
    BY <1>5 DEF Delete
  <2>2. Agree(buf.dir, mem.ifree, mem.bfree, inode)
    BY <1>0, <2>1
  <2>b. buf.dir[f] = 1
    BY <1>0, <2>1, <2>2, Basics DEF Agree
  <2>3. \A g \in Files : (g \in mem'.ifree <=> buf'.dir[g] = 0) /\ buf'.dir[g] <= 1
    <3> TAKE g \in Files
    <3>1. CASE g = f
      BY <1>0, <1>5, <2>b, <3>1, DeleteEffect
    <3>2. CASE g # f
      BY <1>0, <1>5, <2>2, <3>2, DeleteEffect DEF Agree
    <3> QED
      BY <3>1, <3>2
  <2>4. ASSUME NEW g \in Files, buf'.dir[g] > 0, inode'[g] # None
        PROVE  inode'[g] \in Blocks /\ inode'[g] \notin mem'.bfree /\ data'[inode'[g]] = g
    <3>1. g # f /\ buf.dir[g] > 0 /\ inode'[g] = inode[g]
      BY <1>0, <1>5, <2>b, <2>4, DeleteEffect
    <3>2. inode[g] \in Blocks /\ inode[g] \notin mem.bfree /\ data[inode[g]] = g
      BY <2>2, <2>4, <3>1 DEF Agree
    <3>3. inode[g] # inode[f]
      BY <1>0, <2>1, <2>2, <3>1, <3>2, Basics DEF Agree
    <3> QED
      BY <1>0, <1>5, <2>1, <3>1, <3>2, <3>3, DeleteEffect
  <2> QED
    BY <2>1, <2>3, <2>4 DEF Agree
<1>6. CASE SyncCopy
  <2>1. UNCHANGED <<stage, mem, inode, data>> /\ stage \in Live
    BY <1>0, <1>6 DEF SyncCopy, AtRest
  <2> QED
    BY <1>0, <1>6, <2>1, CopiedPieces DEF Agree
<1>7. CASE PutSuper
  <2>1. saved # None /\ stage = "umount" /\ stage' = "loaded" /\ sync = "none"
        /\ UNCHANGED <<buf, itable, data>>
    BY <1>0, <1>7 DEF PutSuper
  <2>2. \A f \in Files : itable[f] = inode[f]
    BY <2>1 DEF RestInv, SavedInv, CleanInodes, PastInodes, PastBfree, PastIfree, PastSb
  <2>3. buf.ifree = mem.ifree /\ buf.bfree = mem.bfree
    BY <2>1 DEF RestInv, SavedInv, PastBfree, PastIfree, PastSb
  <2> QED
    BY <1>0, <2>1, <2>2, <2>3 DEF Agree
<1>8. CASE Crash
  <2>1. stage \notin Live /\ stage' = "unloaded" /\ buf' = buf /\ UNCHANGED <<itable, data>>
    BY <1>0, <1>8 DEF Crash, AtRest
  <2> QED
    BY <1>0, <2>1 DEF Agree
<1>9. CASE stage \in Live /\ stage' \in Live /\ UNCHANGED <<mem, buf, inode, data>>
  BY <1>0, <1>9 DEF Agree
<1>10. CASE UNCHANGED vars
  BY <1>0, <1>10 DEF vars, Agree
<1> QED
  BY <1>0, <1>1, <1>2, <1>3, <1>4, <1>5, <1>6, <1>7, <1>8, <1>9, <1>10 DEF Next, AtRest,
     WriteBackInode, WriteInodeFails, WriteBackBuffer, SyncBegin, SyncFails, SyncInodes,
     SyncFlush, Unmount

\* A file that nobody touches while a sync runs is in the copies of the bitmaps
\* the sync has made, and its inode is written by the time sync_inodes_sb ends.
LEMMA QuietInvNext ==
    RestInv /\ NoQuiet /\ Consistent /\ QuietInv /\ [Next]_vars => QuietInv'
<1> SUFFICES ASSUME RestInv, NoQuiet, Consistent, QuietInv, [Next]_vars,
                    damaged' = "no", stage' \in Live
             PROVE  QuietInv'
  BY DEF QuietInv
<1> USE DEF QuietInv, Live, filevars, histvars, PastSb, PastIfree, PastBfree, PastInodes
<1>0. TypeOK /\ AtRest /\ damaged = "no"
  BY DamagedSteps DEF RestInv
<1>1. CASE stage \notin Live
  <2>1. quiet = {}
    BY <1>0, <1>1 DEF AtRest, NoQuiet
  <2>2. quiet' = {}
    BY <1>0, <1>1, <2>1 DEF Next, vars, LoadStep, LoadFails, Unload, MountStep, MountFails, Create,
       Write, Delete, WriteBackInode, WriteInodeFails, WriteBackBuffer, SyncBegin, SyncCopy,
       SyncFails, SyncInodes, SyncFlush, Unmount, PutSuper, Crash, AtRest
  <2> QED
    BY <2>2
<1>2. ASSUME NEW f \in Files, Create(f) PROVE QuietInv'
  <2>1. /\ stage \in Live /\ UNCHANGED <<sync, lost>> /\ dirty' = dirty \cup {f}
        /\ quiet' = quiet \ {f} /\ inode' = [inode EXCEPT ![f] = None]
    BY <1>2 DEF Create, Touch, MarkDirty
  <2> QED
    BY <1>0, <1>2, <2>1, CreateEffect, Basics
<1>3. ASSUME NEW f \in Files, NEW b \in Blocks, Write(f, b) PROVE QuietInv'
  <2>1. /\ stage \in Live /\ UNCHANGED <<sync, lost, buf>> /\ dirty' = dirty \cup {f}
        /\ quiet' = quiet \ {f} /\ inode' = [inode EXCEPT ![f] = b]
    BY <1>3 DEF Write, Touch, MarkDirty
  <2> QED
    BY <1>0, <2>1, Basics
<1>4. ASSUME NEW f \in Files, NEW written \in BOOLEAN, Delete(f, written) PROVE QuietInv'
  <2>1. /\ stage \in Live /\ UNCHANGED <<sync, lost>> /\ dirty' = dirty \ {f}
        /\ quiet' = quiet \ {f}
    BY <1>4 DEF Delete, Touch
  <2> QED
    BY <1>0, <1>4, <2>1, DeleteEffect, Basics
<1>5. ASSUME NEW f \in Files, WriteBackInode(f) PROVE QuietInv'
  <2>1. /\ stage \in Live /\ UNCHANGED <<sync, buf, inode, quiet>> /\ dirty' = dirty \ {f}
        /\ lost' = lost \ {f}
    BY <1>5 DEF WriteBackInode, WriteInode
  <2> QED
    BY <1>0, <2>1
<1>6. ASSUME NEW f \in Files, WriteInodeFails(f) PROVE QuietInv'
  <2>1. /\ stage \in Live /\ UNCHANGED <<sync, buf, inode>> /\ dirty' = dirty \ {f}
        /\ lost' = lost \cup {f} /\ quiet' = quiet \ {f}
    BY <1>6 DEF WriteInodeFails
  <2> QED
    BY <1>0, <2>1
<1>7. ASSUME NEW p \in Pieces, WriteBackBuffer(p) PROVE QuietInv'
  <2>1. stage \in Live /\ UNCHANGED <<sync, buf, inode, quiet, dirty, lost>>
    BY <1>7 DEF WriteBackBuffer
  <2> QED
    BY <1>0, <2>1
<1>8. CASE SyncBegin \/ Unmount
  <2>1. /\ UNCHANGED <<buf, inode, dirty, lost>> /\ sync' = "sb"
        /\ \A f \in quiet' : buf.dir[f] > 0 /\ inode[f] # None /\ f \notin lost
    BY <1>8 DEF SyncBegin, Unmount, Linked
  <2> QED
    BY <2>1
<1>9. CASE SyncCopy /\ stage \in Live
  <2>1. UNCHANGED <<stage, mem, inode, dirty, quiet, lost>>
    BY <1>9 DEF SyncCopy
  <2>2. sync' = After(SyncSteps, sync)
        /\ sync \in {"sb", "ifree", "bfree", "sb_wait", "ifree_wait", "bfree_wait"}
    BY <1>9 DEF SyncCopy
  <2>3. \A f \in quiet : f \notin mem.ifree /\ inode[f] \notin mem.bfree
    <3> TAKE f \in quiet
    <3>1. f \in Files /\ buf.dir[f] \in Nat /\ buf.dir[f] > 0 /\ inode[f] # None
      BY <1>0, <1>9, Basics
    <3>2. Agree(buf.dir, mem.ifree, mem.bfree, inode)
      BY <1>0, <1>9 DEF Consistent
    <3> QED
      BY <3>1, <3>2 DEF Agree
  <2> QED
    BY <1>0, <1>9, <2>1, <2>2, <2>3, CopiedPieces, AfterSync
<1>10. CASE SyncInodes /\ stage \in Live
  <2>1. UNCHANGED <<buf, inode, dirty, quiet, lost>> /\ dirty \cap quiet = {}
        /\ sync = "inodes" /\ sync' = "sb_wait"
    BY <1>10 DEF SyncInodes
  <2> QED
    BY <1>0, <1>10, <2>1
<1>11. CASE quiet' = {}
  BY <1>11
<1>12. CASE UNCHANGED vars
  BY <1>0, <1>12 DEF vars
<1> QED
  BY <1>1, <1>2, <1>3, <1>4, <1>5, <1>6, <1>7, <1>8, <1>9, <1>10, <1>11, <1>12, Stages DEF Next,
     LoadStep, LoadFails, Unload, Loading, MountStep, MountFails, SyncFails, SyncFlush, PutSuper,
     Crash

\* What one block of the buffers written back changes on the disk.
LEMMA PieceWritten ==
    ASSUME TypeOK, NEW p \in Pieces, WriteBackBuffer(p)
    PROVE  /\ disk'.dir = IF p = "dir" THEN buf.dir ELSE disk.dir
           /\ disk'.ifree = IF p = "ifree" THEN buf.ifree ELSE disk.ifree
           /\ disk'.bfree = IF p = "bfree" THEN buf.bfree ELSE disk.bfree
<1>1. disk \in Partition /\ disk' = [disk EXCEPT ![p] = buf[p]]
  BY DEF TypeOK, CopiesOK, WriteBackBuffer
<1> QED
  BY <1>1 DEF Partition, Pieces

LEMMA CopiedToDisk ==
    ASSUME TypeOK, SyncCopy
    PROVE  /\ disk'.dir = disk.dir
           /\ disk'.ifree \in {disk.ifree, mem.ifree}
           /\ disk'.bfree \in {disk.bfree, mem.bfree}
<1>1. CASE disk' = disk
  BY <1>1
<1>2. CASE disk' = [disk EXCEPT ![PieceOf(sync)] = mem[PieceOf(sync)]]
  <2>1. disk \in Partition /\ PieceOf(sync) \in {"sb", "ifree", "bfree"}
    BY PieceOfSync DEF TypeOK, CopiesOK, SyncCopy
  <2> QED
    BY <1>2, <2>1 DEF Partition
<1> QED
  BY <1>1, <1>2 DEF SyncCopy, Copied

\* A file that a completed sync covered is known to memory as it is on the disk.
LEMMA SyncedInMemory ==
    ASSUME RestInv, Consistent, SyncedInv, damaged = "no", stage \in Live, NEW f \in synced
    PROVE  /\ f \in Files /\ itable[f] = inode[f] /\ inode[f] \in Blocks
           /\ data[inode[f]] = f /\ f \notin mem.ifree /\ inode[f] \notin mem.bfree
<1>1. TypeOK /\ f \in Files
  BY Basics DEF RestInv
<1>2. itable[f] = inode[f]
  BY <1>1 DEF RestInv, CleanInodes, SyncedInv
<1>3. itable[f] \in Blocks /\ data[itable[f]] = f
  BY <1>1 DEF SyncedInv, WholeOnDisk
<1>4. buf.dir[f] > 0 /\ buf.dir[f] \in Nat
  BY <1>1, Basics DEF SyncedInv, WholeInBuffers
<1>5. Agree(buf.dir, mem.ifree, mem.bfree, inode)
  BY DEF Consistent
<1>6. f \notin mem.ifree
  BY <1>1, <1>4, <1>5 DEF Agree
<1>7. inode[f] \notin mem.bfree
  BY <1>1, <1>2, <1>3, <1>4, <1>5, Basics DEF Agree
<1> QED
  BY <1>1, <1>2, <1>3, <1>6, <1>7

\* No step takes anything from a file that a sync covered and nobody touched.
LEMMA SyncedInvNext ==
    RestInv /\ DamagedInv /\ Consistent /\ QuietInv /\ SyncedInv /\ [Next]_vars => SyncedInv'
<1> SUFFICES ASSUME RestInv, DamagedInv, Consistent, QuietInv, SyncedInv, [Next]_vars
             PROVE  SyncedInv'
  OBVIOUS
<1> USE DEF Live, filevars, histvars
<1>0. TypeOK /\ AtRest /\ (damaged' = "no" => damaged = "no") /\ (stage \in Live => damaged # "left")
  BY DamagedSteps DEF RestInv, DamagedInv
<1>1. CASE LoadStep \/ LoadFails \/ Unload \/ MountStep \/ MountFails
  <2>1. UNCHANGED <<buf, disk, itable, data, dirty, lost, synced>>
        /\ (damaged' = damaged \/ damaged' = "used")
    BY <1>1 DEF LoadStep, LoadFails, Unload, MountStep, MountFails
  <2> QED
    BY <2>1 DEF SyncedInv, WholeOnDisk, WholeInBuffers
<1>2. CASE PutSuper
  <2>1. UNCHANGED <<buf, itable, data, synced>> /\ disk' = buf /\ dirty' = {} /\ lost' = {}
        /\ (damaged' # "used" => damaged # "used") /\ stage = "umount"
    BY <1>2 DEF PutSuper
  <2> QED
    BY <1>0, <2>1 DEF SyncedInv, WholeOnDisk, WholeInBuffers, TypeOK, StageOK
<1>3. CASE Crash
  <2>1. UNCHANGED <<disk, itable, data, synced>> /\ buf' = disk /\ dirty' = {} /\ lost' = {}
        /\ (damaged' # "used" => damaged # "used")
    BY <1>3 DEF Crash
  <2> QED
    BY <2>1 DEF SyncedInv, WholeOnDisk, WholeInBuffers
<1>4. CASE damaged = "used" /\ damaged' = "used"
  BY <1>4 DEF SyncedInv
<1>5. CASE damaged = "no" /\ damaged' = "no" /\ stage \in Live
  <2>0. \A f \in synced : f \in Files /\ WholeOnDisk(f) /\ WholeInBuffers(f) /\ f \notin dirty \cup lost
                          /\ buf.dir[f] \in Nat /\ disk.dir[f] \in Nat
    BY <1>0, <1>5, Basics DEF SyncedInv
  <2> SUFFICES ASSUME NEW g \in synced'
               PROVE  WholeOnDisk(g)' /\ WholeInBuffers(g)' /\ g \notin (dirty \cup lost)'
    BY <1>5 DEF SyncedInv
  <2> USE DEF WholeOnDisk, WholeInBuffers
  <2>1. ASSUME NEW f \in Files, Create(f)
        PROVE  WholeOnDisk(g)' /\ WholeInBuffers(g)' /\ g \notin (dirty \cup lost)'
    <3>1. /\ UNCHANGED <<disk, itable, data, lost>> /\ dirty' = dirty \cup {f}
          /\ synced' = synced \ {f}
      BY <2>1 DEF Create, Touch, MarkDirty
    <3> QED
      BY <1>0, <2>0, <2>1, <3>1, CreateEffect
  <2>2. ASSUME NEW f \in Files, NEW b \in Blocks, Write(f, b)
        PROVE  WholeOnDisk(g)' /\ WholeInBuffers(g)' /\ g \notin (dirty \cup lost)'
    <3>1. /\ UNCHANGED <<disk, buf, itable, lost>> /\ dirty' = dirty \cup {f}
          /\ synced' = synced \ {f} /\ data' = [data EXCEPT ![b] = f] /\ b \in mem.bfree
      BY <2>2 DEF Write, Touch, MarkDirty
    <3>2. itable[g] \in Blocks /\ itable[g] # b /\ data[itable[g]] = g
      BY <1>5, <3>1, SyncedInMemory
    <3>3. data'[itable[g]] = g
      BY <1>0, <3>1, <3>2, Basics
    <3> QED
      BY <2>0, <3>1, <3>2, <3>3
  <2>3. ASSUME NEW f \in Files, NEW written \in BOOLEAN, Delete(f, written)
        PROVE  WholeOnDisk(g)' /\ WholeInBuffers(g)' /\ g \notin (dirty \cup lost)'
    <3>1. /\ UNCHANGED <<disk, lost>> /\ dirty' = dirty \ {f} /\ synced' = synced \ {f}
          /\ data' = [b \in Blocks |-> IF b \in {inode[f]} \ {None} THEN None ELSE data[b]]
          /\ stage = "on" /\ buf.dir[f] > 0
      BY <2>3 DEF Delete, Touch
    <3>2. g \in synced /\ g \in Files /\ g # f
      BY <2>0, <3>1
    <3>3. itable[g] \in Blocks /\ data[itable[g]] = g
      BY <1>5, <3>2, SyncedInMemory
    <3>4. itable[g] \notin {inode[f]} \ {None}
      BY <1>0, <1>5, <3>1, <3>2, <3>3 DEF Consistent, Agree
    <3>5. data'[itable[g]] = g /\ itable'[g] = itable[g] /\ buf'.dir[g] = buf.dir[g]
          /\ buf'.ifree = buf.ifree /\ buf'.bfree = buf.bfree
      BY <1>0, <2>3, <3>1, <3>2, <3>3, <3>4, DeleteEffect
    <3> QED
      BY <2>0, <3>1, <3>2, <3>3, <3>5
  <2>4. ASSUME NEW f \in Files, WriteBackInode(f)
        PROVE  WholeOnDisk(g)' /\ WholeInBuffers(g)' /\ g \notin (dirty \cup lost)'
    <3>1. /\ UNCHANGED <<disk, buf, data, synced>> /\ dirty' = dirty \ {f} /\ lost' = lost \ {f}
          /\ f \in dirty /\ itable' = [itable EXCEPT ![f] = inode[f]]
      BY <2>4 DEF WriteBackInode, WriteInode
    <3>2. g # f /\ itable'[g] = itable[g]
      BY <1>0, <2>0, <3>1, Basics
    <3> QED
      BY <2>0, <3>1, <3>2
  <2>5. ASSUME NEW f \in Files, WriteInodeFails(f)
        PROVE  WholeOnDisk(g)' /\ WholeInBuffers(g)' /\ g \notin (dirty \cup lost)'
    <3>1. /\ UNCHANGED <<disk, buf, data, itable, synced>> /\ dirty' = dirty \ {f}
          /\ lost' = lost \cup {f} /\ f \in dirty
      BY <2>5 DEF WriteInodeFails
    <3> QED
      BY <2>0, <3>1
  <2>6. ASSUME NEW p \in Pieces, WriteBackBuffer(p)
        PROVE  WholeOnDisk(g)' /\ WholeInBuffers(g)' /\ g \notin (dirty \cup lost)'
    <3>1. UNCHANGED <<buf, data, itable, synced, dirty, lost>>
      BY <2>6 DEF WriteBackBuffer
    <3> QED
      BY <1>0, <2>0, <2>6, <3>1, PieceWritten
  <2>7. ASSUME SyncCopy
        PROVE  WholeOnDisk(g)' /\ WholeInBuffers(g)' /\ g \notin (dirty \cup lost)'
    <3>1. UNCHANGED <<data, itable, synced, dirty, lost>>
      BY <2>7 DEF SyncCopy
    <3>2. itable[g] \notin mem.bfree /\ g \notin mem.ifree /\ g \in synced
      BY <1>5, <3>1, SyncedInMemory
    <3>3. disk'.dir[g] > 0 /\ g \notin disk'.ifree /\ itable[g] \notin disk'.bfree
      BY <1>0, <2>0, <2>7, <3>2, CopiedToDisk
    <3>4. buf'.dir[g] > 0 /\ g \notin buf'.ifree /\ itable[g] \notin buf'.bfree
      BY <1>0, <2>0, <2>7, <3>2, CopiedPieces
    <3> QED
      BY <2>0, <3>1, <3>2, <3>3, <3>4
  <2>8. ASSUME SyncFlush
        PROVE  WholeOnDisk(g)' /\ WholeInBuffers(g)' /\ g \notin (dirty \cup lost)'
    <3>1. UNCHANGED <<buf, data, itable, dirty, lost>> /\ disk' = buf /\ sync = "flush"
          /\ synced' = synced \cup quiet
      BY <1>5, <2>8 DEF SyncFlush
    <3>2. CASE g \in synced
      BY <2>0, <3>1, <3>2
    <3>3. CASE g \in quiet
      <4>1. /\ g \in Files /\ buf.dir[g] > 0 /\ inode[g] # None /\ g \notin dirty \cup lost
            /\ g \notin buf.ifree /\ inode[g] \notin buf.bfree
        BY <1>0, <1>5, <3>1, <3>3, Basics DEF QuietInv, PastSb, PastIfree, PastBfree, PastInodes
      <4>2. itable[g] = inode[g]
        BY <1>5, <4>1 DEF RestInv, CleanInodes
      <4>3. inode[g] \in Blocks /\ data[inode[g]] = g
        BY <1>5, <4>1 DEF Consistent, Agree
      <4> QED
        BY <3>1, <4>1, <4>2, <4>3
    <3> QED
      BY <3>1, <3>2, <3>3
  <2>9. ASSUME SyncBegin \/ SyncFails \/ SyncInodes \/ Unmount \/ UNCHANGED vars
        PROVE  WholeOnDisk(g)' /\ WholeInBuffers(g)' /\ g \notin (dirty \cup lost)'
    <3>1. UNCHANGED <<buf, disk, data, itable, synced, dirty, lost>>
      BY <2>9 DEF SyncBegin, SyncFails, SyncInodes, Unmount, vars
    <3> QED
      BY <2>0, <3>1
  <2> HIDE DEF WholeOnDisk, WholeInBuffers
  <2>10. SyncedInv' => WholeOnDisk(g)' /\ WholeInBuffers(g)' /\ g \notin (dirty \cup lost)'
    BY <1>5 DEF SyncedInv
  <2> QED
    BY <1>1, <1>2, <1>3, <2>1, <2>2, <2>3, <2>4, <2>5, <2>6, <2>7, <2>8, <2>9, <2>10 DEF Next
<1>6. CASE UNCHANGED vars
  BY <1>6 DEF vars, SyncedInv, WholeOnDisk, WholeInBuffers
<1> QED
  <2>1. CASE stage \in Live /\ ~ (PutSuper \/ Crash)
    <3>1. damaged' = damaged
      BY <2>1, <1>1, <1>6, Stages DEF Next, LoadStep, LoadFails, Unload, Loading, MountStep,
         MountFails, Create, Write, Delete, WriteBackInode, WriteInodeFails, WriteBackBuffer,
         SyncBegin, SyncCopy, SyncFails, SyncInodes, SyncFlush, Unmount, vars
    <3> QED
      BY <1>0, <1>4, <1>5, <2>1, <3>1 DEF TypeOK, StageOK
  <2>2. CASE stage \notin Live
    BY <1>0, <1>1, <1>3, <1>6, <2>2 DEF Next, AtRest, Create, Write, Delete, WriteBackInode,
       WriteInodeFails, WriteBackBuffer, SyncBegin, SyncCopy, SyncFails, SyncInodes, SyncFlush,
       Unmount, PutSuper
  <2> QED
    BY <1>2, <1>3, <2>1, <2>2

SyncInv == RestInv /\ DamagedInv /\ NoQuiet /\ Consistent /\ QuietInv /\ SyncedInv

\* A file that a sync completed for and that nobody touched since is whole on
\* the partition at every moment, until a damaged partition is used: entry,
\* inode, both bitmap bits and data, however the steps of ouichefs_sync_fs,
\* write-back, other files' operations, failures and crashes interleave.
THEOREM SyncedFilesSurvive == Spec => []SyncedSurvives
<1>1. Init => SyncInv
  <2> SUFFICES ASSUME Init PROVE SyncInv
    OBVIOUS
  <2>1. RestInv
    BY TypeOKInit DEF Init, RestInv, AtRest, CleanInodes, ReadIn, SavedInv, Live, HasSb, HasIfree,
       HasBfree
  <2>2. DamagedInv /\ NoQuiet /\ QuietInv /\ SyncedInv
    BY DEF Init, DamagedInv, NoQuiet, QuietInv, SyncedInv, Live
  <2>3. Agree(buf.dir, buf.ifree, buf.bfree, itable)
    BY DEF Init, Agree, Everything, NoBlocks
  <2>4. Consistent
    BY <2>3 DEF Consistent, Init, Live
  <2> QED
    BY <2>1, <2>2, <2>4 DEF SyncInv
<1>2. SyncInv /\ [Next]_vars => SyncInv'
  <2> SUFFICES ASSUME SyncInv, [Next]_vars PROVE SyncInv'
    OBVIOUS
  <2>1. RestInv'
    BY TypeOKNext, AtRestNext, CleanInodesNext, ReadInNext, SavedInvNext DEF RestInv, SyncInv
  <2>2. DamagedInv'
    BY DamagedSteps DEF RestInv, SyncInv
  <2> QED
    BY <2>1, <2>2, NoQuietNext, ConsistentNext, QuietInvNext, SyncedInvNext DEF SyncInv
<1>3. SyncInv => SyncedSurvives
  BY DEF SyncInv, SyncedInv, SyncedSurvives
<1> QED
  BY <1>1, <1>2, <1>3, PTL DEF Spec
-----------------------------------------------------------------------------
(* What an undamaged partition is *)

\* The counters count the bits, the inodes' with one to spare: in memory while
\* mounted, else on the partition.
Counts(sb, ifr, bfr) == sb.inodes = Cardinality(ifr) + 1 /\ sb.blocks = Cardinality(bfr)
CountInv ==
    damaged = "no" =>
      /\ stage \in Live => Counts(mem.sb, mem.ifree, mem.bfree)
      /\ stage \notin Live => Counts(buf.sb, buf.ifree, buf.bfree)

LEMMA FiniteBits ==
    ASSUME TypeOK
    PROVE  /\ mem \in Memory /\ buf \in Partition
           /\ mem.ifree \subseteq Files /\ mem.bfree \subseteq Blocks
           /\ IsFiniteSet(mem.ifree) /\ IsFiniteSet(mem.bfree)
           /\ Cardinality(mem.ifree) \in Nat /\ Cardinality(mem.bfree) \in Nat
<1>1. mem \in Memory /\ buf \in Partition
  BY DEF TypeOK, CopiesOK
<1>2. mem.ifree \subseteq Files /\ mem.bfree \subseteq Blocks
  BY <1>1 DEF Memory
<1>3. IsFiniteSet(mem.ifree) /\ IsFiniteSet(mem.bfree)
  BY <1>2, FS_Subset, MountAssumption
<1> QED
  BY <1>1, <1>2, <1>3, FS_CardinalityType

\* What the three operations do to the counters.
LEMMA CreateCounts ==
    ASSUME TypeOK, NEW f \in Files, Create(f)
    PROVE  mem'.sb.inodes = mem.sb.inodes - 1 /\ mem'.sb.blocks = mem.sb.blocks
BY FiniteBits DEF Create, Memory, Counters

LEMMA WriteCounts ==
    ASSUME TypeOK, NEW f \in Files, NEW b \in Blocks, Write(f, b)
    PROVE  mem'.sb.inodes = mem.sb.inodes /\ mem'.sb.blocks = mem.sb.blocks - 1
BY FiniteBits DEF Write, Memory, Counters

LEMMA DeleteCounts ==
    ASSUME TypeOK, NEW f \in Files, NEW written \in BOOLEAN, Delete(f, written)
    PROVE  /\ mem'.sb.inodes = mem.sb.inodes + 1
           /\ mem'.sb.blocks = mem.sb.blocks + Cardinality({inode[f]} \ {None})
<1> DEFINE n == Cardinality({inode[f]} \ {None})
           m1 == PutBlocks(mem, {inode[f]} \ {None})
<1>1. DOMAIN mem = {"sb", "ifree", "bfree"} /\ DOMAIN mem.sb = {"inodes", "blocks"}
  BY FiniteBits DEF Memory, Counters
<1>2. /\ m1.sb = [mem.sb EXCEPT !.blocks = @ + n] /\ DOMAIN m1 = DOMAIN mem
  BY <1>1 DEF PutBlocks
<1>3. mem' = PutInode(m1, f)
  BY DEF Delete
<1> HIDE DEF m1, n
<1>4. mem'.sb = [m1.sb EXCEPT !.inodes = @ + 1]
  BY <1>1, <1>2, <1>3 DEF PutInode
<1>5. mem'.sb.inodes = mem.sb.inodes + 1 /\ mem'.sb.blocks = mem.sb.blocks + n
  BY <1>1, <1>2, <1>4
<1> QED
  BY <1>5 DEF n

\* Bits that join or leave a bitmap.
LEMMA BitsJoin ==
    ASSUME NEW S, IsFiniteSet(S), NEW x
    PROVE  /\ x \notin S => Cardinality(S \cup {x}) = Cardinality(S) + 1
           /\ x \in S => Cardinality(S \ {x}) = Cardinality(S) - 1
BY FS_AddElement, FS_RemoveElement

LEMMA CountInvNext ==
    RestInv /\ DamagedInv /\ Consistent /\ CountInv /\ [Next]_vars => CountInv'
<1> SUFFICES ASSUME RestInv, DamagedInv, Consistent, CountInv, [Next]_vars, damaged' = "no"
             PROVE  CountInv'
  BY DEF CountInv
<1>0. TypeOK /\ AtRest /\ damaged = "no"
  BY DamagedSteps DEF RestInv
<1>1. CASE LoadStep \/ LoadFails \/ Unload \/ MountFails
  <2>1. stage \notin Live /\ stage' \notin Live /\ UNCHANGED buf
    BY <1>1, AfterLoad, Stages DEF LoadStep, LoadFails, Unload, Loading, MountFails, Live, filevars
  <2> QED
    BY <1>0, <2>1 DEF CountInv
<1>2. CASE MountStep
  <2>1. stage \notin Live /\ UNCHANGED buf
    BY <1>2, Stages DEF MountStep, Live
  <2>2. CASE stage = "dentry"
    <3>1. mem' = mem /\ stage' = "on"
      BY <1>2, <2>2, AfterMount DEF MountStep
    <3>2. mem.sb = buf.sb /\ mem.ifree = buf.ifree /\ mem.bfree = buf.bfree
      BY <2>2 DEF RestInv, ReadIn, HasSb, HasIfree, HasBfree
    <3> QED
      BY <1>0, <2>1, <3>1, <3>2 DEF CountInv, Live
  <2>3. CASE stage # "dentry"
    <3>1. stage' \notin Live
      BY <1>2, <2>3, AfterMount, Stages DEF MountStep, Live
    <3> QED
      BY <1>0, <2>1, <3>1 DEF CountInv
  <2> QED
    BY <2>2, <2>3
<1>3. ASSUME NEW f \in Files, Create(f) PROVE CountInv'
  <2>1. stage = "on" /\ stage' = "on" /\ f \in mem.ifree
    BY <1>3 DEF Create
  <2>2. Counts(mem.sb, mem.ifree, mem.bfree)
    BY <1>0, <2>1 DEF CountInv, Live
  <2>3. Cardinality(mem'.ifree) = Cardinality(mem.ifree) - 1 /\ mem'.bfree = mem.bfree
    BY <1>0, <1>3, <2>1, CreateEffect, BitsJoin, FiniteBits
  <2>4. Counts(mem'.sb, mem'.ifree, mem'.bfree)
    BY <1>0, <1>3, <2>2, <2>3, CreateCounts, FiniteBits DEF Counts
  <2> QED
    BY <2>1, <2>4 DEF CountInv, Live
<1>4. ASSUME NEW f \in Files, NEW b \in Blocks, Write(f, b) PROVE CountInv'
  <2>1. stage = "on" /\ stage' = "on" /\ b \in mem.bfree
    BY <1>4 DEF Write
  <2>2. Counts(mem.sb, mem.ifree, mem.bfree)
    BY <1>0, <2>1 DEF CountInv, Live
  <2>3. Cardinality(mem'.bfree) = Cardinality(mem.bfree) - 1 /\ mem'.ifree = mem.ifree
    BY <1>0, <1>4, <2>1, WriteEffect, BitsJoin, FiniteBits
  <2>4. Counts(mem'.sb, mem'.ifree, mem'.bfree)
    BY <1>0, <1>4, <2>2, <2>3, WriteCounts DEF Counts
  <2> QED
    BY <2>1, <2>4 DEF CountInv, Live
<1>5. ASSUME NEW f \in Files, NEW written \in BOOLEAN, Delete(f, written) PROVE CountInv'
  <2>1. stage = "on" /\ stage' = "on" /\ buf.dir[f] > 0
    BY <1>5 DEF Delete
  <2>2. Counts(mem.sb, mem.ifree, mem.bfree) /\ Agree(buf.dir, mem.ifree, mem.bfree, inode)
    BY <1>0, <2>1 DEF CountInv, Consistent, Live
  <2>3. f \notin mem.ifree /\ (inode[f] # None => inode[f] \notin mem.bfree)
    BY <2>1, <2>2 DEF Agree
  <2>4. Cardinality(mem'.ifree) = Cardinality(mem.ifree) + 1
    BY <1>0, <1>5, <2>3, DeleteEffect, BitsJoin, FiniteBits
  <2>5. Cardinality(mem'.bfree) = Cardinality(mem.bfree) + Cardinality({inode[f]} \ {None})
    <3>1. mem'.bfree = mem.bfree \cup ({inode[f]} \ {None})
      BY <1>0, <1>5, DeleteEffect
    <3>2. CASE inode[f] = None
      <4>1. {inode[f]} \ {None} = {} /\ mem'.bfree = mem.bfree
        BY <3>1, <3>2
      <4> QED
        BY <1>0, <4>1, FS_EmptySet, FiniteBits
    <3>3. CASE inode[f] # None
      <4>1. {inode[f]} \ {None} = {inode[f]} /\ mem'.bfree = mem.bfree \cup {inode[f]}
        BY <3>1, <3>3
      <4>2. Cardinality({inode[f]}) = 1
        BY FS_Singleton
      <4> QED
        BY <1>0, <2>3, <3>3, <4>1, <4>2, BitsJoin, FiniteBits
    <3> QED
      BY <3>2, <3>3
  <2>6. Counts(mem'.sb, mem'.ifree, mem'.bfree)
    BY <1>0, <1>5, <2>2, <2>4, <2>5, DeleteCounts DEF Counts
  <2> QED
    BY <2>1, <2>6 DEF CountInv, Live
<1>6. CASE SyncCopy
  <2>1. UNCHANGED <<stage, mem>> /\ stage \in Live
    BY <1>0, <1>6 DEF SyncCopy, AtRest
  <2> QED
    BY <1>0, <2>1 DEF CountInv
<1>7. CASE PutSuper
  <2>1. saved # None /\ stage = "umount" /\ stage' = "loaded" /\ sync = "none" /\ UNCHANGED buf
    BY <1>0, <1>7 DEF PutSuper
  <2>2. buf.sb = mem.sb /\ buf.ifree = mem.ifree /\ buf.bfree = mem.bfree
    BY <2>1 DEF RestInv, SavedInv, PastBfree, PastIfree, PastSb
  <2> QED
    BY <1>0, <2>1, <2>2 DEF CountInv, Live
<1>8. CASE Crash
  <2>1. stage \notin Live /\ stage' = "unloaded" /\ buf' = buf
    BY <1>0, <1>8 DEF Crash, AtRest, Live
  <2> QED
    BY <1>0, <2>1 DEF CountInv, Live
<1>9. CASE stage \in Live /\ stage' \in Live /\ UNCHANGED mem
  BY <1>0, <1>9 DEF CountInv
<1>10. CASE UNCHANGED vars
  BY <1>0, <1>10 DEF vars, filevars, CountInv
<1> QED
  BY <1>0, <1>1, <1>2, <1>3, <1>4, <1>5, <1>6, <1>7, <1>8, <1>9, <1>10 DEF Next, AtRest, Live,
     WriteBackInode, WriteInodeFails, WriteBackBuffer, SyncBegin, SyncFails, SyncInodes,
     SyncFlush, Unmount, filevars

\* A partition that is not mounted and has met no crash and no failed unmount
\* is sound: put_super and the sync before it bring bitmaps, inodes and
\* directory to the disk in agreement, the free-inode counter one above the
\* bits as mkfs left it and the free-block counter not below them, for every
\* number of files and blocks and whatever was created, written, deleted and
\* written back before.
THEOREM CleanPartitionsAreSound == Spec => []CleanIsSound
<1> DEFINE SoundInv == RestInv /\ DamagedInv /\ Consistent /\ CountInv
<1>1. Init => SoundInv
  <2> SUFFICES ASSUME Init PROVE SoundInv
    OBVIOUS
  <2>1. RestInv /\ DamagedInv
    BY TypeOKInit DEF Init, RestInv, AtRest, CleanInodes, ReadIn, SavedInv, DamagedInv, Live, HasSb,
       HasIfree, HasBfree
  <2>2. Agree(buf.dir, buf.ifree, buf.bfree, itable) /\ Counts(buf.sb, buf.ifree, buf.bfree)
    BY DEF Init, Agree, Counts, Everything, NoBlocks
  <2> QED
    BY <2>1, <2>2 DEF Consistent, CountInv, Init, Live
<1>2. SoundInv /\ [Next]_vars => SoundInv'
  <2> SUFFICES ASSUME SoundInv, [Next]_vars PROVE SoundInv'
    OBVIOUS
  <2>1. RestInv'
    BY TypeOKNext, AtRestNext, CleanInodesNext, ReadInNext, SavedInvNext DEF RestInv
  <2>2. DamagedInv'
    BY DamagedSteps DEF RestInv
  <2> QED
    BY <2>1, <2>2, ConsistentNext, CountInvNext
<1>3. SoundInv => CleanIsSound
  <2> SUFFICES ASSUME SoundInv, damaged = "no", stage \notin Live PROVE PartitionSound
    BY DEF CleanIsSound, Live
  <2>1. disk = buf /\ Agree(buf.dir, buf.ifree, buf.bfree, itable) /\ Counts(buf.sb, buf.ifree, buf.bfree)
    BY DEF RestInv, AtRest, Consistent, CountInv
  <2>2. Cardinality(buf.bfree) \in Nat
    <3>1. buf.bfree \subseteq Blocks
      BY FiniteBits DEF RestInv, Partition
    <3>2. IsFiniteSet(buf.bfree)
      BY <3>1, FS_Subset, MountAssumption
    <3> QED
      BY <3>2, FS_CardinalityType
  <2> QED
    BY <2>1, <2>2 DEF PartitionSound, Agree, Counts
<1> QED
  BY <1>1, <1>2, <1>3, PTL DEF Spec
=============================================================================
