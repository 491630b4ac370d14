------------------------------ MODULE Directory ------------------------------
(***************************************************************************)
(* Directories of ouichefs: entries in a directory's block, the inode      *)
(* bitmap and its counter, link counts, and a process that lists a         *)
(* directory with getdents while others change it.                         *)
(*                                                                         *)
(* The VFS holds the lock of the directories an operation works on, so     *)
(* each operation is one step; a listing is many, the lock being free      *)
(* between two calls of ouichefs_iterate.  Names are looked up in the      *)
(* directory block, as with a cold dentry cache.  A call that is refused   *)
(* (name taken, directory full, no inode, no block, block not readable)    *)
(* puts back what it took and changes nothing; it has no action.  What     *)
(* files hold is in SmallFile.tla and BigFile.tla: here all are empty, and *)
(* of blocks only the ones directories take are counted.                   *)
(***************************************************************************)
EXTENDS Integers, Sequences, FiniteSets, FiniteSetsExt

CONSTANTS
    NrInodes,   \* nr_inodes: inodes 0..NrInodes-1, of which 0 is invalid and 1 the root
    MaxSub,     \* OUICHEFS_MAX_SUBFILES (128 in the code)
    Names,      \* the names in use
    NoName,     \* the name in a cleared entry
    Stored,     \* what strscpy leaves of each name in the 28 bytes of an entry
    FreeBlocks, \* blocks directories may take
    RenameEIO   \* whether a rename may fail to read the old directory

Root == 1
Inode == 1..(NrInodes - 1)
Slot == 0..(MaxSub - 1)

ASSUME DirectoryAssumption ==
    /\ NrInodes \in Nat \ {0, 1, 2} /\ MaxSub \in Nat \ {0} /\ FreeBlocks \in Nat
    /\ NoName \notin Names /\ Stored \in [Names -> Names] /\ RenameEIO \in BOOLEAN

VARIABLES
    ifree_bitmap,    \* set bits of the inode bitmap
    nr_free_inodes,  \* sbi->nr_free_inodes
    nr_free_blocks,  \* sbi->nr_free_blocks
    i_mode,          \* "dir", "file", or "none" for an inode that was never used or was deleted
    i_nlink,         \* link counts
    files,           \* files[d]: the entries of directory d
    listing,         \* the process that lists a directory
    torn,            \* the inode whose rename failed between the two directories, or 0
    oops             \* a loop ran over the end of a directory block
    \* (the model, and with it a listing, ends with either)

inodevars == <<ifree_bitmap, nr_free_inodes, nr_free_blocks, i_mode>>
vars == <<inodevars, i_nlink, files, listing, torn, oops>>

NoEntry == [inode |-> 0, filename |-> NoName]
Entry == [inode : Inode \cup {0}, filename : Names \cup {NoName}]
EmptyBlock == [s \in Slot |-> NoEntry]

NoListing == [dir |-> 0]
Listing == [dir : Inode, pos : 0..MaxSub, got : Seq(Inode), stay : SUBSET Inode,
            removed : BOOLEAN, done : BOOLEAN]

TypeOK ==
    /\ ifree_bitmap \subseteq 0..NrInodes /\ nr_free_inodes \in Nat /\ nr_free_blocks \in Nat
    /\ i_mode \in [Inode -> {"dir", "file", "none"}] /\ i_nlink \in [Inode -> Nat]
    /\ files \in [Inode -> [Slot -> Entry]]
    /\ IF listing.dir = 0 THEN listing = NoListing ELSE listing \in Listing
    /\ torn \in Inode \cup {0} /\ oops \in BOOLEAN

\* What mkfs leaves: the root alone, and a counter that does not count inode 0
\* as used.
Init ==
    /\ ifree_bitmap = 2..(NrInodes - 1) /\ nr_free_inodes = NrInodes - 1
    /\ nr_free_blocks = FreeBlocks
    /\ i_mode = [i \in Inode |-> IF i = Root THEN "dir" ELSE "none"]
    /\ i_nlink = [i \in Inode |-> IF i = Root THEN 2 ELSE 0]
    /\ files = [i \in Inode |-> EmptyBlock]
    /\ listing = NoListing /\ torn = 0 /\ oops = FALSE
-----------------------------------------------------------------------------
(* A directory block *)

\* The first empty entry from slot first on, MaxSub if there is none.
FirstEmpty(w, first) == Min({s \in Slot : s >= first /\ w[s].inode = 0} \cup {MaxSub})

\* ouichefs_lookup: the inode of a name among the entries before the first
\* empty one, 0 if it is not there.
Lookup(d, name) ==
    LET hits == {s \in Slot : s < FirstEmpty(files[d], 0) /\ files[d][s].filename = name}
    IN IF hits = {} THEN 0 ELSE files[d][Min(hits)].inode

\* Whether any entry, empty ones included, has the name: the test of rename.
HasName(w, name) == \E s \in Slot : w[s].filename = name

AddEntry(w, ino, name) ==
    [w EXCEPT ![FirstEmpty(w, 0)] = [inode |-> ino, filename |-> Stored[name]]]

\* Mutant of RemoveEntry: the entry is cleared and nothing moved up.
ClearEntry(w, ino) == [s \in Slot |-> IF w[s].inode = ino THEN NoEntry ELSE w[s]]

\* f_id is the last entry of the inode, nr_subs the number of entries; those
\* behind f_id move up by one and the last is cleared.
RemoveEntry(w, ino) ==
    LET nr_subs == FirstEmpty(w, 0)
        f_id == Max({s \in Slot : s < nr_subs /\ w[s].inode = ino} \cup {-1})
    IN [s \in Slot |-> IF s = nr_subs - 1 THEN NoEntry
                       ELSE IF s >= f_id /\ s < nr_subs THEN w[s + 1] ELSE w[s]]

Dirs == {d \in Inode : i_mode[d] = "dir"}

\* The directory, its parent, and so on up to the root.
Parents(D) == {p \in Dirs : \E s \in Slot : files[p][s].inode \in D}
Ancestors(d) == FoldSet(LAMBDA n, D : D \cup Parents(D), {d}, Dirs)
-----------------------------------------------------------------------------
(* ouichefs_create, ouichefs_mkdir *)

MayCall(d) == ~oops /\ torn = 0 /\ d \in Dirs

\* get_free_inode; inode 0 is never free.
GetFreeInode(ino) ==
    /\ ino \in ifree_bitmap /\ \A j \in ifree_bitmap : ino <= j
    /\ ifree_bitmap' = ifree_bitmap \ {ino} /\ nr_free_inodes' = nr_free_inodes - 1

\* Mutant of PutInode: the counter is forgotten.
PutInodeUncounted(ino) ==
    /\ ifree_bitmap' = ifree_bitmap \cup {ino} /\ UNCHANGED nr_free_inodes

PutInode(ino) ==
    /\ ifree_bitmap' = ifree_bitmap \cup {ino} /\ nr_free_inodes' = nr_free_inodes + 1

\* Mutant of LinkCount: a directory that goes keeps its parent's link.
LinkCountUp(links, d, mode, n) ==
    IF mode = "dir" /\ n > 0 THEN [links EXCEPT ![d] = @ + n] ELSE links

\* inode_inc_link_count and inode_dec_link_count of the parent of a directory.
LinkCount(links, d, mode, n) == IF mode = "dir" THEN [links EXCEPT ![d] = @ + n] ELSE links

Create(d, name, mode) ==
    /\ MayCall(d) /\ Lookup(d, name) = 0
    /\ files[d][MaxSub - 1].inode = 0
    /\ nr_free_inodes # 0 /\ nr_free_blocks # 0
    /\ \E ino \in Inode :
         /\ GetFreeInode(ino)
         /\ i_mode' = [i_mode EXCEPT ![ino] = mode]
         /\ i_nlink' = LinkCount([i_nlink EXCEPT ![ino] = 1], d, mode, 1)
         /\ files' = [files EXCEPT ![ino] = EmptyBlock, ![d] = AddEntry(@, ino, name)]
    /\ nr_free_blocks' = nr_free_blocks - (IF mode = "dir" THEN 1 ELSE 0)
    /\ UNCHANGED <<listing, torn, oops>>
-----------------------------------------------------------------------------
(* ouichefs_unlink, ouichefs_rmdir *)

\* A listing of directory d from which an inode goes; a reader of a directory
\* that is removed itself gets no further.
Leaves(d, ino) ==
    IF listing.dir = d
    THEN [listing EXCEPT !.stay = @ \ {ino}, !.removed = TRUE]
    ELSE IF listing.dir = ino THEN NoListing ELSE listing

Unlink(d, ino) ==
    /\ files' = [files EXCEPT ![d] = RemoveEntry(@, ino)]
    /\ listing' = Leaves(d, ino)
    /\ i_nlink' = LinkCount([i_nlink EXCEPT ![ino] = @ - 1], d, i_mode[ino], -1)
    /\ i_mode' = [i_mode EXCEPT ![ino] = "none"]
    /\ nr_free_blocks' = nr_free_blocks + (IF i_mode[ino] = "dir" THEN 1 ELSE 0)
    /\ PutInode(ino)
    /\ UNCHANGED <<torn, oops>>

UnlinkFile(d, name) ==
    LET ino == Lookup(d, name)
    IN MayCall(d) /\ ino # 0 /\ i_mode[ino] = "file" /\ Unlink(d, ino)

\* Mutant of RmdirAllowed: only the link count is looked at.
RmdirByLinks(ino) == i_nlink[ino] <= 2

\* A directory counts as empty if at most one link is a subdirectory's and its
\* first entry is.
RmdirAllowed(ino) == i_nlink[ino] <= 2 /\ files[ino][0].inode = 0

Rmdir(d, name) ==
    LET ino == Lookup(d, name)
    IN MayCall(d) /\ ino # 0 /\ i_mode[ino] = "dir" /\ RmdirAllowed(ino) /\ Unlink(d, ino)
-----------------------------------------------------------------------------
(* ouichefs_rename; the VFS refuses to move a directory below itself *)

\* Mutant of NameFree: the name is looked for before the old name's entry only.
NameFreeBefore(d, old, new) ==
    \A s \in Slot : files[d][s].filename = new => \E r \in 0..s : files[d][r].filename = old

\* -EEXIST otherwise: a rename never replaces a file.
NameFree(d, old, new) == ~HasName(files[d], new)

RenameInPlace(d, old, new) ==
    LET f_pos == Max({s \in Slot : files[d][s].filename = old})
    IN /\ NameFree(d, old, new)
       /\ files' = [files EXCEPT ![d][f_pos].filename = Stored[new]]
       /\ UNCHANGED <<inodevars, i_nlink, listing, torn, oops>>

\* The entry leaves the old directory.
RemoveOld(d, ino, e, new) ==
    /\ FirstEmpty(files[d], 0) # MaxSub
    /\ files' = [files EXCEPT ![e] = AddEntry(@, ino, new), ![d] = RemoveEntry(@, ino)]
    /\ i_nlink' = LinkCount(LinkCount(i_nlink, e, i_mode[ino], 1), d, i_mode[ino], -1)
    /\ listing' = IF listing.dir = d THEN Leaves(d, ino) ELSE listing
    /\ UNCHANGED <<inodevars, torn, oops>>

\* The search for the old entry stops only at an empty one: in a full
\* directory it runs over the end of the block.
OverrunOld(d, ino, e, new) ==
    /\ FirstEmpty(files[d], 0) = MaxSub
    /\ files' = [files EXCEPT ![e] = AddEntry(@, ino, new)]
    /\ i_nlink' = LinkCount(i_nlink, e, i_mode[ino], 1)
    /\ oops' = TRUE /\ listing' = NoListing
    /\ UNCHANGED <<inodevars, torn>>

\* The old directory cannot be read: -EIO, and the file stays in both.
TornOld(d, ino, e, new) ==
    /\ RenameEIO
    /\ files' = [files EXCEPT ![e] = AddEntry(@, ino, new)]
    /\ i_nlink' = LinkCount(i_nlink, e, i_mode[ino], 1)
    /\ torn' = ino /\ listing' = NoListing
    /\ UNCHANGED <<inodevars, oops>>

\* The file gets its entry in the new directory first, then loses the old one.
RenameAcross(d, old, e, new) ==
    LET ino == Lookup(d, old)
    IN /\ NameFree(e, old, new) /\ FirstEmpty(files[e], 0) # MaxSub
       /\ i_mode[ino] = "dir" => ino \notin Ancestors(e)
       /\ RemoveOld(d, ino, e, new) \/ OverrunOld(d, ino, e, new) \/ TornOld(d, ino, e, new)

Rename(d, old) ==
    /\ MayCall(d) /\ Lookup(d, old) # 0
    /\ \E new \in Names :
         \/ RenameInPlace(d, old, new)
         \/ \E e \in Dirs \ {d} : RenameAcross(d, old, e, new)
-----------------------------------------------------------------------------
(* ouichefs_iterate *)

OpenDir(d) ==
    /\ MayCall(d) /\ listing = NoListing
    /\ listing' = [dir |-> d, pos |-> 0, got |-> <<>>, removed |-> FALSE, done |-> FALSE,
                   stay |-> {files[d][s].inode : s \in Slot} \ {0}]
    /\ UNCHANGED <<inodevars, i_nlink, files, torn, oops>>

\* Mutant of NextPos: the entry that did not fit the buffer is passed over.
NextPosPast(pos, n, last) == IF pos + n < last THEN pos + n + 1 ELSE pos + n

\* ctx->pos (less the two dots) after n entries of those before last.
NextPos(pos, n, last) == pos + n

\* One call, whose buffer takes up to n entries; the call that finds none ends
\* the listing.
Iterate(n) ==
    LET w == files[listing.dir]
        last == FirstEmpty(w, listing.pos)
        some == Min({n, last - listing.pos})
    IN /\ ~oops /\ torn = 0 /\ listing # NoListing /\ ~listing.done
       /\ listing' = [listing EXCEPT
            !.pos = NextPos(@, some, last),
            !.got = @ \o [k \in 1..some |-> w[listing.pos + k - 1].inode],
            !.done = (some = 0)]
       /\ UNCHANGED <<inodevars, i_nlink, files, torn, oops>>

CloseDir ==
    /\ ~oops /\ torn = 0 /\ listing # NoListing
    /\ listing' = NoListing
    /\ UNCHANGED <<inodevars, i_nlink, files, torn, oops>>
-----------------------------------------------------------------------------
Next ==
    \/ \E d \in Inode, name \in Names :
         \/ \E mode \in {"file", "dir"} : Create(d, name, mode)
         \/ UnlinkFile(d, name) \/ Rmdir(d, name) \/ Rename(d, name)
    \/ \E d \in Inode : OpenDir(d)
    \/ \E n \in 1..MaxSub : Iterate(n)
    \/ CloseDir

Spec == Init /\ [][Next]_vars
-----------------------------------------------------------------------------
(* sysfs *)

\* The number of inodes in use, by the counter.
InodesInUse == NrInodes - nr_free_inodes

\* total_small_file_count, of files without blocks, as all are here: inodes in
\* use are taken to be the first ones.
total_small_file_count ==
    Cardinality({i \in Inode : i < InodesInUse + 1 /\ i_mode[i] # "dir"})

\* total_file_count: the same, one inode short.
total_file_count ==
    Cardinality({i \in Inode : i < InodesInUse /\ i_mode[i] # "dir"})
-----------------------------------------------------------------------------
(* Properties *)

Allocated == {i \in Inode : i \notin ifree_bitmap}
Regular == {i \in Allocated : i_mode[i] = "file"}
Holders(ino) == {h \in Dirs \X Slot : files[h[1]][h[2]].inode = ino}

(* The inode bitmap and the directories agree, whatever sequence of         *)
(* creations, deletions, moves and failed moves led there: every inode      *)
(* marked used is a file or directory with exactly one entry (two if its    *)
(* rename stopped between the directories, the root none) in a directory    *)
(* that is itself in use, and no entry names a free inode.  A directory     *)
(* that is removed with entries in it, or a move that drops one, loses      *)
(* files for good.                                                          *)
TreeIntact ==
    ~oops =>
      /\ \A i \in Inode : (i_mode[i] = "none") <=> (i \in ifree_bitmap)
      /\ \A i \in Inode : Cardinality(Holders(i)) =
           (IF i = Root \/ i \notin Allocated THEN 0 ELSE 1) + (IF i = torn THEN 1 ELSE 0)

(* The entries of a directory come without a hole, which lookup, rmdir, the *)
(* search in unlink and rename, and listings all rely on: each stops at the *)
(* first empty entry, and a full directory is told by its last one.         *)
EntriesPacked ==
    \A d \in Dirs :
      \A s \in Slot : files[d][s].inode = 0 => \A t \in s..(MaxSub - 1) : files[d][t] = NoEntry

(* No directory has a name twice, through creations and both kinds of       *)
(* rename: the first entry would hide the second.                           *)
NamesUnique ==
    \A d \in Dirs :
      \A s, t \in Slot : s # t /\ files[d][s].filename = files[d][t].filename =>
        files[d][s] = NoEntry

Subdirs(d) == {s \in Slot : files[d][s].inode # 0 /\ i_mode[files[d][s].inode] = "dir"}

(* The link count of a directory is that of an empty one and one for each   *)
(* subdirectory, also after moves between directories; rmdir decides by it. *)
LinksCountSubdirs ==
    ~oops /\ torn = 0 =>
      \A d \in Dirs :
        i_nlink[d] = (IF d = Root THEN 2 ELSE 1) + Cardinality(Subdirs(d))

Times(got, i) == Cardinality({k \in DOMAIN got : got[k] = i})

(* A listing that has come to its end has reported every file that was in   *)
(* the directory all the time: once, if nothing was removed from the        *)
(* directory meanwhile, however many files were created and renamed between *)
(* the calls; and never twice, even if something was.                       *)
ListsEachOnce ==
    listing # NoListing => \A i \in listing.stay :
      /\ Times(listing.got, i) <= 1
      /\ listing.done /\ ~listing.removed => Times(listing.got, i) = 1

(* The number of small files sysfs reports is right whenever the inodes in  *)
(* use are the first ones, as they are until a file is deleted: the counter *)
(* that mkfs starts one too high and the loop that goes one too far cancel  *)
(* out.                                                                     *)
SmallFilesCounted ==
    Allocated = 1..Cardinality(Allocated) => total_small_file_count = Cardinality(Regular)

(* A listing reports every file that was there all the time.                *)
ListsAll ==
    listing # NoListing /\ listing.done => \A i \in listing.stay : Times(listing.got, i) = 1

(* No handler runs over the end of a directory block.                       *)
NoOverrun == ~oops

(* sysfs "files" is the number of regular files.                            *)
FilesCounted == total_file_count = Cardinality(Regular)
=============================================================================
