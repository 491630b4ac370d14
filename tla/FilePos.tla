------------------------------- MODULE FilePos -------------------------------
(***************************************************************************)
(* What processes see of one file through read and write: its bytes, the   *)
(* position of their descriptors and what the calls return.  A writer      *)
(* (with O_APPEND or not) and a reader take turns; a call is one step here *)
(* (SmallFile.tla and BigFile.tla have the steps of calls).                *)
(*                                                                         *)
(* The file's bytes are the numbers of the writes that put them there.     *)
(* Kept are all bytes of its space, also the ones past i_size, which a     *)
(* later write can bring to light, and each way of writing moves them as   *)
(* the code does: in place, to a new place, block by block, or through a   *)
(* buffer that combines old and new.                                       *)
(***************************************************************************)
EXTENDS Integers

CONSTANTS
    SliceSize,  \* bytes per slice
    BlockSize,  \* bytes per block
    IndexLen,   \* block numbers in an index block
    Counts,     \* lengths of writes
    Offsets,    \* where the writer seeks to
    Bufs,       \* lengths of reads
    MaxWrites   \* bound on the number of writes

Limit == IndexLen * BlockSize
SmallMax == BlockSize - SliceSize

ASSUME FilePosAssumption ==
    /\ SliceSize \in Nat \ {0} /\ BlockSize \in Nat /\ BlockSize > SliceSize
    /\ IndexLen \in Nat \ {0} /\ MaxWrites \in Nat
    /\ Counts \subseteq Nat \ {0} /\ Offsets \subseteq Nat /\ Bufs \subseteq Nat \ {0}

VARIABLES
    bytes,       \* the bytes of the file's space
    i_size,
    written,     \* index_block # 0
    big,         \* i_blocks # 0
    num_slices,
    append,      \* the writer's descriptor has O_APPEND
    f_pos,       \* its position
    told,        \* what the last write returned: a number of bytes, or -1 for an error
    rd,          \* the reader
    writes,      \* number of writes so far
    gone         \* history: writes that failed, or whose bytes a truncation or a failure took

filevars == <<bytes, i_size, written, big, num_slices>>
writervars == <<append, f_pos, told, writes, gone>>
vars == <<filevars, writervars, rd>>

Byte == 1..Limit
Hole == -1       \* no space: reads as zero
Stale == -2      \* left by somebody else
NoBytes == [i \in Byte |-> Hole]

NoReader == [open |-> FALSE]

TypeOK ==
    /\ bytes \in [Byte -> {Hole, Stale} \cup (0..MaxWrites)] /\ i_size \in 0..Limit
    /\ written \in BOOLEAN /\ big \in BOOLEAN /\ num_slices \in Nat
    /\ append \in BOOLEAN /\ f_pos \in Nat /\ told \in Int
    /\ writes \in 0..MaxWrites /\ gone \subseteq 1..MaxWrites
    /\ rd = NoReader \/ rd \in [open : {TRUE}, pos : Nat, skewed : BOOLEAN, eof : BOOLEAN]

\* A file that was just created, opened by a writer.
Init ==
    /\ bytes = NoBytes /\ i_size = 0 /\ written = FALSE /\ big = FALSE /\ num_slices = 0
    /\ append \in BOOLEAN /\ f_pos = 0 /\ told = 0
    /\ rd = NoReader /\ writes = 0 /\ gone = {}
-----------------------------------------------------------------------------
(* Where a write goes *)

MaxOf(a, b) == IF a >= b THEN a ELSE b
MinOf(a, b) == IF a <= b THEN a ELSE b

Slices(size) == (size + SliceSize - 1) \div SliceSize
will_be_small(size) == size <= SmallMax

WritePos == IF append THEN i_size ELSE f_pos

\* The size by which custom_write_iter chooses: from the descriptor's position
\* also for an append.
DispatchSize(n) == MaxOf(f_pos + n, i_size)
NewSize(n) == MaxOf(WritePos + n, i_size)

GoesSmall(n) == (~written \/ ~big) /\ will_be_small(DispatchSize(n))
GoesBig(n) == IF written THEN big ELSE ~will_be_small(DispatchSize(n))
Converts(n) == written /\ ~big /\ ~will_be_small(DispatchSize(n))

\* write_small_file on a file that has its place, which is to stay or to change.
Stays(n) == GoesSmall(n) /\ written /\ num_slices # 0 /\ Slices(NewSize(n)) = num_slices
Moves(n) == GoesSmall(n) /\ written /\ num_slices # 0 /\ Slices(NewSize(n)) # num_slices

\* The bytes s after n new ones are copied to position p.
InRun(i, p, n) == i > p /\ i <= p + n
Copy(s, p, n) == [i \in Byte |-> IF InRun(i, p, n) THEN writes + 1 ELSE s[i]]

\* n slices; left is what they hold when they are given, 0 or Stale.
NewPlace(n, left) == [i \in Byte |-> IF i <= n * SliceSize THEN left ELSE Hole]

\* What read shows of a byte.
Shown(i) == IF bytes[i] = Hole THEN 0 ELSE bytes[i]

\* Mutant of Combined: the previous content is ignored.
CombinedNew(i, n) == IF InRun(i, WritePos, n) THEN writes + 1 ELSE 0

\* combined_buf: the old bytes, zeros up to the position, the new bytes.
Combined(i, n) ==
    IF InRun(i, WritePos, n) THEN writes + 1 ELSE IF i <= i_size THEN Shown(i) ELSE 0

\* The writer calls write; the call returns ret, and the VFS takes over ki_pos
\* if that is a number of bytes.
Call(ret, ki_pos) ==
    /\ writes < MaxWrites /\ writes' = writes + 1
    /\ told' = ret /\ f_pos' = IF ret > 0 THEN ki_pos ELSE f_pos
    /\ UNCHANGED <<append, rd>>
Fail == Call(-1, f_pos) /\ gone' = gone \cup {writes + 1}
-----------------------------------------------------------------------------
(* write_small_file *)

\* The first write: the bytes before its position are what the slices hold.
\* ki_pos is left where the write began.
WriteFirst(n, left) ==
    /\ GoesSmall(n) /\ ~written /\ will_be_small(NewSize(n))
    /\ bytes' = Copy(NewPlace(Slices(NewSize(n)), left), WritePos, n)
    /\ i_size' = NewSize(n) /\ num_slices' = Slices(NewSize(n)) /\ written' = TRUE
    /\ Call(n, WritePos)
    /\ UNCHANGED <<big, gone>>

\* As many slices as before: the bytes are copied in place, and a gap is not
\* zeroed.
WriteInPlace(n) ==
    /\ Stays(n)
    /\ bytes' = Copy(bytes, WritePos, n) /\ i_size' = NewSize(n)
    /\ Call(n, WritePos)
    /\ UNCHANGED <<written, big, num_slices, gone>>

\* Another number of slices: the file moves, through a combined buffer.
WriteMoved(n, left) ==
    LET place == NewPlace(Slices(NewSize(n)), left)
    IN /\ Moves(n) /\ WritePos # 0 /\ will_be_small(NewSize(n))
       /\ bytes' = [i \in Byte |-> IF i <= NewSize(n) THEN Combined(i, n) ELSE place[i]]
       /\ i_size' = NewSize(n) /\ num_slices' = Slices(NewSize(n))
       /\ Call(n, WritePos + n)
       /\ UNCHANGED <<written, big, gone>>

\* "pos is 0, we can ignore previous content".
Rewrite(n, left) ==
    /\ Moves(n) /\ WritePos = 0 /\ will_be_small(NewSize(n))
    /\ bytes' = Copy(NewPlace(Slices(n), left), 0, n)
    /\ i_size' = n /\ num_slices' = Slices(n)
    /\ Call(n, n)
    /\ UNCHANGED <<written, big, gone>>

\* copy_from_iter falls short: m bytes are in the block.
InPlaceFaults(n, m) ==
    /\ Stays(n)
    /\ bytes' = Copy(bytes, WritePos, m)
    /\ Fail
    /\ UNCHANGED <<i_size, written, big, num_slices>>

\* It does so once slices have been claimed: index_block and i_size are put
\* back, num_slices is not, and the slices it now counts are a neighbour's.
ClaimFaults(n) ==
    LET size == IF written THEN n ELSE NewSize(n)
    IN /\ will_be_small(NewSize(n))
       /\ (GoesSmall(n) /\ ~written) \/ (Moves(n) /\ WritePos = 0)
       /\ num_slices' = Slices(size)
       /\ bytes' = [i \in Byte |-> IF bytes[i] = Hole /\ i <= Slices(size) * SliceSize
                                   THEN Stale ELSE bytes[i]]
       /\ Fail
       /\ UNCHANGED <<i_size, written, big>>

\* The combined buffer cannot be had or filled: the early return leaves
\* index_block and i_size at 0, and the file is lost.
MoveLost(n) ==
    /\ Moves(n) /\ WritePos # 0
    /\ bytes' = NoBytes /\ i_size' = 0 /\ written' = FALSE
    /\ Call(-1, f_pos) /\ gone' = 1..(writes + 1)
    /\ UNCHANGED <<big, num_slices>>
-----------------------------------------------------------------------------
(* write_big_file and convert_small_to_big *)

BlockOf(i) == (i - 1) \div BlockSize

\* What the index names before the write: an index block that is taken is not
\* scrubbed.
Named(left) == IF written THEN bytes ELSE [i \in Byte |-> IF left = 0 THEN Hole ELSE left]

\* Blocks first to last are there: new ones are not scrubbed either.
Filled(s, first, last, left) ==
    [i \in Byte |-> IF s[i] = Hole /\ BlockOf(i) >= first /\ BlockOf(i) <= last THEN left ELSE s[i]]

\* The gap behind the end of the file is zeroed in the block where it ends, if
\* that is the one the write starts in.
Gapped(s) ==
    [i \in Byte |-> IF i > i_size /\ i <= WritePos /\ i_size \div BlockSize = WritePos \div BlockSize
                    THEN 0 ELSE s[i]]

WriteBig(n, left) ==
    LET first == WritePos \div BlockSize
        last == BlockOf(WritePos + n)
    IN /\ GoesBig(n) /\ WritePos + n <= Limit
       /\ bytes' = Copy(Gapped(Filled(Named(left), first, last, left)), WritePos, n)
       /\ i_size' = NewSize(n) /\ written' = TRUE /\ big' = TRUE
       /\ Call(n, WritePos + n)
       /\ UNCHANGED <<num_slices, gone>>

\* It fails after m bytes, with the block of the next byte there or not:
\* i_size and ki_pos are not updated.
BigFails(n, m, last, left) ==
    LET first == WritePos \div BlockSize
        filled == Filled(bytes, first, last, left)
    IN /\ GoesBig(n) /\ written /\ WritePos + m <= Limit
       /\ last \in {BlockOf(WritePos + m), BlockOf(WritePos + m + 1)}
       /\ \E s \in {Gapped(filled)} \cup (IF m = 0 THEN {filled} ELSE {}) : bytes' = Copy(s, WritePos, m)
       /\ Fail
       /\ UNCHANGED <<i_size, written, big, num_slices>>

\* The first write of a big file fails once it has its index block: the number
\* looks like a small file's place.
FirstFails(n) ==
    /\ GoesBig(n) /\ ~written
    /\ written' = TRUE /\ bytes' = [i \in Byte |-> Stale]
    /\ Fail
    /\ UNCHANGED <<i_size, big, num_slices>>

\* The whole content is written again from the start.  The call returns what
\* delete_slice returned, 0 at best: the VFS leaves f_pos, and the writer is
\* told that nothing was written.
Convert(n, left, ret) ==
    LET size == NewSize(n)
        space == Filled([i \in Byte |-> IF left = 0 THEN Hole ELSE left], 0, BlockOf(size), left)
    IN /\ Converts(n) /\ size <= Limit
       /\ bytes' = [i \in Byte |-> IF i <= size THEN Combined(i, n) ELSE space[i]]
       /\ i_size' = size /\ big' = TRUE
       /\ Call(ret, f_pos)
       /\ UNCHANGED <<written, num_slices, gone>>

\* Any other failure: no space, an unreadable block, no memory, a file that
\* would be too big, a file with an index block and no slices.  What was moved
\* or converted is restored.
Fails(n) ==
    /\ Fail
    /\ UNCHANGED filevars

Write(n) ==
    \/ WriteInPlace(n) \/ MoveLost(n) \/ ClaimFaults(n) \/ FirstFails(n) \/ Fails(n)
    \/ \E left \in {0, Stale} :
         \/ WriteFirst(n, left) \/ WriteMoved(n, left) \/ Rewrite(n, left) \/ WriteBig(n, left)
         \/ \E ret \in {0, -1} : Convert(n, left, ret)
         \/ \E m \in 0..(n - 1), last \in -1..(IndexLen - 1) : BigFails(n, m, last, left)
    \/ \E m \in 0..(n - 1) : InPlaceFaults(n, m)
-----------------------------------------------------------------------------
(* llseek and open *)

Seek(p) ==
    /\ ~append /\ f_pos' = p
    /\ UNCHANGED <<filevars, append, told, rd, writes, gone>>

\* The blocks before the first that the index does not name.
Leading(i) == \A k \in 0..BlockOf(i) : bytes[k * BlockSize + 1] # Hole

\* O_TRUNC: a big file gives back its leading blocks, a small one keeps its
\* slices.
Truncated == IF big THEN [i \in Byte |-> IF Leading(i) THEN Hole ELSE bytes[i]] ELSE bytes

\* The writer opens the file again.
Reopen(trunc) ==
    /\ trunc => i_size # 0
    /\ append' \in BOOLEAN /\ f_pos' = 0
    /\ bytes' = IF trunc THEN Truncated ELSE bytes
    /\ i_size' = IF trunc THEN 0 ELSE i_size
    /\ gone' = IF trunc THEN 1..writes ELSE gone
    /\ UNCHANGED <<written, big, num_slices, told, rd, writes>>
-----------------------------------------------------------------------------
(* custom_read_iter.  A read that fails changes nothing. *)

OpenReader ==
    /\ ~rd.open
    /\ rd' = [open |-> TRUE, pos |-> 0, skewed |-> FALSE, eof |-> FALSE]
    /\ UNCHANGED <<filevars, writervars>>

CloseReader ==
    /\ rd.open /\ rd.eof
    /\ rd' = NoReader
    /\ UNCHANGED <<filevars, writervars>>

Reads == rd.open /\ ~rd.eof

ReadEnd ==
    /\ Reads /\ rd.pos >= i_size
    /\ rd' = [rd EXCEPT !.eof = TRUE]
    /\ UNCHANGED <<filevars, writervars>>

Takes(n) == MinOf(n, i_size - rd.pos)

\* A small file is read from its start wherever the reader is, and ki_pos set
\* to the number of bytes.
ReadSmall(n) ==
    /\ Reads /\ rd.pos < i_size /\ ~big
    /\ rd' = [rd EXCEPT !.pos = Takes(n), !.skewed = rd.skewed \/ rd.pos > 0]
    /\ UNCHANGED <<filevars, writervars>>

\* Mutant of BigPos: the position is set as for a small file.
BigPosCount(pos, count) == count

BigPos(pos, count) == pos + count

ReadBig(n) ==
    /\ Reads /\ rd.pos < i_size /\ big
    /\ rd' = [rd EXCEPT !.pos = BigPos(@, Takes(n))]
    /\ UNCHANGED <<filevars, writervars>>

Read == ReadEnd \/ \E n \in Bufs : ReadSmall(n) \/ ReadBig(n)
-----------------------------------------------------------------------------
Next ==
    \/ \E n \in Counts : Write(n)
    \/ \E p \in Offsets : Seek(p)
    \/ \E trunc \in BOOLEAN : Reopen(trunc)
    \/ OpenReader \/ CloseReader \/ Read

Spec == Init /\ [][Next]_vars

\* A process that reads goes on reading; nothing makes the writer write.
FairSpec == Spec /\ WF_vars(Read)
-----------------------------------------------------------------------------
(* Properties *)

\* Where POSIX has a write go, and what a byte that was never written shows at
\* worst.
Target == IF append THEN i_size ELSE f_pos
Leftover == {0, Stale} \cup gone

\* A byte of the file keeps its value.  (A byte of a hole may cease to be 0
\* when its block is given.)
Kept(i) == Shown(i)' = Shown(i) \/ (Shown(i) = 0 /\ Shown(i)' = Stale)

\* n bytes at the target are new and the others are as before.
Whole(n) ==
    /\ i_size' = MaxOf(Target + n, i_size)
    /\ \A i \in 1..i_size' :
         IF InRun(i, Target, n) THEN Shown(i)' = writes'
         ELSE IF i <= i_size THEN Kept(i) ELSE Shown(i)' \in Leftover'

\* The first of the n bytes are new, as far as they lie inside the file.
Partial(n) ==
    /\ i_size' = i_size
    /\ \E m \in 0..(n - 1) : \A i \in 1..i_size :
         IF InRun(i, Target, m) THEN Shown(i)' = writes' ELSE Kept(i)

\* The new bytes are all there is left of a file whose num_slices a fault has
\* left wrong.
Cut(n) ==
    /\ Target = 0 /\ num_slices # Slices(i_size)
    /\ i_size' = n /\ \A i \in 1..n : Shown(i)' = writes'

(* Whichever of the five ways a write takes, and whatever failed before it: *)
(* if it reports n bytes, these are at the place O_APPEND and the position  *)
(* ask for, all other bytes are as they were, and a gap shows zeros or      *)
(* remains of writes that failed or were truncated, never bytes that are    *)
(* live elsewhere in the file.  If it reports an error, the size is as      *)
(* before and only a first part of the n bytes was overwritten, or a small  *)
(* file is empty, or a conversion did all.  A file whose num_slices is      *)
(* wrong after a fault may be cut by a write at 0.                          *)
WritesExact ==
    [][writes' # writes => \E n \in Counts :
         \/ Whole(n) /\ (told' = n \/ (told' <= 0 /\ ~big /\ big'))
         \/ told' < 0 /\ (Partial(n) \/ (~big /\ ~big' /\ i_size' = 0))
         \/ told' = n /\ Cut(n)]_vars

(* A reader comes to the end of the file with any buffer, while the file    *)
(* grows, becomes big, is truncated or lost, unless it has read a small     *)
(* file from a position other than its start.                               *)
ReaderFinishes == (rd.open /\ ~rd.skewed) ~> (~rd.open \/ rd.eof \/ rd.skewed)

(* "Update file position" (file.c:1274): consecutive writes follow on each  *)
(* other.                                                                   *)
SequentialWrites == [][told' > 0 /\ writes' # writes => f_pos' = WritePos + told']_vars

(* A reader comes to the end of the file: it reads "the entire file"        *)
(* (file.c:310), so pos does not matter.                                    *)
EveryReaderFinishes == rd.open ~> (~rd.open \/ rd.eof)

(* An append that write_small_file cannot place is not sent there.          *)
AppendsFit ==
    append => \A n \in Counts : GoesSmall(n) => will_be_small(NewSize(n))
=============================================================================
