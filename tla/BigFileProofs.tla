---------------------------- MODULE BigFileProofs ----------------------------
(* Theorems about BigFile, for partitions, index blocks and slices of any   *)
(* size.                                                                    *)
EXTENDS BigFile, FiniteSetTheorems, TLAPS

Data == Reserved..(NrBlocks - 1)
OnDisk == 0..(NrBlocks - 1)
IndexWordsType == [Entry -> Nat]
OwnersType == [Entry -> Files \cup {NoFile}]

LEMMA Geometry ==
    /\ NrBlocks \in Nat /\ Reserved \in Nat \ {0} /\ Reserved < NrBlocks
    /\ NrSlices \in Nat \ {0, 1} /\ SliceSize \in Nat \ {0} /\ IndexLen \in Nat \ {0}
    /\ BlockSize \in Nat \ {0} /\ Block \subseteq Nat \ {0} /\ Slice \subseteq Nat \ {0}
    /\ Data \subseteq Block /\ Block \subseteq OnDisk /\ OnDisk \subseteq Nat /\ 0 \notin Data
    /\ NrBlocks \notin Block /\ Entry \subseteq Nat
<1>1. /\ NrBlocks \in Nat /\ Reserved \in Nat \ {0} /\ Reserved < NrBlocks
      /\ NrSlices \in Nat \ {0, 1} /\ SliceSize \in Nat \ {0} /\ IndexLen \in Nat \ {0}
  BY GeometryAssumption
<1>2. BlockSize \in Nat \ {0}
  BY <1>1 DEF BlockSize
<1>3. Block \subseteq Nat \ {0} /\ Slice \subseteq Nat \ {0} /\ Entry \subseteq Nat
  BY <1>1 DEF Block, Slice, Entry
<1>4. Data \subseteq Block /\ Block \subseteq OnDisk /\ OnDisk \subseteq Nat /\ 0 \notin Data
      /\ NrBlocks \notin Block
  BY <1>1 DEF Data, Block, OnDisk
<1> QED
  BY <1>1, <1>2, <1>3, <1>4

LEMMA DivIs ==
    ASSUME NEW a \in Nat, NEW b \in Nat \ {0}
    PROVE  a \div b \in Nat /\ a % b \in 0..(b - 1) /\ b * (a \div b) <= a /\ a < b * (a \div b) + b
OBVIOUS

LEMMA RoundUpType ==
    ASSUME NEW n \in Nat, NEW d \in Nat \ {0}
    PROVE  DivRoundUp(n, d) \in Nat
BY DEF DivRoundUp
-----------------------------------------------------------------------------
(* Types *)

SbTypes == bfree_bitmap \subseteq 0..NrBlocks /\ nr_free_blocks \in Int /\ sliced \subseteq Block
BlockTypes == words \in [OnDisk -> IndexWordsType] /\ bytes \in [OnDisk -> OwnersType]
InodeTypes ==
    /\ linked \subseteq Files /\ index_block \in [Files -> Nat] /\ num_slices \in [Files -> Nat]
    /\ i_size \in [Files -> Nat] /\ i_blocks \in [Files -> Nat]
LoopTypes ==
    /\ pc \in {"idle", "loop"}
    /\ pc = "idle" => req = NoReq
    /\ pc = "loop" => req \in Req /\ index_block[req.f] \in OnDisk
Types == SbTypes /\ BlockTypes /\ InodeTypes /\ LoopTypes /\ exposed \subseteq Files

LEMMA NoContent == NoWords \in IndexWordsType /\ NoBytes \in OwnersType
BY DEF NoWords, NoBytes, IndexWordsType, OwnersType

LEMMA OverlayIs ==
    ASSUME NEW w, NEW n, NEW zero, NEW value
    PROVE  /\ DOMAIN Overlay(w, n, zero, value) = Entry
           /\ Overlay(w, n, zero, value) = [k \in Entry |-> Overlay(w, n, zero, value)[k]]
           /\ \A k \in Entry : Overlay(w, n, zero, value)[k] \in {w[k], zero, value}
<1>1. \A k \in Entry : Overlay(w, n, zero, value)[k] \in {w[k], zero, value}
  BY DEF Overlay
<1> QED
  BY <1>1 DEF Overlay

LEMMA OverlayType ==
    ASSUME NEW T, NEW w \in [Entry -> T], NEW n, NEW zero \in T, NEW value \in T
    PROVE  Overlay(w, n, zero, value) \in [Entry -> T]
BY OverlayIs

LEMMA MarkType ==
    ASSUME NEW T, NEW w \in [Entry -> T], NEW S, NEW g \in T
    PROVE  Mark(w, S, g) \in [Entry -> T]
BY DEF Mark

\* What the block bitmap and its counter can become in one step.
LEMMA BitmapTypes ==
    ASSUME SbTypes, sliced' \subseteq Block,
           \/ UNCHANGED <<bfree_bitmap, nr_free_blocks>> \/ GetNoBlock
           \/ \E b : GetFreeBlock(b)
           \/ \E S : \E n \in Int : PutBlocks(S, n)
           \/ bfree_bitmap' = bfree_bitmap \cup {0} /\ nr_free_blocks' = nr_free_blocks + 1
    PROVE  SbTypes'
<1>1. 0 \in 0..NrBlocks
  BY Geometry
<1>2. nr_free_blocks' \in Int
  BY DEF SbTypes, GetNoBlock, GetFreeBlock, PutBlocks
<1>3. bfree_bitmap' \subseteq 0..NrBlocks
  BY <1>1 DEF SbTypes, GetNoBlock, GetFreeBlock, PutBlocks, InRange
<1> QED
  BY <1>2, <1>3 DEF SbTypes

\* delete_slice.
LEMMA DeleteSliceTypes ==
    ASSUME Types, NEW f \in Files, DeleteSlice(f)
    PROVE  SbTypes' /\ BlockTypes'
<1> DEFINE b == GetBno(f)
           mine == {s \in Slice : <<b, s>> \in PlaceOf(f)}
<1>1. CASE UNCHANGED <<bfree_bitmap, nr_free_blocks, sliced, blockvars>>
  BY <1>1 DEF blockvars, Types, SbTypes, BlockTypes
<1>2. ASSUME NEW gone, gone \subseteq sliced,
             PutBlocks(gone, Cardinality(gone)), sliced' = sliced \ gone,
             words' = [c \in DOMAIN words |-> IF c \in gone THEN NoWords ELSE words[c]],
             bytes' = [c \in DOMAIN bytes |->
                         CASE c \in gone -> NoBytes
                           [] c = b /\ c \notin gone -> Mark(bytes[c], mine, NoFile)
                           [] OTHER -> bytes[c]]
      PROVE  SbTypes' /\ BlockTypes'
  <2>1. Cardinality(gone) \in Int
    <3>1. IsFiniteSet(Block)
      BY FS_Interval, Geometry DEF Block
    <3>2. gone \subseteq Block
      BY <1>2 DEF Types, SbTypes
    <3>3. Cardinality(gone) \in Nat
      BY <3>1, <3>2, FS_Subset, FS_CardinalityType
    <3> QED
      BY <3>3
  <2>2. SbTypes'
    <3>1. sliced' \subseteq Block
      BY <1>2 DEF Types, SbTypes
    <3> QED
      BY <1>2, <2>1, <3>1, BitmapTypes DEF Types
  <2>3. \A c \in OnDisk : Mark(bytes[c], mine, NoFile) \in OwnersType
    <3> HIDE DEF mine
    <3> QED
      BY MarkType DEF Types, BlockTypes, OwnersType
  <2>4. words' \in [OnDisk -> IndexWordsType]
    BY <1>2, NoContent DEF Types, BlockTypes
  <2>5. bytes' \in [OnDisk -> OwnersType]
    <3> HIDE DEF mine, b
    <3> QED
      BY <1>2, <2>3, NoContent DEF Types, BlockTypes
  <2> QED
    BY <2>2, <2>4, <2>5 DEF BlockTypes
<1>3. \A gone \in Walked(Vacant(f)) : gone \subseteq sliced
  BY DEF Walked, Vacant
<1> QED
  BY <1>1, <1>2, <1>3 DEF DeleteSlice, sbvars

LEMMA InodeCleared ==
    ASSUME InodeTypes, NEW f \in Files, ClearInode(f)
    PROVE  InodeTypes'
BY DEF InodeTypes, ClearInode

LEMMA Started ==
    ASSUME Types, NEW f \in Files, NEW pos \in Nat, NEW count \in Nat, NEW data \in Words,
           NEW convert \in BOOLEAN, StartLoop(f, pos, count, data, convert),
           index_block'[f] \in OnDisk
    PROVE  LoopTypes'
<1>1. i_size[f] \in Nat
  BY DEF Types, InodeTypes
<1>2. req' \in Req /\ req'.f = f /\ pc' = "loop"
  BY <1>1 DEF StartLoop, Req
<1> QED
  BY <1>2 DEF LoopTypes

LEMMA SizesAre ==
    ASSUME Types, NEW f \in Files, NEW ki_pos \in Nat, NEW count \in Nat, NEW append
    PROVE  /\ NewSize(f, ki_pos, count) \in Nat /\ StartsAt(f, ki_pos, append) \in Nat
           /\ DivRoundUp(NewSize(f, ki_pos, count), SliceSize) \in Nat
<1>1. NewSize(f, ki_pos, count) \in Nat /\ StartsAt(f, ki_pos, append) \in Nat
  BY DEF NewSize, StartsAt, MaxOf, Types, InodeTypes
<1> QED
  BY <1>1, RoundUpType, Geometry

LEMMA TypesInit == Init => Types
<1> SUFFICES ASSUME Init PROVE Types
  OBVIOUS
<1>1. SbTypes
  BY Geometry DEF Init, SbTypes
<1>2. BlockTypes
  BY NoContent DEF Init, BlockTypes, OnDisk
<1>3. InodeTypes
  BY DEF Init, InodeTypes
<1> QED
  BY <1>1, <1>2, <1>3 DEF Init, Types, LoopTypes

\* Calls that leave the blocks alone.
LEMMA CallTypes ==
    ASSUME Types, NEW f \in Files, Create(f) \/ OpenTruncError(f)
    PROVE  Types'
<1>1. CASE Create(f)
  <2>1. SbTypes' /\ BlockTypes'
    BY <1>1 DEF Create, sbvars, blockvars, Types, SbTypes, BlockTypes
  <2>2. InodeTypes'
    BY <1>1 DEF Create, Types, InodeTypes
  <2>3. LoopTypes'
    <3>1. pc' = pc /\ req' = req /\ pc = "idle"
      BY <1>1 DEF Create
    <3> QED
      BY <3>1 DEF Types, LoopTypes
  <2> QED
    BY <1>1, <2>1, <2>2, <2>3 DEF Create, Types
<1>2. CASE OpenTruncError(f)
  BY <1>2 DEF OpenTruncError, vars, sbvars, blockvars, inodevars, Types, SbTypes, BlockTypes,
     InodeTypes, LoopTypes
<1> QED
  BY <1>1, <1>2

\* Calls that free blocks.
LEMMA FreeTypes ==
    ASSUME Types, NEW f \in Files, OpenTrunc(f) \/ UnlinkSmall(f) \/ UnlinkBig(f) \/ UnlinkBlind(f)
    PROVE  Types'
<1> DEFINE ib == index_block[f]
<1>1. pc' = pc /\ req' = req /\ pc = "idle" /\ LoopTypes'
  <2>1. pc' = pc /\ req' = req /\ pc = "idle"
    BY DEF OpenTrunc, UnlinkSmall, UnlinkBig, UnlinkBlind, MayCall
  <2> QED
    BY <2>1 DEF Types, LoopTypes
<1>2. CASE OpenTrunc(f)
  <2> DEFINE gone == LeadingEntries(words[ib])
             freed == {words[ib][i] : i \in gone}
             n == Cardinality({i \in gone : words[ib][i] <= NrBlocks})
  <2>1. ib \in OnDisk
    BY <1>2, Geometry DEF OpenTrunc, Readable, Types, InodeTypes, OnDisk
  <2>2. Cleared(words[ib], gone, 0) \in IndexWordsType /\ Cleared(bytes[ib], gone, NoFile) \in OwnersType
    BY <2>1 DEF Cleared, Types, BlockTypes, IndexWordsType, OwnersType
  <2>3. BlockTypes'
    <3>1. /\ words' = [words EXCEPT ![ib] = Cleared(words[ib], gone, 0)]
          /\ bytes' = [bytes EXCEPT ![ib] = Cleared(bytes[ib], gone, NoFile)]
      BY <1>2 DEF OpenTrunc
    <3> HIDE DEF gone
    <3> QED
      BY <2>2, <3>1 DEF Types, BlockTypes
  <2>4. n \in Int
    <3>1. IsFiniteSet(Entry)
      BY FS_Interval, Geometry DEF Entry
    <3>2. {i \in gone : words[ib][i] <= NrBlocks} \subseteq Entry
      BY DEF LeadingEntries
    <3> QED
      BY <3>1, <3>2, FS_Subset, FS_CardinalityType
  <2>5. SbTypes'
    <3>1. PutBlocks(freed, n) /\ sliced' = sliced
      BY <1>2 DEF OpenTrunc
    <3> HIDE DEF n, freed
    <3> QED
      BY <2>4, <3>1, BitmapTypes DEF Types, SbTypes
  <2>6. InodeTypes' /\ exposed' \subseteq Files
    BY <1>2 DEF OpenTrunc, Types, InodeTypes
  <2> QED
    BY <1>1, <2>3, <2>5, <2>6 DEF Types
<1>3. CASE UnlinkSmall(f)
  BY <1>1, <1>3, DeleteSliceTypes, InodeCleared DEF UnlinkSmall, Types
<1>4. CASE UnlinkBig(f)
  <2> DEFINE entries == UsedEntries(words[ib], i_blocks[f] - 1)
             freed == Named(words[ib], i_blocks[f] - 1)
             n == 1 + Cardinality({i \in entries : words[ib][i] <= NrBlocks})
  <2>1. n \in Int
    <3>1. IsFiniteSet(Entry)
      BY FS_Interval, Geometry DEF Entry
    <3>2. {i \in entries : words[ib][i] <= NrBlocks} \subseteq Entry
      BY DEF UsedEntries
    <3>3. Cardinality({i \in entries : words[ib][i] <= NrBlocks}) \in Nat
      BY <3>1, <3>2, FS_Subset, FS_CardinalityType
    <3> HIDE DEF entries
    <3> QED
      BY <3>3
  <2>2. SbTypes'
    <3>1. PutBlocks({ib} \cup freed, n) /\ sliced' = sliced
      BY <1>4 DEF UnlinkBig
    <3> HIDE DEF n, freed
    <3> QED
      BY <2>1, <3>1, BitmapTypes DEF Types, SbTypes
  <2>3. InodeTypes'
    BY <1>4, InodeCleared DEF UnlinkBig, Types
  <2>4. PICK scrub : /\ words' = [b \in DOMAIN words |-> IF b \in scrub THEN NoWords ELSE words[b]]
                     /\ bytes' = [b \in DOMAIN bytes |-> IF b \in scrub THEN NoBytes ELSE bytes[b]]
                     /\ exposed' \subseteq exposed \cup {f}
    BY <1>4 DEF UnlinkBig
  <2>5. BlockTypes'
    BY <2>4, NoContent DEF Types, BlockTypes
  <2> QED
    BY <1>1, <2>2, <2>3, <2>4, <2>5 DEF Types
<1>5. CASE UnlinkBlind(f)
  <2>1. Cardinality(InRange({ib})) \in Int
    <3>1. IsFiniteSet({ib}) /\ InRange({ib}) \subseteq {ib}
      <4>1. IsFiniteSet({ib})
        BY FS_Singleton
      <4> QED
        BY <4>1 DEF InRange
    <3>2. IsFiniteSet(InRange({ib}))
      BY <3>1, FS_Subset
    <3>3. Cardinality(InRange({ib})) \in Nat
      BY <3>2, FS_CardinalityType
    <3> QED
      BY <3>3
  <2>2. SbTypes'
    <3>1. PutBlocks({ib}, Cardinality(InRange({ib}))) /\ sliced' = sliced
      BY <1>5 DEF UnlinkBlind
    <3> QED
      BY <2>1, <3>1, BitmapTypes DEF Types, SbTypes
  <2>3. InodeTypes' /\ BlockTypes' /\ exposed' \subseteq Files
    BY <1>5, InodeCleared DEF UnlinkBlind, blockvars, Types, BlockTypes
  <2> QED
    BY <1>1, <2>2, <2>3 DEF Types
<1> QED
  BY <1>2, <1>3, <1>4, <1>5

\* Calls that write and return, or enter the loop of write_big_file.
LEMMA WriteTypes ==
    ASSUME Types, NEW f \in Files, NEW ki_pos \in Offsets, NEW count \in Counts,
           NEW data, NEW append,
           \/ WriteSmall(f, ki_pos, count) \/ WriteSmallNoSpace(f, ki_pos, count)
           \/ BigNoIndex(f, ki_pos, count)
           \/ data \in Words /\ BigFirst(f, ki_pos, count, append, data)
           \/ data \in Words /\ BigAgain(f, ki_pos, count, append, data)
           \/ data \in Words /\ Convert(f, ki_pos, count, append, data)
    PROVE  Types'
<1>1. ki_pos \in Nat /\ count \in Nat
  BY InputAssumption
<1>2. /\ NewSize(f, ki_pos, count) \in Nat /\ StartsAt(f, ki_pos, append) \in Nat
      /\ NewSize(f, StartsAt(f, ki_pos, append), count) \in Nat
      /\ DivRoundUp(NewSize(f, ki_pos, count), SliceSize) \in Nat
  <2>1. /\ NewSize(f, ki_pos, count) \in Nat /\ StartsAt(f, ki_pos, append) \in Nat
        /\ DivRoundUp(NewSize(f, ki_pos, count), SliceSize) \in Nat
    BY <1>1, SizesAre
  <2> QED
    BY <1>1, <2>1, SizesAre
<1>3. pc = "idle" /\ exposed' = exposed
  BY DEF WriteSmall, WriteSmallNoSpace, BigNoIndex, BigFirst, BigAgain, Convert, Converts, MayCall
<1>4. CASE WriteSmall(f, ki_pos, count)
  <2> DEFINE size == NewSize(f, ki_pos, count)
             n == DivRoundUp(size, SliceSize)
  <2>1. PICK b \in Block, s \in Slice :
           /\ UNCHANGED <<bfree_bitmap, nr_free_blocks>> \/ GetFreeBlock(b)
           /\ sliced' = sliced \cup {b}
           /\ index_block' = [index_block EXCEPT ![f] = b * NrSlices + s]
           /\ bytes' = [bytes EXCEPT ![b] = Mark(@, s..(s + n - 1), f)]
    BY <1>4 DEF WriteSmall
  <2>2. /\ words' = words /\ linked' = linked /\ i_blocks' = i_blocks /\ pc' = pc /\ req' = req
        /\ num_slices' = [num_slices EXCEPT ![f] = n] /\ i_size' = [i_size EXCEPT ![f] = size]
    BY <1>4 DEF WriteSmall
  <2>3. SbTypes'
    BY <2>1, BitmapTypes DEF Types, SbTypes
  <2>4. BlockTypes'
    <3>1. b \in OnDisk /\ bytes[b] \in OwnersType /\ f \in Files \cup {NoFile}
      BY Geometry DEF Types, BlockTypes
    <3>2. Mark(bytes[b], s..(s + n - 1), f) \in OwnersType
      BY <3>1, MarkType DEF OwnersType
    <3> QED
      BY <2>1, <2>2, <3>1, <3>2 DEF Types, BlockTypes
  <2>5. InodeTypes'
    <3>1. b * NrSlices + s \in Nat
      BY Geometry
    <3> HIDE DEF n, size
    <3>2. n \in Nat /\ size \in Nat
      BY <1>2 DEF n, size
    <3> QED
      BY <2>1, <2>2, <3>1, <3>2 DEF Types, InodeTypes
  <2>6. LoopTypes'
    BY <1>3, <2>2 DEF Types, LoopTypes
  <2> QED
    BY <1>3, <2>3, <2>4, <2>5, <2>6 DEF Types
<1>5. CASE WriteSmallNoSpace(f, ki_pos, count) \/ BigNoIndex(f, ki_pos, count)
  <2>1. /\ UNCHANGED <<sliced, blockvars, inodevars, pc, req>>
        /\ \/ bfree_bitmap' = bfree_bitmap \cup {0} /\ nr_free_blocks' = nr_free_blocks + 1
           \/ GetNoBlock
    BY <1>5 DEF WriteSmallNoSpace, BigNoIndex
  <2>2. SbTypes'
    BY <2>1, BitmapTypes DEF Types, SbTypes
  <2>3. BlockTypes' /\ InodeTypes'
    BY <2>1 DEF blockvars, inodevars, Types, BlockTypes, InodeTypes
  <2>4. LoopTypes'
    BY <1>3, <2>1 DEF Types, LoopTypes
  <2> QED
    BY <1>3, <2>2, <2>3, <2>4 DEF Types
<1>6. CASE data \in Words /\ BigFirst(f, ki_pos, count, append, data)
  <2>1. PICK b \in Block : GetFreeBlock(b) /\ index_block' = [index_block EXCEPT ![f] = b]
    BY <1>6 DEF BigFirst
  <2>2. SbTypes'
    BY <1>6, <2>1, BitmapTypes DEF BigFirst, Types, SbTypes
  <2>3. BlockTypes' /\ InodeTypes'
    BY <1>6, <2>1, Geometry DEF BigFirst, blockvars, Types, BlockTypes, InodeTypes
  <2>4. LoopTypes'
    <3>1. CASE UNCHANGED <<pc, req>>
      BY <1>3, <3>1 DEF Types, LoopTypes
    <3>2. CASE StartLoop(f, StartsAt(f, ki_pos, append), count, data, FALSE)
      <4>1. index_block'[f] \in OnDisk
        BY <2>1, Geometry DEF Types, InodeTypes
      <4> QED
        BY <1>1, <1>2, <1>6, <3>2, <4>1, Started
    <3> QED
      BY <1>6, <3>1, <3>2 DEF BigFirst
  <2> QED
    BY <1>3, <2>2, <2>3, <2>4 DEF Types
<1>7. CASE data \in Words /\ BigAgain(f, ki_pos, count, append, data)
  <2>1. SbTypes' /\ BlockTypes' /\ InodeTypes'
    BY <1>7 DEF BigAgain, sbvars, blockvars, inodevars, Types, SbTypes, BlockTypes, InodeTypes
  <2>2. index_block'[f] \in OnDisk
    BY <1>7, Geometry DEF BigAgain, inodevars, Readable, OnDisk, Types, InodeTypes
  <2>3. StartLoop(f, StartsAt(f, ki_pos, append), count, data, FALSE)
    BY <1>7 DEF BigAgain
  <2>4. LoopTypes'
    BY <1>1, <1>2, <1>7, <2>2, <2>3, Started
  <2> QED
    BY <1>3, <2>1, <2>4 DEF Types
<1>8. CASE data \in Words /\ Convert(f, ki_pos, count, append, data)
  <2>1. SbTypes' /\ BlockTypes' /\ InodeTypes'
    BY <1>8 DEF Convert, sbvars, blockvars, Types, SbTypes, BlockTypes, InodeTypes
  <2>2. index_block'[f] \in OnDisk
    BY <1>8, Geometry DEF Convert, Readable, OnDisk, Types, InodeTypes
  <2>3. StartLoop(f, 0, NewSize(f, StartsAt(f, ki_pos, append), count), data, TRUE)
    BY <1>8 DEF Convert
  <2>4. LoopTypes'
    BY <1>2, <1>8, <2>2, <2>3, Started
  <2> QED
    BY <1>3, <2>1, <2>4 DEF Types
<1> QED
  BY <1>4, <1>5, <1>6, <1>7, <1>8

\* The step of the loop that handles one block.
LEMMA LoopIs ==
    ASSUME Types, InLoop
    PROVE  /\ req \in Req /\ index_block[req.f] \in OnDisk /\ Idx \in Entry
           /\ InBlock \in 1..BlockSize /\ ToWrite \in 1..req.count
           /\ IndexWords \in IndexWordsType /\ req.f \in Files
<1>1. req \in Req /\ index_block[req.f] \in OnDisk /\ req.f \in Files
  BY DEF Types, LoopTypes, InLoop, Req
<1>2. req.pos \in Nat /\ req.count \in Nat /\ req.count > 0
  BY <1>1 DEF Req, InLoop
<1>3. Idx \in Nat /\ req.pos % BlockSize \in 0..(BlockSize - 1)
  BY <1>2, DivIs, Geometry DEF Idx
<1>4. Idx \in Entry
  BY <1>3, Geometry DEF Entry, InLoop
<1>5. InBlock \in 1..BlockSize
  <2> DEFINE r == req.pos % BlockSize
  <2>1. r \in 0..(BlockSize - 1) /\ InBlock = BlockSize - r
    BY <1>3 DEF InBlock
  <2> HIDE DEF r
  <2> QED
    BY <2>1, Geometry
<1>6. ToWrite \in 1..req.count
  BY <1>2, <1>5 DEF ToWrite
<1> QED
  BY <1>1, <1>4, <1>5, <1>6 DEF IndexWords, Types, BlockTypes

LEMMA StoreTypes ==
    ASSUME Types, InLoop, NEW b \in Nat
    PROVE  /\ StoreEntry(b) \in [OnDisk -> IndexWordsType]
           /\ StoreEntry(b)[index_block[req.f]] = [IndexWords EXCEPT ![Idx] = b]
           /\ \A x \in OnDisk \ {index_block[req.f]} : StoreEntry(b)[x] = words[x]
<1>1. index_block[req.f] \in OnDisk /\ Idx \in Entry /\ IndexWords \in IndexWordsType
  BY LoopIs
<1>2. StoreEntry(b) = [words EXCEPT ![index_block[req.f]] = [IndexWords EXCEPT ![Idx] = b]]
  BY DEF StoreEntry, IndexWords
<1>3. [IndexWords EXCEPT ![Idx] = b] \in IndexWordsType
  BY <1>1 DEF IndexWordsType
<1> QED
  BY <1>1, <1>2, <1>3 DEF Types, BlockTypes

LEMMA WriteIntoTypes ==
    ASSUME Types, InLoop, NEW b \in Block, NEW n, WriteInto(b, n)
    PROVE  /\ BlockTypes'
           /\ \A x \in OnDisk \ {b} : words'[x] = StoreEntry(b)[x] /\ bytes'[x] = bytes[x]
           /\ \A k \in Entry :
                \/ words'[b][k] = StoreEntry(b)[b][k] /\ bytes'[b][k] = bytes[b][k]
                \/ words'[b][k] = 0 /\ bytes'[b][k] = NoFile
                \/ words'[b][k] # 0 /\ bytes'[b][k] = req.f
<1> DEFINE g == IF req.data = 0 THEN NoFile ELSE req.f
           W == Overlay(StoreEntry(b)[b], n, 0, req.data)
           B == Overlay(bytes[b], n, NoFile, g)
<1>1. b \in OnDisk /\ b \in Nat
  BY Geometry
<1>2. StoreEntry(b) \in [OnDisk -> IndexWordsType] /\ bytes \in [OnDisk -> OwnersType]
  BY <1>1, StoreTypes DEF Types, BlockTypes
<1>3. words' = [StoreEntry(b) EXCEPT ![b] = W] /\ bytes' = [bytes EXCEPT ![b] = B]
  BY DEF WriteInto
<1>4. g \in {NoFile, req.f} /\ g \in Files \cup {NoFile} /\ req.data \in Nat
  <2>1. req.f \in Files /\ req.data \in Words
    <3>1. req \in Req
      BY LoopIs
    <3> QED
      BY <3>1 DEF Req
  <2>2. req.data \in Nat
    <3>1. Words \subseteq Nat
      BY InputAssumption
    <3> QED
      BY <2>1, <3>1, Zenon
  <2> QED
    BY <2>1, <2>2
<1>5. W \in IndexWordsType
  <2>1. StoreEntry(b)[b] \in [Entry -> Nat]
    BY <1>1, <1>2 DEF IndexWordsType
  <2> QED
    BY <1>4, <2>1, OverlayType DEF IndexWordsType
<1>6. B \in OwnersType
  <2>1. bytes[b] \in [Entry -> Files \cup {NoFile}]
    BY <1>1, <1>2 DEF OwnersType
  <2> HIDE DEF g
  <2> QED
    BY <1>4, <2>1, OverlayType DEF OwnersType
<1>7. \A k \in Entry : \/ W[k] = StoreEntry(b)[b][k] /\ B[k] = bytes[b][k]
                       \/ W[k] = 0 /\ B[k] = NoFile
                       \/ W[k] = req.data /\ B[k] = g
  <2> HIDE DEF g
  <2>1. PICK o, w : o = bytes[b] /\ w = StoreEntry(b)[b]
    OBVIOUS
  <2>2. \A k \in Entry :
          \/ Overlay(w, n, 0, req.data)[k] = w[k] /\ Overlay(o, n, NoFile, g)[k] = o[k]
          \/ Overlay(w, n, 0, req.data)[k] = 0 /\ Overlay(o, n, NoFile, g)[k] = NoFile
          \/ Overlay(w, n, 0, req.data)[k] = req.data /\ Overlay(o, n, NoFile, g)[k] = g
    BY DEF Overlay
  <2> QED
    BY <2>1, <2>2
<1>8. (req.data = 0 /\ g = NoFile) \/ (req.data # 0 /\ g = req.f)
  OBVIOUS
<1> HIDE DEF g, W, B
<1>9. /\ BlockTypes' /\ words'[b] = W /\ bytes'[b] = B
      /\ \A x \in OnDisk \ {b} : words'[x] = StoreEntry(b)[x] /\ bytes'[x] = bytes[x]
  BY <1>1, <1>2, <1>3, <1>5, <1>6 DEF BlockTypes
<1> QED
  BY <1>7, <1>8, <1>9

LEMMA Bailed ==
    ASSUME Types, pc = "loop", FailBig
    PROVE  /\ InodeTypes' /\ LoopTypes' /\ exposed' = exposed /\ sliced' = sliced
           /\ linked' = linked /\ index_block' = index_block /\ num_slices' = num_slices
           /\ i_blocks' = i_blocks
<1>1. req \in Req /\ req.f \in Files /\ req.old_size \in Nat
  BY DEF Types, LoopTypes, Req
<1> QED
  BY <1>1 DEF FailBig, Return, Types, InodeTypes, LoopTypes

LEMMA StepTypes ==
    ASSUME Types, HandlerStep
    PROVE  Types'
<1>1. CASE LoopCopy
  <2>1. PICK b \in Block : PhysicalBlock(b) /\ WriteInto(b, ToWrite)
    BY <1>1 DEF LoopCopy, Block
  <2>2. BlockTypes'
    BY <1>1, <2>1, WriteIntoTypes DEF LoopCopy
  <2>3. SbTypes'
    BY <1>1, <2>1, BitmapTypes DEF LoopCopy, PhysicalBlock, Types, SbTypes
  <2>4. InodeTypes' /\ exposed' = exposed
    BY <1>1 DEF LoopCopy, inodevars, Types, InodeTypes
  <2>5. LoopTypes'
    <3>1. /\ req' = [req EXCEPT !.pos = @ + ToWrite, !.count = @ - ToWrite] /\ pc' = pc
          /\ index_block' = index_block
      BY <1>1 DEF LoopCopy, inodevars
    <3>2. req \in Req /\ index_block[req.f] \in OnDisk /\ ToWrite \in 1..req.count
      BY <1>1, LoopIs DEF LoopCopy
    <3>3. req.pos + ToWrite \in Nat /\ req.count - ToWrite \in Nat
      BY <3>2 DEF Req
    <3>4. req' \in Req /\ req'.f = req.f
      BY <3>1, <3>2, <3>3 DEF Req
    <3> QED
      BY <1>1, <3>1, <3>2, <3>4 DEF LoopTypes, LoopCopy, InLoop
  <2> QED
    BY <2>2, <2>3, <2>4, <2>5 DEF Types
<1>2. CASE LoopNoSpace
  <2>1. InodeTypes' /\ LoopTypes' /\ exposed' = exposed /\ sliced' = sliced
    BY <1>2, Bailed DEF LoopNoSpace, InLoop
  <2>2. SbTypes'
    BY <1>2, <2>1, BitmapTypes DEF LoopNoSpace, Types, SbTypes
  <2> QED
    BY <1>2, <2>1, <2>2 DEF LoopNoSpace, blockvars, Types, BlockTypes
<1>3. CASE LoopTooBig
  <2>1. InodeTypes' /\ LoopTypes' /\ exposed' = exposed /\ sliced' = sliced
    BY <1>3, Bailed DEF LoopTooBig
  <2> QED
    BY <1>3, <2>1 DEF LoopTooBig, blockvars, Types, BlockTypes, SbTypes
<1>4. CASE LoopReadError
  <2>1. PICK b \in Block \cup Words : PhysicalBlock(b) /\ words' = StoreEntry(b)
    BY <1>4 DEF LoopReadError
  <2>2. InodeTypes' /\ LoopTypes' /\ exposed' = exposed /\ sliced' = sliced
    BY <1>4, Bailed DEF LoopReadError, InLoop
  <2>3. SbTypes'
    BY <2>1, <2>2, BitmapTypes DEF PhysicalBlock, Types, SbTypes
  <2>4. BlockTypes'
    <3>1. b \in Nat
      BY Geometry, InputAssumption
    <3> QED
      BY <1>4, <2>1, <3>1, StoreTypes DEF LoopReadError, Types, BlockTypes
  <2> QED
    BY <2>2, <2>3, <2>4 DEF Types
<1>5. CASE LoopFault
  <2>1. PICK b \in Block, n \in 0..(ToWrite - 1) : PhysicalBlock(b) /\ WriteInto(b, n)
    BY <1>5 DEF LoopFault
  <2>2. InodeTypes' /\ LoopTypes' /\ exposed' = exposed /\ sliced' = sliced
    BY <1>5, Bailed DEF LoopFault, InLoop
  <2>3. SbTypes'
    BY <2>1, <2>2, BitmapTypes DEF PhysicalBlock, Types, SbTypes
  <2>4. BlockTypes'
    BY <1>5, <2>1, WriteIntoTypes DEF LoopFault
  <2> QED
    BY <2>2, <2>3, <2>4 DEF Types
<1>6. CASE LoopDone
  <2> DEFINE size == MaxOf(req.pos, i_size[req.f])
  <2>1. req \in Req /\ req.f \in Files
    BY <1>6 DEF LoopDone, Types, LoopTypes, Req
  <2>2. size \in Nat /\ BlocksFor(size) \in Nat
    <3>1. size \in Nat
      BY <2>1 DEF MaxOf, Req, Types, InodeTypes
    <3>2. DivRoundUp(size, BlockSize) \in Nat
      BY <3>1, RoundUpType, Geometry
    <3> QED
      BY <3>1, <3>2 DEF BlocksFor
  <2>3. /\ i_size' = [i_size EXCEPT ![req.f] = size]
        /\ i_blocks' = [i_blocks EXCEPT ![req.f] = BlocksFor(size)]
        /\ UNCHANGED <<linked, index_block, num_slices, exposed>>
        /\ pc' = "idle" /\ req' = NoReq
        /\ DeleteSlice(req.f) \/ UNCHANGED <<sbvars, blockvars>>
    BY <1>6 DEF LoopDone, Return
  <2> HIDE DEF size
  <2>4. InodeTypes' /\ LoopTypes'
    BY <2>2, <2>3 DEF Types, InodeTypes, LoopTypes
  <2>5. SbTypes' /\ BlockTypes'
    <3>1. CASE DeleteSlice(req.f)
      BY <2>1, <3>1, DeleteSliceTypes
    <3>2. CASE UNCHANGED <<sbvars, blockvars>>
      BY <3>2 DEF sbvars, blockvars, Types, SbTypes, BlockTypes
    <3> QED
      BY <2>3, <3>1, <3>2
  <2> QED
    BY <2>3, <2>4, <2>5 DEF Types
<1> QED
  BY <1>1, <1>2, <1>3, <1>4, <1>5, <1>6 DEF HandlerStep

LEMMA TypesNext == Types /\ [Next]_vars => Types'
<1> SUFFICES ASSUME Types, [Next]_vars PROVE Types'
  OBVIOUS
<1>1. CASE UNCHANGED vars
  BY <1>1 DEF vars, sbvars, blockvars, inodevars, Types, SbTypes, BlockTypes, InodeTypes, LoopTypes
<1>2. CASE HandlerStep
  BY <1>2, StepTypes
<1>3. CASE Call
  <2>1. CASE \E f \in Files : \/ Create(f) \/ OpenTrunc(f) \/ OpenTruncError(f)
                              \/ UnlinkSmall(f) \/ UnlinkBig(f) \/ UnlinkBlind(f)
    BY <2>1, CallTypes, FreeTypes
  <2>2. CASE \E f \in Files, ki_pos \in Offsets, count \in Counts :
               \/ ConvertRefused(f, ki_pos, count)
               \/ \E append \in Appends : BigRefused(f, ki_pos, count, append)
    BY <1>1, <2>2 DEF ConvertRefused, BigRefused
  <2>3. CASE \E f \in Files, ki_pos \in Offsets, count \in Counts :
               \/ WriteSmall(f, ki_pos, count) \/ WriteSmallNoSpace(f, ki_pos, count)
               \/ BigNoIndex(f, ki_pos, count)
    BY <2>3, WriteTypes
  <2>4. CASE \E f \in Files, ki_pos \in Offsets, count \in Counts, append \in Appends, data \in Words :
               \/ BigFirst(f, ki_pos, count, append, data)
               \/ BigAgain(f, ki_pos, count, append, data) \/ Convert(f, ki_pos, count, append, data)
    BY <2>4, WriteTypes
  <2> QED
    BY <1>3, <2>1, <2>2, <2>3, <2>4 DEF Call
<1> QED
  BY <1>1, <1>2, <1>3 DEF Next
-----------------------------------------------------------------------------
(* Who owns a block *)

\* The files with an index block of their own, and those blocks.
Indexed == {f \in linked : index_block[f] # 0 /\ num_slices[f] = 0}
IndexSet == {index_block[f] : f \in Indexed}

\* The index blocks and the free blocks, of which the next index block is one.
Roots(F, X) == (F \cap Data) \cup X

\* The words of a block that are no user data: what is left of an index.
names == [b \in OnDisk |-> [i \in Entry |-> IF bytes[b][i] = NoFile THEN words[b][i] ELSE 0]]

\* The blocks whose words count: any but a sliced block, which delete_slice
\* scrubs, may become an index block as it is.
Unsliced(S) == Data \ S

(* With free blocks F, sliced blocks S and index blocks X: the three are    *)
(* apart, the names in unsliced blocks name blocks that are in none of      *)
(* them, and no block is named twice.                                       *)
Apart(F, S, X) ==
    F \subseteq {0} \cup Data /\ S \subseteq Data \ F /\ X \subseteq Data \ (F \cup S)
NamesOthers(W, F, S, X) ==
    \A x \in Unsliced(S), i \in Entry : W[x][i] # 0 => W[x][i] \in Data \ (F \cup S \cup X)
NamesOnce(W, S) ==
    \A x, y \in Unsliced(S), i, j \in Entry : W[x][i] # 0 /\ W[x][i] = W[y][j] => x = y /\ i = j
Owned(W, F, S, X) == Apart(F, S, X) /\ NamesOthers(W, F, S, X) /\ NamesOnce(W, S)

\* What the fields of an inode say together.
Consistent(f) ==
    /\ index_block[f] = 0 => num_slices[f] = 0 /\ i_blocks[f] = 0
    /\ i_blocks[f] # 0 => num_slices[f] = 0
    /\ num_slices[f] # 0 => GetBno(f) \in sliced /\ GetSlice(f) \in Slice

OwnedNow == Owned(names, bfree_bitmap, sliced, IndexSet)
OneIndexEach == \A f, g \in Indexed : index_block[f] = index_block[g] => f = g
AllConsistent == \A f \in linked : Consistent(f)
LoopIndexed == pc = "loop" => req.f \in Indexed

\* User data in an index block names no block, and no zero is user data.
IndexSane == \A x \in IndexSet, i \in Entry : words[x][i] # names[x][i] => words[x][i] > NrBlocks
ZeroIsNobodys == \A x \in Unsliced(sliced), i \in Entry : words[x][i] = 0 => bytes[x][i] = NoFile
Sane == IndexSane /\ ZeroIsNobodys

OwnInv == OwnedNow /\ OneIndexEach /\ AllConsistent /\ LoopIndexed /\ Sane

\* convert_small_to_big on a file that has slices: its packed number becomes
\* the number of an index block.
Repack ==
    \E f \in Files, ki_pos \in Offsets, count \in Counts, append \in Appends, data \in Words :
      num_slices[f] # 0 /\ Convert(f, ki_pos, count, append, data)

\* A first write takes a block for its index that still holds a truncated
\* file's data, and a word of it reads as a block of the partition.
StaleIndex ==
    \E f \in Files, ki_pos \in Offsets, count \in Counts, append \in Appends, data \in Words :
      /\ BigFirst(f, ki_pos, count, append, data)
      /\ \E i \in Entry : /\ bytes[index_block'[f]][i] # NoFile
                          /\ words[index_block'[f]][i] <= NrBlocks

\* What a block may hold when nobody's data is in it.
Nobodys(b) == \A i \in Entry : bytes[b][i] \in {NoFile} \cup exposed
Holds(f, b) == \A i \in Entry : bytes[b][i] \in {f, NoFile} \cup exposed

LEMMA NamesAre ==
    ASSUME NEW x \in OnDisk, NEW i \in Entry
    PROVE  /\ names[x][i] = IF bytes[x][i] = NoFile THEN words[x][i] ELSE 0
           /\ names'[x][i] = IF bytes'[x][i] = NoFile THEN words'[x][i] ELSE 0
BY DEF names

LEMMA UnslicedIs == \A S : Unsliced(S) \subseteq OnDisk /\ Unsliced(S) \subseteq Data
BY Geometry DEF Unsliced

\* No name counts that did not count before, and none names a block that is
\* free, sliced or an index block now.
Fewer(W, S, W2, F2, S2, X2) ==
    \A x \in Unsliced(S2), i \in Entry :
      W2[x][i] # 0 => /\ x \in Unsliced(S) /\ W2[x][i] = W[x][i]
                      /\ W2[x][i] \notin F2 \cup S2 \cup X2

LEMMA OwnedLess ==
    ASSUME NEW W, NEW F, NEW S, NEW X, Owned(W, F, S, X),
           NEW W2, NEW F2, NEW S2, NEW X2, Apart(F2, S2, X2), Fewer(W, S, W2, F2, S2, X2)
    PROVE  Owned(W2, F2, S2, X2)
<1>1. NamesOthers(W2, F2, S2, X2)
  <2> SUFFICES ASSUME NEW x \in Unsliced(S2), NEW i \in Entry, W2[x][i] # 0
               PROVE  W2[x][i] \in Data \ (F2 \cup S2 \cup X2)
    BY DEF NamesOthers
  <2>1. x \in Unsliced(S) /\ W2[x][i] = W[x][i] /\ W2[x][i] \notin F2 \cup S2 \cup X2
    BY DEF Fewer
  <2>2. W[x][i] \in Data
    BY <2>1 DEF Owned, NamesOthers
  <2> QED
    BY <2>1, <2>2
<1>2. NamesOnce(W2, S2)
  <2> SUFFICES ASSUME NEW x \in Unsliced(S2), NEW y \in Unsliced(S2), NEW i \in Entry, NEW j \in Entry,
                      W2[x][i] # 0, W2[x][i] = W2[y][j]
               PROVE  x = y /\ i = j
    BY DEF NamesOnce
  <2>1. x \in Unsliced(S) /\ W2[x][i] = W[x][i]
    BY DEF Fewer
  <2>2. y \in Unsliced(S) /\ W2[y][j] = W[y][j]
    <3>1. W2[y][j] # 0
      OBVIOUS
    <3> QED
      BY <3>1 DEF Fewer
  <2>3. W[x][i] # 0 /\ W[x][i] = W[y][j]
    BY <2>1, <2>2
  <2>4. NamesOnce(W, S)
    BY DEF Owned
  <2> QED
    BY <2>1, <2>2, <2>3, <2>4 DEF NamesOnce
<1> QED
  BY <1>1, <1>2 DEF Owned

\* A free block is entered at entry i of index block x; elsewhere names go.
EnteredAt(W, S, W2, x, i, b) ==
    /\ W2[x][i] = b
    /\ \A y \in Unsliced(S), j \in Entry : (y = x /\ j = i) \/ W2[y][j] \in {W[y][j], 0}

LEMMA OwnedMore ==
    ASSUME NEW W, NEW F, NEW S, NEW X, Owned(W, F, S, X), NEW x \in X, NEW i \in Entry,
           NEW b \in F \cap Data, NEW W2, EnteredAt(W, S, W2, x, i, b)
    PROVE  Owned(W2, F \ {b}, S, X)
<1>1. Apart(F \ {b}, S, X) /\ b \notin S \cup X
  BY DEF Owned, Apart
<1>2. \A y \in Unsliced(S), j \in Entry :
        W2[y][j] # 0 => \/ y = x /\ j = i /\ W2[y][j] = b
                        \/ ~(y = x /\ j = i) /\ W2[y][j] = W[y][j] /\ W[y][j] # 0
  BY DEF EnteredAt
<1>3. \A y \in Unsliced(S), j \in Entry : W[y][j] # 0 => W[y][j] \in Data \ (F \cup S \cup X)
  BY DEF Owned, NamesOthers
<1>4. NamesOthers(W2, F \ {b}, S, X)
  <2> SUFFICES ASSUME NEW y \in Unsliced(S), NEW j \in Entry, W2[y][j] # 0
               PROVE  W2[y][j] \in Data \ ((F \ {b}) \cup S \cup X)
    BY DEF NamesOthers
  <2>1. CASE W2[y][j] = b
    BY <1>1, <2>1
  <2>2. CASE W2[y][j] = W[y][j] /\ W[y][j] # 0
    <3>1. W[y][j] \in Data \ (F \cup S \cup X)
      BY <1>3, <2>2, Zenon
    <3> QED
      BY <2>2, <3>1
  <2> QED
    BY <1>2, <2>1, <2>2
<1>5. NamesOnce(W2, S)
  <2> SUFFICES ASSUME NEW y \in Unsliced(S), NEW z \in Unsliced(S),
                      NEW j \in Entry, NEW k \in Entry, W2[y][j] # 0, W2[y][j] = W2[z][k]
               PROVE  y = z /\ j = k
    BY DEF NamesOnce
  <2>0. W2[z][k] # 0
    OBVIOUS
  <2>1. CASE y = x /\ j = i /\ W2[y][j] = b
    <3>1. CASE ~(z = x /\ k = i)
      <4>1. W[z][k] = b /\ W[z][k] # 0
        BY <1>2, <2>0, <2>1, <3>1
      <4>2. b \in Data \ (F \cup S \cup X)
        BY <1>3, <4>1, Zenon
      <4> QED
        BY <4>2
    <3> QED
      BY <2>1, <3>1
  <2>2. CASE W2[y][j] = W[y][j] /\ W[y][j] # 0
    <3>1. W[y][j] \notin F
      BY <1>3, <2>2
    <3>2. W2[z][k] = W[z][k]
      BY <1>2, <2>0, <2>2, <3>1
    <3>3. W[y][j] # 0 /\ W[y][j] = W[z][k]
      BY <2>2, <3>2
    <3>4. NamesOnce(W, S)
      BY DEF Owned
    <3> QED
      BY <3>3, <3>4 DEF NamesOnce
  <2> QED
    BY <1>2, <2>1, <2>2
<1> QED
  BY <1>1, <1>4, <1>5 DEF Owned

\* A cell that stays, or becomes nobody's.
LEMMA SaneStays ==
    ASSUME OwnInv, OwnedNow',
           \A x \in Unsliced(sliced'), i \in Entry :
             \/ bytes'[x][i] = NoFile
             \/ x \notin sliced /\ words'[x][i] = words[x][i] /\ bytes'[x][i] = bytes[x][i],
           \A x \in IndexSet' :
             x \in IndexSet \/ \A i \in Entry : bytes'[x][i] # NoFile => words'[x][i] > NrBlocks
    PROVE  Sane'
<1>1. ZeroIsNobodys'
  <2> SUFFICES ASSUME NEW x \in Unsliced(sliced'), NEW i \in Entry, words'[x][i] = 0
               PROVE  bytes'[x][i] = NoFile
    BY DEF ZeroIsNobodys
  <2>1. CASE x \notin sliced /\ words'[x][i] = words[x][i] /\ bytes'[x][i] = bytes[x][i]
    BY <2>1 DEF OwnInv, Sane, ZeroIsNobodys, Unsliced
  <2> QED
    BY <2>1
<1>2. IndexSane'
  <2> SUFFICES ASSUME NEW x \in IndexSet', NEW i \in Entry, words'[x][i] # names'[x][i]
               PROVE  words'[x][i] > NrBlocks
    BY DEF IndexSane
  <2>1. x \in Unsliced(sliced') /\ x \in OnDisk
    BY UnslicedIs DEF OwnedNow, Owned, Apart, Unsliced
  <2>2. bytes'[x][i] # NoFile
    BY <2>1, NamesAre
  <2>3. CASE x \in IndexSet
    <3>1. words'[x][i] = words[x][i] /\ bytes'[x][i] = bytes[x][i]
      BY <2>1, <2>2
    <3>2. words[x][i] # names[x][i]
      BY <2>1, <3>1, NamesAre
    <3> QED
      BY <2>3, <3>1, <3>2 DEF OwnInv, Sane, IndexSane
  <2> QED
    BY <2>2, <2>3
<1> QED
  BY <1>1, <1>2 DEF Sane

LEMMA Times ==
    ASSUME NEW a \in Nat, NEW b \in Nat, NEW m \in Nat, a <= b
    PROVE  a * m <= b * m
OBVIOUS

LEMMA Splits ==
    ASSUME NEW a \in Nat, NEW b \in Nat \ {0}
    PROVE  a = b * (a \div b) + (a % b)
OBVIOUS

\* OUICHEFS_SMALL_FILE_GET_BNO and OUICHEFS_SMALL_FILE_GET_SLICE undo the packing.
LEMMA Unpack ==
    ASSUME NEW b \in Nat, NEW m \in Nat \ {0}, NEW s \in 0..(m - 1)
    PROVE  (b * m + s) \div m = b /\ (b * m + s) % m = s
<1> DEFINE a == b * m + s
           q == a \div m
<1>1. a \in Nat
  OBVIOUS
<1>2. q \in Nat /\ m * q <= a /\ a < m * q + m
  BY <1>1, DivIs
<1>3. CASE q < b
  <2>1. (q + 1) * m <= b * m
    BY <1>2, <1>3, Times
  <2>2. (q + 1) * m = m * q + m
    BY <1>2
  <2> HIDE DEF q
  <2> QED
    BY <1>2, <2>1, <2>2
<1>4. CASE b < q
  <2>1. (b + 1) * m <= q * m
    BY <1>2, <1>4, Times
  <2>2. (b + 1) * m = b * m + m /\ q * m = m * q
    BY <1>2
  <2> HIDE DEF q
  <2> QED
    BY <1>2, <2>1, <2>2
<1>5. q = b
  BY <1>2, <1>3, <1>4
<1>6. a % m = s
  <2> DEFINE r == a % m
  <2>1. a = m * b + r /\ r \in 0..(m - 1)
    BY <1>1, <1>5, Splits, DivIs
  <2> HIDE DEF r
  <2> QED
    BY <2>1 DEF r
<1> QED
  BY <1>5, <1>6

LEMMA RootsOnDisk ==
    ASSUME OwnedNow
    PROVE  /\ Roots(bfree_bitmap, IndexSet) \subseteq OnDisk /\ IndexSet \subseteq Roots(bfree_bitmap, IndexSet)
           /\ bfree_bitmap \cap Data \subseteq Roots(bfree_bitmap, IndexSet)
           /\ Roots(bfree_bitmap, IndexSet) \subseteq Unsliced(sliced)
BY Geometry DEF OwnedNow, Owned, Apart, Roots, Unsliced

LEMMA SameIndexes ==
    ASSUME UNCHANGED <<linked, index_block, num_slices>>
    PROVE  Indexed' = Indexed /\ IndexSet' = IndexSet /\ (OneIndexEach => OneIndexEach')
<1>1. Indexed' = Indexed
  BY DEF Indexed
<1> QED
  BY <1>1 DEF IndexSet, OneIndexEach

LEMMA KeepsIndexes ==
    ASSUME Indexed' = Indexed, \A g \in Indexed : index_block'[g] = index_block[g]
    PROVE  IndexSet' = IndexSet /\ (OneIndexEach => OneIndexEach')
BY DEF IndexSet, OneIndexEach

LEMMA StaysConsistent ==
    ASSUME NEW g, Consistent(g), index_block'[g] = index_block[g], num_slices'[g] = num_slices[g],
           i_blocks'[g] = i_blocks[g], sliced \subseteq sliced'
    PROVE  Consistent(g)'
BY DEF Consistent, GetBno, GetSlice

\* Words and bytes that stay keep their names.
KeepsCells == \A x \in Unsliced(sliced') : words'[x] = words[x] /\ bytes'[x] = bytes[x]

\* Steps that move no block between free, sliced and index but may drop free
\* bit 0, or set it.
LEMMA OwnedSame ==
    ASSUME OwnInv, KeepsCells, IndexSet' = IndexSet, sliced' = sliced,
           \/ bfree_bitmap' = bfree_bitmap \/ bfree_bitmap' = bfree_bitmap \ {0}
           \/ bfree_bitmap' = bfree_bitmap \cup {0}
    PROVE  OwnedNow' /\ Sane'
<1>1. PICK F2, W2 : F2 = bfree_bitmap' /\ W2 = names'
  OBVIOUS
<1>2. Apart(F2, sliced, IndexSet)
  BY <1>1, Geometry DEF OwnInv, OwnedNow, Owned, Apart
<1>3. Fewer(names, sliced, W2, F2, sliced, IndexSet)
  <2> SUFFICES ASSUME NEW x \in Unsliced(sliced), NEW i \in Entry, W2[x][i] # 0
               PROVE  W2[x][i] = names[x][i] /\ W2[x][i] \notin F2 \cup sliced \cup IndexSet
    BY DEF Fewer
  <2>1. W2[x][i] = names[x][i]
    BY <1>1, NamesAre, UnslicedIs DEF KeepsCells
  <2>2. names[x][i] \in Data \ (bfree_bitmap \cup sliced \cup IndexSet)
    BY <2>1 DEF OwnInv, OwnedNow, Owned, NamesOthers
  <2> QED
    BY <1>1, <2>1, <2>2, Geometry
<1>4. Owned(W2, F2, sliced, IndexSet)
  BY <1>2, <1>3, OwnedLess DEF OwnInv, OwnedNow
<1>5. OwnedNow'
  BY <1>1, <1>4 DEF OwnedNow
<1>6. Sane'
  BY <1>5, SaneStays DEF KeepsCells, Unsliced
<1> QED
  BY <1>5, <1>6

\* Steps that give a free block to a sliced block or to an index.
LEMMA OwnedMoved ==
    ASSUME OwnInv, NEW b \in bfree_bitmap \cap Data, KeepsCells,
           bfree_bitmap' = bfree_bitmap \ {b},
           \/ sliced' = sliced \cup {b} /\ IndexSet' = IndexSet
           \/ /\ sliced' = sliced /\ IndexSet' = IndexSet \cup {b}
              /\ \A i \in Entry : bytes[b][i] # NoFile => words[b][i] > NrBlocks
    PROVE  OwnedNow' /\ Sane'
<1>1. PICK F2, S2, X2, W2 : F2 = bfree_bitmap' /\ S2 = sliced' /\ X2 = IndexSet' /\ W2 = names'
  OBVIOUS
<1>2. Apart(bfree_bitmap, sliced, IndexSet)
  BY DEF OwnInv, OwnedNow, Owned
<1>3. Apart(F2, S2, X2) /\ Unsliced(S2) \subseteq Unsliced(sliced)
  BY <1>1, <1>2 DEF Apart, Unsliced
<1>4. Fewer(names, sliced, W2, F2, S2, X2)
  <2> SUFFICES ASSUME NEW x \in Unsliced(S2), NEW i \in Entry, W2[x][i] # 0
               PROVE  /\ x \in Unsliced(sliced) /\ W2[x][i] = names[x][i]
                      /\ W2[x][i] \notin F2 \cup S2 \cup X2
    BY DEF Fewer
  <2>1. W2[x][i] = names[x][i] /\ x \in Unsliced(sliced)
    BY <1>1, <1>3, NamesAre, UnslicedIs DEF KeepsCells
  <2>2. names[x][i] \in Data \ (bfree_bitmap \cup sliced \cup IndexSet)
    BY <2>1 DEF OwnInv, OwnedNow, Owned, NamesOthers
  <2> QED
    BY <1>1, <2>1, <2>2
<1>5. Owned(W2, F2, S2, X2)
  BY <1>3, <1>4, OwnedLess DEF OwnInv, OwnedNow
<1>6. OwnedNow'
  BY <1>1, <1>5 DEF OwnedNow
<1>7. \A x \in IndexSet' :
        x \in IndexSet \/ \A i \in Entry : bytes'[x][i] # NoFile => words'[x][i] > NrBlocks
  <2> SUFFICES ASSUME NEW x \in IndexSet', x \notin IndexSet, NEW i \in Entry, bytes'[x][i] # NoFile
               PROVE  words'[x][i] > NrBlocks
    OBVIOUS
  <2>1. x = b /\ x \in Unsliced(S2)
    BY <1>1, <1>3 DEF Apart, Unsliced
  <2> QED
    BY <1>1, <2>1 DEF KeepsCells
<1>8. Sane'
  <2>1. \A x \in Unsliced(sliced') : x \notin sliced
    BY <1>1, <1>3 DEF Unsliced
  <2> QED
    BY <1>6, <1>7, <2>1, SaneStays DEF KeepsCells
<1> QED
  BY <1>6, <1>8

LEMMA AllocIsData ==
    ASSUME OwnedNow, NEW b, GetFreeBlock(b)
    PROVE  b \in bfree_bitmap \cap Data /\ bfree_bitmap' = bfree_bitmap \ {b}
BY DEF OwnedNow, Owned, Apart, GetFreeBlock, CanAlloc

LEMMA OwnCreate ==
    ASSUME Types, OwnInv, NEW f \in Files, Create(f)
    PROVE  OwnInv'
<1>1. /\ linked' = linked \cup {f} /\ f \notin linked /\ index_block'[f] = 0 /\ num_slices'[f] = 0
      /\ i_blocks'[f] = 0 /\ sliced' = sliced /\ words' = words /\ bytes' = bytes
      /\ bfree_bitmap' = bfree_bitmap /\ pc' = pc /\ pc = "idle"
      /\ \A g \in linked : /\ index_block'[g] = index_block[g] /\ num_slices'[g] = num_slices[g]
                           /\ i_blocks'[g] = i_blocks[g]
  BY DEF Create, Types, InodeTypes, sbvars, blockvars
<1>2. Indexed' = Indexed
  BY <1>1 DEF Indexed
<1>3. IndexSet' = IndexSet /\ OneIndexEach'
  <2>1. \A g \in Indexed : index_block'[g] = index_block[g]
    BY <1>1 DEF Indexed
  <2> QED
    BY <1>2, <2>1, KeepsIndexes DEF OwnInv
<1>4. AllConsistent'
  <2> SUFFICES ASSUME NEW g \in linked' PROVE Consistent(g)'
    BY DEF AllConsistent
  <2>1. CASE g = f
    BY <1>1, <2>1 DEF Consistent
  <2>2. CASE g \in linked
    BY <1>1, <2>2, StaysConsistent DEF OwnInv, AllConsistent
  <2> QED
    BY <1>1, <2>1, <2>2
<1>5. OwnedNow' /\ Sane'
  BY <1>1, <1>3, OwnedSame DEF KeepsCells
<1> QED
  BY <1>1, <1>3, <1>4, <1>5 DEF OwnInv, LoopIndexed

\* Every step that leaves the index blocks and the slices where they are.
LEMMA OwnQuiet ==
    ASSUME OwnInv, UNCHANGED <<linked, index_block, num_slices, i_blocks, sliced, words, bytes>>,
           \/ bfree_bitmap' = bfree_bitmap \/ bfree_bitmap' = bfree_bitmap \ {0}
           \/ bfree_bitmap' = bfree_bitmap \cup {0},
           pc' = "loop" => req'.f \in Indexed
    PROVE  OwnInv'
<1>1. Indexed' = Indexed /\ IndexSet' = IndexSet /\ OneIndexEach'
  BY SameIndexes DEF OwnInv
<1>2. OwnedNow' /\ Sane'
  BY <1>1, OwnedSame DEF KeepsCells
<1>3. AllConsistent'
  BY DEF OwnInv, AllConsistent, Consistent, GetBno, GetSlice
<1> QED
  BY <1>1, <1>2, <1>3 DEF OwnInv, LoopIndexed

LEMMA WriteSmallIs ==
    ASSUME Types, OwnInv, NEW f \in Files, NEW ki_pos \in Offsets, NEW count \in Counts,
           WriteSmall(f, ki_pos, count)
    PROVE  \E b \in Block, s \in Slice :
             /\ \/ b \in sliced /\ bfree_bitmap' = bfree_bitmap
                \/ b \in bfree_bitmap \cap Data /\ bfree_bitmap' = bfree_bitmap \ {b}
             /\ sliced' = sliced \cup {b} /\ words' = words
             /\ index_block'[f] = b * NrSlices + s /\ num_slices'[f] # 0 /\ num_slices'[f] \in Nat
             /\ f \in linked /\ index_block[f] = 0 /\ i_blocks' = i_blocks /\ linked' = linked
             /\ pc = "idle" /\ pc' = pc /\ exposed' = exposed
             /\ \A g \in linked \ {f} : index_block'[g] = index_block[g] /\ num_slices'[g] = num_slices[g]
             /\ \A x \in OnDisk \ {b} : bytes'[x] = bytes[x]
<1> DEFINE n == DivRoundUp(NewSize(f, ki_pos, count), SliceSize)
<1>1. PICK b \in Block, s \in Slice :
        /\ \/ b \in sliced /\ UNCHANGED <<bfree_bitmap, nr_free_blocks>>
           \/ GetFreeBlock(b)
        /\ sliced' = sliced \cup {b}
        /\ index_block' = [index_block EXCEPT ![f] = b * NrSlices + s]
        /\ bytes' = [bytes EXCEPT ![b] = Mark(@, s..(s + n - 1), f)]
  BY DEF WriteSmall
<1>2. \/ b \in sliced /\ bfree_bitmap' = bfree_bitmap
      \/ b \in bfree_bitmap \cap Data /\ bfree_bitmap' = bfree_bitmap \ {b}
  BY <1>1, AllocIsData DEF OwnInv
<1>3. /\ n > 0 /\ num_slices' = [num_slices EXCEPT ![f] = n] /\ words' = words
      /\ f \in linked /\ index_block[f] = 0 /\ i_blocks' = i_blocks /\ linked' = linked
      /\ pc = "idle" /\ pc' = pc /\ exposed' = exposed
  BY DEF WriteSmall, MayCall
<1>4. n \in Nat
  BY SizesAre, InputAssumption
<1> HIDE DEF n
<1>5. /\ index_block'[f] = b * NrSlices + s /\ num_slices'[f] # 0 /\ num_slices'[f] \in Nat
      /\ \A g \in linked \ {f} : index_block'[g] = index_block[g] /\ num_slices'[g] = num_slices[g]
      /\ \A x \in OnDisk \ {b} : bytes'[x] = bytes[x]
  BY <1>1, <1>3, <1>4 DEF Types, InodeTypes, BlockTypes
<1> QED
  BY <1>1, <1>2, <1>3, <1>5

LEMMA OwnWriteSmall ==
    ASSUME Types, OwnInv, NEW f \in Files, NEW ki_pos \in Offsets, NEW count \in Counts,
           WriteSmall(f, ki_pos, count)
    PROVE  OwnInv'
<1>1. PICK b \in Block, s \in Slice :
             /\ \/ b \in sliced /\ bfree_bitmap' = bfree_bitmap
                \/ b \in bfree_bitmap \cap Data /\ bfree_bitmap' = bfree_bitmap \ {b}
             /\ sliced' = sliced \cup {b} /\ words' = words
             /\ index_block'[f] = b * NrSlices + s /\ num_slices'[f] # 0
             /\ f \in linked /\ index_block[f] = 0 /\ i_blocks' = i_blocks /\ linked' = linked
             /\ pc = "idle" /\ pc' = pc
             /\ \A g \in linked \ {f} : index_block'[g] = index_block[g] /\ num_slices'[g] = num_slices[g]
             /\ \A x \in OnDisk \ {b} : bytes'[x] = bytes[x]
  BY WriteSmallIs
<1>2. Indexed' = Indexed /\ \A g \in Indexed : index_block'[g] = index_block[g]
  BY <1>1 DEF Indexed
<1>3. IndexSet' = IndexSet /\ OneIndexEach'
  BY <1>2, KeepsIndexes DEF OwnInv
<1>4. OwnedNow' /\ Sane'
  <2>0. KeepsCells
    BY <1>1, UnslicedIs DEF KeepsCells, Unsliced
  <2>1. CASE b \in sliced /\ bfree_bitmap' = bfree_bitmap
    <3>1. sliced' = sliced
      BY <1>1, <2>1
    <3> QED
      BY <1>3, <2>0, <2>1, <3>1, OwnedSame
  <2>2. CASE b \in bfree_bitmap \cap Data /\ bfree_bitmap' = bfree_bitmap \ {b}
    BY <1>1, <1>3, <2>0, <2>2, OwnedMoved
  <2> QED
    BY <1>1, <2>1, <2>2
<1>5. AllConsistent'
  <2> SUFFICES ASSUME NEW g \in linked' PROVE Consistent(g)'
    BY DEF AllConsistent
  <2>1. CASE g = f
    <3>1. b \in Nat \ {0} /\ s \in 1..(NrSlices - 1) /\ NrSlices \in Nat \ {0, 1}
      BY Geometry DEF Slice
    <3>2. (b * NrSlices + s) \div NrSlices = b /\ (b * NrSlices + s) % NrSlices = s
      <4>1. s \in 0..(NrSlices - 1)
        BY <3>1
      <4> QED
        BY <3>1, <4>1, Unpack
    <3>3. b * NrSlices + s # 0
      BY <3>1
    <3>4. i_blocks'[f] = 0
      BY <1>1 DEF OwnInv, AllConsistent, Consistent
    <3>5. GetBno(f)' \in sliced' /\ GetSlice(f)' \in Slice /\ index_block'[f] # 0
      BY <1>1, <3>2, <3>3 DEF GetBno, GetSlice
    <3> QED
      BY <2>1, <3>4, <3>5 DEF Consistent
  <2>2. CASE g # f
    BY <1>1, <2>2, StaysConsistent DEF OwnInv, AllConsistent
  <2> QED
    BY <2>1, <2>2
<1> QED
  BY <1>1, <1>3, <1>4, <1>5 DEF OwnInv, LoopIndexed

LEMMA BigFirstIs ==
    ASSUME Types, OwnInv, NEW f \in Files, NEW ki_pos, NEW count, NEW append, NEW data,
           BigFirst(f, ki_pos, count, append, data)
    PROVE  \E b \in bfree_bitmap \cap Data :
             /\ bfree_bitmap' = bfree_bitmap \ {b} /\ index_block' = [index_block EXCEPT ![f] = b]
             /\ index_block'[f] = b /\ \A g \in linked \ {f} : index_block'[g] = index_block[g]
             /\ f \in linked \ Indexed /\ Indexed' = Indexed \cup {f} /\ IndexSet' = IndexSet \cup {b}
             /\ UNCHANGED <<sliced, words, bytes, linked, num_slices, i_blocks, i_size, exposed>>
             /\ pc' = "loop" => req'.f = f /\ req'.convert = FALSE
<1>1. PICK b \in Block : GetFreeBlock(b) /\ index_block' = [index_block EXCEPT ![f] = b]
  BY DEF BigFirst
<1>2. /\ UNCHANGED <<sliced, words, bytes, linked, num_slices, i_blocks, i_size, exposed>>
      /\ f \in linked /\ index_block[f] = 0 /\ pc = "idle"
      /\ StartLoop(f, StartsAt(f, ki_pos, append), count, data, FALSE) \/ UNCHANGED <<pc, req>>
  BY DEF BigFirst, blockvars, MayCall
<1>3. b \in bfree_bitmap \cap Data /\ bfree_bitmap' = bfree_bitmap \ {b} /\ b # 0
  BY <1>1, AllocIsData, Geometry DEF OwnInv
<1>4. num_slices[f] = 0
  BY <1>2 DEF OwnInv, AllConsistent, Consistent
<1>5. index_block'[f] = b /\ \A g \in linked \ {f} : index_block'[g] = index_block[g]
  BY <1>1 DEF Types, InodeTypes
<1>6. f \in linked \ Indexed /\ Indexed' = Indexed \cup {f}
  BY <1>2, <1>3, <1>4, <1>5 DEF Indexed
<1>7. IndexSet' = IndexSet \cup {b}
  <2>1. Indexed \subseteq linked \ {f}
    BY <1>6 DEF Indexed
  <2> QED
    BY <1>5, <1>6, <2>1 DEF IndexSet
<1>8. pc' = "loop" => req'.f = f /\ req'.convert = FALSE
  BY <1>2 DEF StartLoop
<1> QED
  BY <1>1, <1>2, <1>3, <1>5, <1>6, <1>7, <1>8

LEMMA OwnBigFirst ==
    ASSUME Types, OwnInv, ~StaleIndex, NEW f \in Files, NEW ki_pos \in Offsets, NEW count \in Counts,
           NEW append \in Appends, NEW data \in Words, BigFirst(f, ki_pos, count, append, data)
    PROVE  OwnInv'
<1>1. PICK b \in bfree_bitmap \cap Data :
             /\ bfree_bitmap' = bfree_bitmap \ {b}
             /\ index_block'[f] = b /\ \A g \in linked \ {f} : index_block'[g] = index_block[g]
             /\ f \in linked \ Indexed /\ Indexed' = Indexed \cup {f} /\ IndexSet' = IndexSet \cup {b}
             /\ UNCHANGED <<sliced, words, bytes, linked, num_slices, i_blocks>>
             /\ pc' = "loop" => req'.f = f
  BY BigFirstIs
<1>2. OwnedNow' /\ Sane'
  <2>1. ASSUME NEW i \in Entry, bytes[b][i] # NoFile PROVE words[b][i] > NrBlocks
    <3>1. ~(words[b][i] <= NrBlocks)
      BY <1>1, <2>1 DEF StaleIndex
    <3>2. words[b][i] \in Nat /\ NrBlocks \in Nat
      BY Geometry DEF Types, BlockTypes, IndexWordsType
    <3> QED
      BY <3>1, <3>2
  <2> QED
    BY <1>1, <2>1, OwnedMoved DEF KeepsCells
<1>3. b \notin IndexSet /\ b # 0
  BY Geometry DEF OwnInv, OwnedNow, Owned, Apart
<1>4. OneIndexEach'
  <2>1. \A g \in Indexed : index_block'[g] = index_block[g] /\ index_block'[g] # b
    BY <1>1, <1>3 DEF Indexed, IndexSet
  <2> QED
    BY <1>1, <2>1 DEF OwnInv, OneIndexEach
<1>5. AllConsistent'
  <2> SUFFICES ASSUME NEW g \in linked' PROVE Consistent(g)'
    BY DEF AllConsistent
  <2>1. CASE g = f
    BY <1>1, <1>3, <2>1 DEF Consistent, Indexed
  <2>2. CASE g # f
    BY <1>1, <2>2, StaysConsistent DEF OwnInv, AllConsistent
  <2> QED
    BY <2>1, <2>2
<1> QED
  BY <1>1, <1>2, <1>4, <1>5 DEF OwnInv, LoopIndexed

LEMMA OwnOtherCalls ==
    ASSUME Types, OwnInv, ~Repack, NEW f \in Files, NEW ki_pos \in Offsets, NEW count \in Counts,
           \/ WriteSmallNoSpace(f, ki_pos, count) \/ BigNoIndex(f, ki_pos, count)
           \/ \E append \in Appends, data \in Words :
                \/ BigAgain(f, ki_pos, count, append, data)
                \/ Convert(f, ki_pos, count, append, data)
    PROVE  OwnInv'
<1>1. CASE WriteSmallNoSpace(f, ki_pos, count) \/ BigNoIndex(f, ki_pos, count)
  <2>1. /\ UNCHANGED <<linked, index_block, num_slices, i_blocks, sliced, words, bytes>>
        /\ \/ bfree_bitmap' = bfree_bitmap \ {0} \/ bfree_bitmap' = bfree_bitmap \cup {0}
        /\ pc' = pc /\ pc = "idle"
    BY <1>1 DEF WriteSmallNoSpace, BigNoIndex, GetNoBlock, blockvars, inodevars, MayCall
  <2> QED
    BY <2>1, OwnQuiet
<1>2. ASSUME NEW append \in Appends, NEW data \in Words,
             \/ BigAgain(f, ki_pos, count, append, data)
             \/ Convert(f, ki_pos, count, append, data)
      PROVE  OwnInv'
  <2>1. /\ UNCHANGED <<linked, index_block, num_slices, i_blocks, sliced, words, bytes, bfree_bitmap>>
        /\ req'.f = f /\ f \in linked /\ index_block[f] # 0
    BY <1>2 DEF BigAgain, Convert, Converts, StartLoop, MayCall, sbvars, blockvars, inodevars
  <2>2. num_slices[f] = 0
    <3>1. CASE BigAgain(f, ki_pos, count, append, data)
      BY <3>1, <2>1 DEF BigAgain, GoesBig, is_small_file, OwnInv, AllConsistent, Consistent
    <3>2. CASE Convert(f, ki_pos, count, append, data)
      BY <3>2 DEF Repack
    <3> QED
      BY <1>2, <3>1, <3>2
  <2>3. f \in Indexed
    BY <2>1, <2>2 DEF Indexed
  <2> QED
    BY <2>1, <2>3, OwnQuiet
<1> QED
  BY <1>1, <1>2

\* A file with an index block has no slices to free.
LEMMA NoPlace ==
    ASSUME NEW f \in Indexed
    PROVE  PlaceOf(f) = {}
BY DEF Indexed, PlaceOf

LEMMA LoopDoneIs ==
    ASSUME Types, OwnInv, LoopDone
    PROVE  /\ req.f \in Indexed /\ UNCHANGED <<sbvars, blockvars>> /\ pc' = "idle"
           /\ UNCHANGED <<linked, index_block, num_slices, exposed>>
           /\ i_size'[req.f] = MaxOf(req.pos, i_size[req.f])
           /\ i_blocks'[req.f] = BlocksFor(MaxOf(req.pos, i_size[req.f]))
           /\ \A g \in linked \ {req.f} : i_blocks'[g] = i_blocks[g] /\ i_size'[g] = i_size[g]
<1>1. req.f \in Indexed /\ req.f \in Files
  BY DEF LoopDone, OwnInv, LoopIndexed, Indexed, Types, InodeTypes
<1>2. UNCHANGED <<sbvars, blockvars>>
  BY <1>1, NoPlace DEF LoopDone, DeleteSlice
<1> QED
  BY <1>1, <1>2 DEF LoopDone, Return, Types, InodeTypes

LEMMA OwnLoopEnds ==
    ASSUME Types, OwnInv, LoopNoSpace \/ LoopTooBig \/ LoopDone
    PROVE  OwnInv'
<1>1. CASE LoopNoSpace \/ LoopTooBig
  <2>1. /\ UNCHANGED <<linked, index_block, num_slices, i_blocks, sliced, words, bytes>>
        /\ bfree_bitmap' = bfree_bitmap \ {0} \/ bfree_bitmap' = bfree_bitmap
        /\ pc' = "idle"
    BY <1>1 DEF LoopNoSpace, LoopTooBig, FailBig, Return, GetNoBlock, blockvars
  <2> QED
    BY <2>1, OwnQuiet
<1>2. CASE LoopDone
  <2>1. /\ req.f \in Indexed /\ UNCHANGED <<sliced, words, bytes, bfree_bitmap>> /\ pc' = "idle"
        /\ UNCHANGED <<linked, index_block, num_slices>>
        /\ \A g \in linked \ {req.f} : i_blocks'[g] = i_blocks[g]
    BY <1>2, LoopDoneIs DEF sbvars, blockvars
  <2>2. Indexed' = Indexed /\ IndexSet' = IndexSet /\ OneIndexEach'
    BY <2>1, SameIndexes DEF OwnInv
  <2>3. OwnedNow' /\ Sane'
    BY <2>1, <2>2, OwnedSame DEF KeepsCells
  <2>4. AllConsistent'
    <3> SUFFICES ASSUME NEW g \in linked PROVE Consistent(g)'
      BY <2>1 DEF AllConsistent
    <3>1. CASE g = req.f
      BY <2>1, <3>1 DEF Consistent, Indexed
    <3>2. CASE g # req.f
      BY <2>1, <3>2, StaysConsistent DEF OwnInv, AllConsistent
    <3> QED
      BY <3>1, <3>2
  <2> QED
    BY <2>1, <2>2, <2>3, <2>4 DEF OwnInv, LoopIndexed
<1> QED
  BY <1>1, <1>2

(* What a step of the loop does to block b: it is the block at the entry,   *)
(* or a free one that is entered there; no other block changes, and what is *)
(* new in b is zeros or the file's data.                                    *)
BlockStep(ib, b) ==
    /\ \/ names[ib][Idx] # 0 /\ b = names[ib][Idx] /\ bfree_bitmap' = bfree_bitmap
       \/ names[ib][Idx] = 0 /\ b \in bfree_bitmap \cap Data /\ bfree_bitmap' = bfree_bitmap \ {b}
    /\ \A x \in OnDisk \ {ib, b} : words'[x] = words[x] /\ bytes'[x] = bytes[x]
    /\ bytes'[ib] = bytes[ib] /\ bytes[ib][Idx] = NoFile
    /\ words'[ib][Idx] = b /\ \A j \in Entry \ {Idx} : words'[ib][j] = words[ib][j]
    /\ \A k \in Entry : \/ words'[b][k] = words[b][k] /\ bytes'[b][k] = bytes[b][k]
                        \/ words'[b][k] = 0 /\ bytes'[b][k] = NoFile
                        \/ words'[b][k] # 0 /\ bytes'[b][k] = req.f

LEMMA LoopStepIs ==
    ASSUME Types, OwnInv, LoopCopy \/ LoopReadError \/ LoopFault
    PROVE  /\ InLoop /\ req.f \in Indexed /\ index_block[req.f] \in IndexSet
           /\ \/ \E b \in Data \ {index_block[req.f]} : BlockStep(index_block[req.f], b)
              \/ UNCHANGED <<words, bytes, bfree_bitmap>>
           /\ UNCHANGED <<sliced, linked, index_block, num_slices, i_blocks, exposed>>
           /\ pc' = "loop" => req'.f = req.f /\ req'.convert = req.convert
<1> DEFINE ib == index_block[req.f]
<1>1. InLoop
  BY DEF LoopCopy, LoopReadError, LoopFault
<1>2. req.f \in Indexed /\ ib \in IndexSet /\ ib \in Data /\ ib \notin bfree_bitmap /\ ib \in Unsliced(sliced)
  <2>1. req.f \in Indexed
    BY <1>1 DEF InLoop, OwnInv, LoopIndexed
  <2>2. ib \in IndexSet
    BY <2>1 DEF IndexSet
  <2> QED
    BY <2>1, <2>2 DEF OwnInv, OwnedNow, Owned, Apart, Unsliced
<1>3. /\ UNCHANGED <<sliced, linked, index_block, num_slices, i_blocks, exposed>>
      /\ pc' = "loop" => req'.f = req.f /\ req'.convert = req.convert
  <2>1. CASE LoopCopy
    <3>1. req \in Req
      BY <1>1, LoopIs
    <3> QED
      BY <2>1, <3>1 DEF LoopCopy, inodevars, Req
  <2>2. CASE LoopReadError \/ LoopFault
    BY <2>2 DEF LoopReadError, LoopFault, FailBig, Return
  <2> QED
    BY <2>1, <2>2
<1>4. IndexWords = words[ib] /\ Idx \in Entry /\ ib \in OnDisk /\ words[ib] \in IndexWordsType
  BY <1>1, LoopIs DEF IndexWords
<1>5. words[ib][Idx] = 0 => names[ib][Idx] = 0 /\ bytes[ib][Idx] = NoFile
  BY <1>2, <1>4, NamesAre DEF OwnInv, Sane, ZeroIsNobodys
<1>6. ASSUME NEW b \in Block, PhysicalBlock(b)
      PROVE  /\ b \in Data \ {ib} /\ b \in Nat /\ bytes[ib][Idx] = NoFile
             /\ \/ names[ib][Idx] # 0 /\ b = names[ib][Idx] /\ bfree_bitmap' = bfree_bitmap
                \/ names[ib][Idx] = 0 /\ b \in bfree_bitmap \cap Data /\ bfree_bitmap' = bfree_bitmap \ {b}
  <2>1. CASE IndexWords[Idx] # 0 /\ b = IndexWords[Idx] /\ UNCHANGED <<bfree_bitmap, nr_free_blocks>>
    <3>1. words[ib][Idx] = names[ib][Idx]
      <4>1. ~(b > NrBlocks)
        BY Geometry DEF Block
      <4> QED
        BY <1>2, <1>4, <2>1, <4>1 DEF OwnInv, Sane, IndexSane
    <3>2. names[ib][Idx] \in Data \ (bfree_bitmap \cup sliced \cup IndexSet)
      BY <1>2, <1>4, <2>1, <3>1 DEF OwnInv, OwnedNow, Owned, NamesOthers
    <3>3. bytes[ib][Idx] = NoFile
      BY <1>4, <2>1, <3>1, NamesAre
    <3> QED
      BY <1>2, <1>4, <2>1, <3>1, <3>2, <3>3, Geometry
  <2>2. CASE IndexWords[Idx] = 0 /\ GetFreeBlock(b)
    <3>1. b \in bfree_bitmap \cap Data /\ bfree_bitmap' = bfree_bitmap \ {b}
      BY <2>2, AllocIsData DEF OwnInv
    <3> QED
      BY <1>2, <1>4, <1>5, <2>2, <3>1, Geometry
  <2> QED
    BY <1>6, <2>1, <2>2 DEF PhysicalBlock
<1>7. ASSUME NEW b \in Nat
      PROVE  /\ \A x \in OnDisk \ {ib} : StoreEntry(b)[x] = words[x]
             /\ StoreEntry(b)[ib][Idx] = b
             /\ \A j \in Entry \ {Idx} : StoreEntry(b)[ib][j] = words[ib][j]
  <2>1. /\ StoreEntry(b)[ib] = [words[ib] EXCEPT ![Idx] = b]
        /\ \A x \in OnDisk \ {ib} : StoreEntry(b)[x] = words[x]
    BY <1>1, <1>4, <1>7, StoreTypes
  <2> QED
    BY <1>4, <2>1 DEF IndexWordsType
<1>8. CASE LoopCopy \/ LoopFault
  <2>1. PICK b \in Block : PhysicalBlock(b) /\ \E n : WriteInto(b, n)
    BY <1>8 DEF LoopCopy, LoopFault, Block
  <2>2. b \in Data \ {ib} /\ b \in Nat /\ b \in OnDisk
    BY <1>6, <2>1, Geometry
  <2>3. /\ \A x \in OnDisk \ {b} : words'[x] = StoreEntry(b)[x] /\ bytes'[x] = bytes[x]
        /\ \A k \in Entry :
             \/ words'[b][k] = StoreEntry(b)[b][k] /\ bytes'[b][k] = bytes[b][k]
             \/ words'[b][k] = 0 /\ bytes'[b][k] = NoFile
             \/ words'[b][k] # 0 /\ bytes'[b][k] = req.f
    BY <1>1, <2>1, WriteIntoTypes
  <2>4. StoreEntry(b)[b] = words[b]
    BY <1>7, <2>2
  <2>5. \A x \in OnDisk \ {ib, b} : words'[x] = words[x] /\ bytes'[x] = bytes[x]
    BY <1>7, <2>2, <2>3
  <2>6. bytes'[ib] = bytes[ib] /\ words'[ib] = StoreEntry(b)[ib]
    BY <1>4, <2>2, <2>3
  <2>7. BlockStep(ib, b)
    <3>1. words'[ib][Idx] = b /\ \A j \in Entry \ {Idx} : words'[ib][j] = words[ib][j]
      BY <1>7, <2>2, <2>6
    <3> HIDE DEF ib
    <3> QED
      BY <1>6, <2>1, <2>3, <2>4, <2>5, <2>6, <3>1 DEF BlockStep
  <2> QED
    BY <1>1, <1>2, <1>3, <2>2, <2>7
<1>9. CASE LoopReadError
  <2>1. PICK b \in Block \cup Words : PhysicalBlock(b) /\ words' = StoreEntry(b)
    BY <1>9 DEF LoopReadError
  <2>2. bytes' = bytes /\ b \in Nat
    BY <1>9, Geometry, InputAssumption DEF LoopReadError
  <2>3. CASE IndexWords[Idx] # 0 /\ b = IndexWords[Idx] /\ UNCHANGED <<bfree_bitmap, nr_free_blocks>>
    <3>1. words' = words
      <4>1. words' \in [OnDisk -> IndexWordsType] /\ words \in [OnDisk -> IndexWordsType]
        BY <1>1, <2>1, <2>2, StoreTypes DEF Types, BlockTypes
      <4>2. \A x \in OnDisk, j \in Entry : words'[x][j] = words[x][j]
        BY <1>4, <1>7, <2>1, <2>2, <2>3
      <4>3. \A x \in OnDisk : words'[x] = words[x]
        <5> TAKE x \in OnDisk
        <5>1. words'[x] \in [Entry -> Nat] /\ words[x] \in [Entry -> Nat]
          BY <4>1 DEF IndexWordsType
        <5> QED
          BY <4>2, <5>1
      <4> QED
        BY <4>1, <4>3
    <3> QED
      BY <1>1, <1>2, <1>3, <2>2, <2>3, <3>1
  <2>4. CASE IndexWords[Idx] = 0 /\ GetFreeBlock(b)
    <3>1. b \in Block
      BY <2>4, AllocIsData, Geometry DEF OwnInv
    <3>2. b \in Data \ {ib}
      BY <1>6, <2>1, <3>1
    <3>3. \A x \in OnDisk \ {ib} : words'[x] = words[x]
      BY <1>7, <2>1, <2>2
    <3>4. words'[ib][Idx] = b /\ \A j \in Entry \ {Idx} : words'[ib][j] = words[ib][j]
      BY <1>7, <2>1, <2>2
    <3>5. b \in OnDisk
      BY <3>1, Geometry
    <3>6. BlockStep(ib, b)
      <4> HIDE DEF ib
      <4> QED
        BY <1>6, <2>1, <2>2, <3>1, <3>2, <3>3, <3>4, <3>5 DEF BlockStep
    <3> QED
      BY <1>1, <1>2, <1>3, <3>2, <3>6
  <2> QED
    BY <2>1, <2>3, <2>4 DEF PhysicalBlock
<1> QED
  BY <1>8, <1>9

\* What a step of the loop does to names and to their being so.
LEMMA BlockStepIs ==
    ASSUME Types, OwnInv, InLoop, NEW ib \in IndexSet, ib = index_block[req.f],
           NEW b \in Data \ {ib}, BlockStep(ib, b), IndexSet' = IndexSet, sliced' = sliced
    PROVE  /\ Idx \in Entry /\ ib \in OnDisk /\ b \in OnDisk /\ ib \in Unsliced(sliced)
           /\ b \notin IndexSet /\ b \notin sliced /\ b # 0
           /\ names'[ib][Idx] = b
           /\ \A x \in OnDisk, i \in Entry : (x = ib /\ i = Idx) \/ names'[x][i] \in {names[x][i], 0}
           /\ \A x \in OnDisk \ {b}, i \in Entry : (x = ib /\ i = Idx) \/ names'[x][i] = names[x][i]
           /\ Sane'
<1>1. /\ Idx \in Entry /\ ib \in OnDisk /\ b \in OnDisk /\ b # 0
      /\ req.f \in Files /\ req.f # NoFile
  BY LoopIs, Geometry, GeometryAssumption
<1>2. Apart(bfree_bitmap, sliced, IndexSet) /\ ib \in Unsliced(sliced)
  BY DEF OwnInv, OwnedNow, Owned, Apart, Unsliced
<1>3. b \notin IndexSet /\ b \notin sliced
  <2>1. CASE names[ib][Idx] # 0 /\ b = names[ib][Idx]
    BY <1>1, <1>2, <2>1 DEF OwnInv, OwnedNow, Owned, NamesOthers
  <2>2. CASE b \in bfree_bitmap
    BY <1>2, <2>2 DEF Apart
  <2> QED
    BY <2>1, <2>2 DEF BlockStep
<1>4. names'[ib][Idx] = b
  <2>1. bytes'[ib][Idx] = NoFile /\ words'[ib][Idx] = b
    BY <1>1 DEF BlockStep
  <2> QED
    BY <1>1, <2>1, NamesAre
<1>5. ASSUME NEW x \in OnDisk \ {b}, NEW i \in Entry, ~(x = ib /\ i = Idx)
      PROVE  words'[x][i] = words[x][i] /\ bytes'[x][i] = bytes[x][i]
  BY <1>1, <1>5 DEF BlockStep
<1>6. ASSUME NEW x \in OnDisk \ {b}, NEW i \in Entry, ~(x = ib /\ i = Idx)
      PROVE  names'[x][i] = names[x][i]
  BY <1>5, <1>6, NamesAre
<1>7. ASSUME NEW i \in Entry PROVE names'[b][i] \in {names[b][i], 0}
  <2>1. \/ words'[b][i] = words[b][i] /\ bytes'[b][i] = bytes[b][i]
        \/ words'[b][i] = 0 /\ bytes'[b][i] = NoFile
        \/ words'[b][i] # 0 /\ bytes'[b][i] = req.f
    BY DEF BlockStep
  <2> QED
    BY <1>1, <2>1, NamesAre
<1>8. \A x \in OnDisk, i \in Entry : (x = ib /\ i = Idx) \/ names'[x][i] \in {names[x][i], 0}
  BY <1>6, <1>7
<1>9. ZeroIsNobodys'
  <2> SUFFICES ASSUME NEW x \in Unsliced(sliced), NEW i \in Entry, words'[x][i] = 0
               PROVE  bytes'[x][i] = NoFile
    BY DEF ZeroIsNobodys
  <2>1. CASE x = ib /\ i = Idx
    BY <1>1, <2>1 DEF BlockStep
  <2>2. CASE x = b
    <3>1. \/ words'[b][i] = words[b][i] /\ bytes'[b][i] = bytes[b][i]
          \/ bytes'[b][i] = NoFile
          \/ words'[b][i] # 0
      BY DEF BlockStep
    <3> QED
      BY <2>2, <3>1 DEF OwnInv, Sane, ZeroIsNobodys
  <2>3. CASE x # b /\ ~(x = ib /\ i = Idx)
    BY <1>5, <2>3, UnslicedIs DEF OwnInv, Sane, ZeroIsNobodys
  <2> QED
    BY <2>1, <2>2, <2>3
<1>10. IndexSane'
  <2> SUFFICES ASSUME NEW x \in IndexSet, NEW i \in Entry, words'[x][i] # names'[x][i]
               PROVE  words'[x][i] > NrBlocks
    BY DEF IndexSane
  <2>1. x \in OnDisk \ {b}
    BY <1>2, <1>3, Geometry DEF Apart
  <2>2. ~(x = ib /\ i = Idx)
    BY <1>4 DEF BlockStep
  <2>3. words'[x][i] = words[x][i] /\ names'[x][i] = names[x][i]
    BY <1>5, <1>6, <2>1, <2>2
  <2> QED
    BY <2>3 DEF OwnInv, Sane, IndexSane
<1> QED
  BY <1>1, <1>2, <1>3, <1>4, <1>6, <1>8, <1>9, <1>10 DEF Sane

LEMMA OwnLoopStep ==
    ASSUME Types, OwnInv, LoopCopy \/ LoopReadError \/ LoopFault
    PROVE  OwnInv'
<1> DEFINE ib == index_block[req.f]
<1>1. /\ InLoop /\ req.f \in Indexed /\ ib \in IndexSet
      /\ UNCHANGED <<sliced, linked, index_block, num_slices, i_blocks>>
      /\ pc' = "loop" => req'.f = req.f
      /\ (\E b \in Data \ {ib} : BlockStep(ib, b)) \/ UNCHANGED <<words, bytes, bfree_bitmap>>
  BY LoopStepIs
<1>2. CASE UNCHANGED <<words, bytes, bfree_bitmap>>
  BY <1>1, <1>2, OwnQuiet
<1>3. ASSUME NEW b \in Data \ {ib}, BlockStep(ib, b) PROVE OwnInv'
  <2>1. Indexed' = Indexed /\ IndexSet' = IndexSet /\ OneIndexEach'
    BY <1>1, SameIndexes DEF OwnInv
  <2>2. AllConsistent'
    BY <1>1 DEF OwnInv, AllConsistent, Consistent, GetBno, GetSlice
  <2>3. PICK W2, F2 : W2 = names' /\ F2 = bfree_bitmap'
    OBVIOUS
  <2>4. /\ Idx \in Entry /\ ib \in OnDisk /\ ib \in Unsliced(sliced) /\ W2[ib][Idx] = b /\ Sane'
        /\ \A x \in OnDisk, i \in Entry : (x = ib /\ i = Idx) \/ W2[x][i] \in {names[x][i], 0}
    <3> HIDE DEF ib
    <3> QED
      BY <1>1, <1>3, <2>1, <2>3, BlockStepIs DEF ib
  <2>5. Owned(names, bfree_bitmap, sliced, IndexSet)
    BY DEF OwnInv, OwnedNow
  <2>6. \/ names[ib][Idx] # 0 /\ b = names[ib][Idx] /\ F2 = bfree_bitmap
        \/ b \in bfree_bitmap \cap Data /\ F2 = bfree_bitmap \ {b}
    BY <1>3, <2>3 DEF BlockStep
  <2>7. CASE names[ib][Idx] # 0 /\ b = names[ib][Idx] /\ F2 = bfree_bitmap
    <3>1. Fewer(names, sliced, W2, F2, sliced, IndexSet)
      <4> SUFFICES ASSUME NEW x \in Unsliced(sliced), NEW i \in Entry, W2[x][i] # 0
                   PROVE  W2[x][i] = names[x][i] /\ W2[x][i] \notin F2 \cup sliced \cup IndexSet
        BY DEF Fewer
      <4>1. W2[x][i] = names[x][i]
        BY <2>4, <2>7, UnslicedIs
      <4>2. names[x][i] \in Data \ (bfree_bitmap \cup sliced \cup IndexSet)
        BY <2>5, <4>1 DEF Owned, NamesOthers
      <4> QED
        BY <2>7, <4>1, <4>2
    <3>2. Owned(W2, F2, sliced, IndexSet)
      BY <2>5, <2>7, <3>1, OwnedLess DEF Owned
    <3> QED
      BY <1>1, <2>1, <2>2, <2>3, <2>4, <3>2 DEF OwnInv, OwnedNow, LoopIndexed
  <2>8. CASE b \in bfree_bitmap \cap Data /\ F2 = bfree_bitmap \ {b}
    <3>1. EnteredAt(names, sliced, W2, ib, Idx, b)
      BY <2>4, UnslicedIs DEF EnteredAt
    <3> HIDE DEF ib
    <3>2. Owned(W2, F2, sliced, IndexSet)
      BY <1>1, <2>4, <2>5, <2>8, <3>1, OwnedMore
    <3> QED
      BY <1>1, <2>1, <2>2, <2>3, <2>4, <3>2 DEF OwnInv, OwnedNow, LoopIndexed
  <2> QED
    BY <2>6, <2>7, <2>8
<1> QED
  BY <1>1, <1>2, <1>3
-----------------------------------------------------------------------------
(* Blocks that are given back *)

LEMMA ClearedIs ==
    ASSUME NEW w, NEW S, NEW zero, NEW i \in Entry
    PROVE  /\ i \in S => Cleared(w, S, zero)[i] = zero
           /\ i \notin S => Cleared(w, S, zero)[i] = w[i]
BY DEF Cleared

LEMMA InRangeData ==
    ASSUME NEW S, S \subseteq Data
    PROVE  InRange(S) = S
<1>1. Data \subseteq 0..NrBlocks
  BY Geometry DEF Data
<1> QED
  BY <1>1 DEF InRange

\* What put_block takes of the words of an index: the names.
LEMMA WordsInRange ==
    ASSUME Types, OwnInv, NEW ib \in IndexSet, NEW U, U \subseteq {i \in Entry : words[ib][i] # 0}
    PROVE  InRange({words[ib][i] : i \in U}) = {names[ib][i] : i \in U} \ {0}
<1>1. ib \in Data /\ ib \in OnDisk /\ ib \in Unsliced(sliced)
  BY Geometry DEF OwnInv, OwnedNow, Owned, Apart, Unsliced
<1>2. \A i \in U : i \in Entry /\ words[ib][i] # 0 /\ words[ib][i] \in Nat
  BY <1>1 DEF Types, BlockTypes, IndexWordsType
<1>3. \A i \in U : names[ib][i] # 0 => names[ib][i] = words[ib][i] /\ words[ib][i] \in 0..NrBlocks
  <2> SUFFICES ASSUME NEW i \in U, names[ib][i] # 0
               PROVE  names[ib][i] = words[ib][i] /\ words[ib][i] \in 0..NrBlocks
    OBVIOUS
  <2>1. names[ib][i] = words[ib][i]
    BY <1>1, <1>2, NamesAre
  <2>2. names[ib][i] \in Data
    BY <1>1, <1>2 DEF OwnInv, OwnedNow, Owned, NamesOthers
  <2>3. Data \subseteq 0..NrBlocks
    BY Geometry DEF Data
  <2> QED
    BY <2>1, <2>2, <2>3
<1>4. \A i \in U : words[ib][i] \in 0..NrBlocks => words[ib][i] = names[ib][i]
  <2> SUFFICES ASSUME NEW i \in U, words[ib][i] \in 0..NrBlocks, words[ib][i] # names[ib][i] PROVE FALSE
    OBVIOUS
  <2>1. words[ib][i] > NrBlocks
    BY <1>2 DEF OwnInv, Sane, IndexSane
  <2> QED
    BY <2>1, Geometry
<1> QED
  BY <1>2, <1>3, <1>4 DEF InRange

(* The blocks freed are named by index block ib alone, what is left of the  *)
(* names in ib names none of them, and no cell gets anything but nothing.   *)
Gives(ib, freed) ==
    /\ freed \subseteq {names[ib][i] : i \in Entry} \ {0}
    /\ bfree_bitmap' \in {bfree_bitmap \cup freed, bfree_bitmap \cup freed \cup {ib}}
    /\ \A x \in OnDisk, i \in Entry : \/ words'[x][i] = words[x][i] /\ bytes'[x][i] = bytes[x][i]
                                      \/ words'[x][i] = 0 /\ bytes'[x][i] = NoFile
    /\ \A x \in OnDisk \ (freed \cup {ib}) : words'[x] = words[x] /\ bytes'[x] = bytes[x]
    /\ \A i \in Entry : names'[ib][i] # 0 => names[ib][i] \notin freed

LEMMA GivesNames ==
    ASSUME NEW ib, NEW freed, Gives(ib, freed), NEW x \in OnDisk, NEW i \in Entry
    PROVE  names'[x][i] \in {names[x][i], 0} /\ (x \notin freed \cup {ib} => names'[x][i] = names[x][i])
<1>1. \/ words'[x][i] = words[x][i] /\ bytes'[x][i] = bytes[x][i]
      \/ words'[x][i] = 0 /\ bytes'[x][i] = NoFile
  BY DEF Gives
<1>2. x \notin freed \cup {ib} => words'[x] = words[x] /\ bytes'[x] = bytes[x]
  BY DEF Gives
<1> QED
  BY <1>1, <1>2, NamesAre

LEMMA FreedIs ==
    ASSUME OwnInv, NEW f \in Indexed, NEW freed,
           freed \subseteq {names[index_block[f]][i] : i \in Entry} \ {0}
    PROVE  /\ index_block[f] \in IndexSet /\ index_block[f] \in Data \ (bfree_bitmap \cup sliced)
           /\ index_block[f] \in OnDisk /\ index_block[f] \in Unsliced(sliced)
           /\ freed \subseteq Data \ (bfree_bitmap \cup sliced \cup IndexSet)
           /\ \A x \in Unsliced(sliced), i \in Entry :
                names[x][i] # 0 /\ names[x][i] \in freed => x = index_block[f]
<1> DEFINE ib == index_block[f]
<1>1. ib \in IndexSet
  BY DEF IndexSet
<1>2. ib \in Data \ (bfree_bitmap \cup sliced) /\ ib \in OnDisk /\ ib \in Unsliced(sliced)
  BY <1>1, Geometry DEF OwnInv, OwnedNow, Owned, Apart, Unsliced
<1>3. freed \subseteq Data \ (bfree_bitmap \cup sliced \cup IndexSet)
  BY <1>2 DEF OwnInv, OwnedNow, Owned, NamesOthers
<1>4. ASSUME NEW x \in Unsliced(sliced), NEW i \in Entry,
             names[x][i] # 0, names[x][i] \in freed
      PROVE  x = ib
  <2>1. PICK j \in Entry : names[x][i] = names[ib][j]
    BY <1>4
  <2>2. NamesOnce(names, sliced)
    BY DEF OwnInv, OwnedNow, Owned
  <2> QED
    BY <1>2, <1>4, <2>1, <2>2 DEF NamesOnce
<1> QED
  BY <1>1, <1>2, <1>3, <1>4

\* O_TRUNC keeps the index block, unlink frees it too.
LEMMA OwnedFreed ==
    ASSUME OwnInv, NEW f \in Indexed, NEW freed, Gives(index_block[f], freed), sliced' = sliced,
           \/ bfree_bitmap' = bfree_bitmap \cup freed /\ IndexSet' = IndexSet
           \/ /\ bfree_bitmap' = bfree_bitmap \cup freed \cup {index_block[f]}
              /\ IndexSet' = IndexSet \ {index_block[f]}
    PROVE  OwnedNow' /\ Sane'
<1> DEFINE ib == index_block[f]
<1>1. /\ ib \in IndexSet /\ ib \in Data \ (bfree_bitmap \cup sliced)
      /\ freed \subseteq Data \ (bfree_bitmap \cup sliced \cup IndexSet)
      /\ \A x \in Unsliced(sliced), i \in Entry :
           names[x][i] # 0 /\ names[x][i] \in freed => x = index_block[f]
  BY FreedIs DEF Gives
<1>2. PICK W2, F2, X2 : W2 = names' /\ F2 = bfree_bitmap' /\ X2 = IndexSet'
  OBVIOUS
<1>3. /\ \A x \in OnDisk, i \in Entry : W2[x][i] \in {names[x][i], 0}
      /\ \A i \in Entry : W2[ib][i] # 0 => names[ib][i] \notin freed
  <2>1. \A x \in OnDisk, i \in Entry : names'[x][i] \in {names[x][i], 0}
    BY GivesNames
  <2> QED
    BY <1>2, <2>1 DEF Gives
<1>4. \/ F2 = bfree_bitmap \cup freed /\ X2 = IndexSet
      \/ F2 = bfree_bitmap \cup freed \cup {ib} /\ X2 = IndexSet \ {ib}
  BY <1>2
<1>5. Apart(F2, sliced, X2)
  <2>1. Apart(bfree_bitmap, sliced, IndexSet)
    BY DEF OwnInv, OwnedNow, Owned
  <2> HIDE DEF ib
  <2> QED
    BY <1>1, <1>4, <2>1 DEF Apart
<1>6. Fewer(names, sliced, W2, F2, sliced, X2)
  <2> SUFFICES ASSUME NEW x \in Unsliced(sliced), NEW i \in Entry, W2[x][i] # 0
               PROVE  W2[x][i] = names[x][i] /\ W2[x][i] \notin F2 \cup sliced \cup X2
    BY DEF Fewer
  <2>1. W2[x][i] = names[x][i]
    BY <1>3, UnslicedIs
  <2>2. names[x][i] \in Data \ (bfree_bitmap \cup sliced \cup IndexSet)
    BY <2>1 DEF OwnInv, OwnedNow, Owned, NamesOthers
  <2>3. names[x][i] \notin freed
    <3>1. CASE x = ib
      BY <1>3, <3>1
    <3>2. CASE x # ib
      BY <1>1, <2>1, <3>2
    <3> QED
      BY <3>1, <3>2
  <2> HIDE DEF ib
  <2> QED
    BY <1>1, <1>4, <2>1, <2>2, <2>3
<1>7. Owned(W2, F2, sliced, X2)
  BY <1>5, <1>6, OwnedLess DEF OwnInv, OwnedNow
<1>8. OwnedNow'
  BY <1>2, <1>7 DEF OwnedNow
<1>9. Sane'
  <2>1. \A x \in Unsliced(sliced'), i \in Entry :
             \/ bytes'[x][i] = NoFile
             \/ x \notin sliced /\ words'[x][i] = words[x][i] /\ bytes'[x][i] = bytes[x][i]
    BY UnslicedIs DEF Gives, Unsliced
  <2>2. IndexSet' \subseteq IndexSet
    OBVIOUS
  <2> QED
    BY <1>8, <2>1, <2>2, SaneStays
<1> QED
  BY <1>8, <1>9

LEMMA OpenTruncGives ==
    ASSUME Types, OwnInv, NEW f \in Files, OpenTrunc(f)
    PROVE  /\ f \in Indexed /\ exposed' = exposed \cup {f}
           /\ \E freed : /\ Gives(index_block[f], freed)
                         /\ bfree_bitmap' = bfree_bitmap \cup freed
                         /\ \A i \in Entry : \/ names'[index_block[f]][i] = names[index_block[f]][i]
                                             \/ names[index_block[f]][i] \in freed
           /\ UNCHANGED <<sliced, linked, index_block, num_slices, i_blocks>>
           /\ pc = "idle" /\ pc' = pc
<1> DEFINE ib == index_block[f]
           gone == LeadingEntries(words[ib])
           freed == {names[ib][i] : i \in gone} \ {0}
<1>1. /\ f \in linked /\ i_blocks[f] # 0 /\ pc = "idle" /\ pc' = pc /\ exposed' = exposed \cup {f}
      /\ UNCHANGED <<sliced, linked, index_block, num_slices, i_blocks>>
  BY DEF OpenTrunc, MayCall, is_small_file
<1>2. f \in Indexed
  BY <1>1 DEF OwnInv, AllConsistent, Consistent, Indexed
<1>3. gone \subseteq Entry /\ \A i \in gone : words[ib][i] # 0
  BY Geometry DEF LeadingEntries, Entry
<1>4. freed \subseteq {names[ib][i] : i \in Entry} \ {0}
  BY <1>3
<1>5. /\ ib \in IndexSet /\ ib \in OnDisk /\ ib \in Unsliced(sliced)
      /\ freed \subseteq Data \ IndexSet
  <2> HIDE DEF freed
  <2> QED
    BY <1>2, <1>4, FreedIs
<1>6. bfree_bitmap' = bfree_bitmap \cup freed
  <2>1. bfree_bitmap' = bfree_bitmap \cup InRange({words[ib][i] : i \in gone})
    BY DEF OpenTrunc, PutBlocks
  <2>2. InRange({words[ib][i] : i \in gone}) = freed
    <3>1. gone \subseteq {i \in Entry : words[ib][i] # 0}
      BY <1>3
    <3> HIDE DEF gone, ib
    <3> QED
      BY <1>5, <3>1, WordsInRange
  <2> QED
    BY <2>1, <2>2
<1>7. /\ words' = [words EXCEPT ![ib] = Cleared(words[ib], gone, 0)]
      /\ bytes' = [bytes EXCEPT ![ib] = Cleared(bytes[ib], gone, NoFile)]
  BY DEF OpenTrunc
<1>8. \A x \in OnDisk \ {ib} : words'[x] = words[x] /\ bytes'[x] = bytes[x]
  BY <1>7 DEF Types, BlockTypes
<1>9. words'[ib] = Cleared(words[ib], gone, 0) /\ bytes'[ib] = Cleared(bytes[ib], gone, NoFile)
  BY <1>5, <1>7 DEF Types, BlockTypes
<1> HIDE DEF gone, ib
<1>10. \A i \in Entry : \/ i \in gone /\ words'[ib][i] = 0 /\ bytes'[ib][i] = NoFile
                        \/ i \notin gone /\ words'[ib][i] = words[ib][i] /\ bytes'[ib][i] = bytes[ib][i]
  BY <1>9, ClearedIs
<1>11. \A x \in OnDisk, i \in Entry : \/ words'[x][i] = words[x][i] /\ bytes'[x][i] = bytes[x][i]
                                      \/ words'[x][i] = 0 /\ bytes'[x][i] = NoFile
  BY <1>8, <1>10
<1>12. \A i \in Entry : \/ i \in gone /\ names'[ib][i] = 0
                        \/ i \notin gone /\ names'[ib][i] = names[ib][i]
  BY <1>5, <1>10, NamesAre
<1>13. \A i \in Entry : names'[ib][i] # 0 => names[ib][i] \notin freed
  <2> SUFFICES ASSUME NEW i \in Entry, names'[ib][i] # 0, NEW j \in gone, names[ib][i] = names[ib][j]
               PROVE  FALSE
    OBVIOUS
  <2>1. i \notin gone /\ names[ib][i] # 0 /\ j \in Entry
    BY <1>3, <1>12
  <2>2. NamesOnce(names, sliced)
    BY DEF OwnInv, OwnedNow, Owned
  <2>3. i = j
    BY <1>5, <2>1, <2>2 DEF NamesOnce
  <2> QED
    BY <2>1, <2>3
<1>14. \A i \in Entry : names'[ib][i] = names[ib][i] \/ names[ib][i] \in freed
  BY <1>12
<1> HIDE DEF freed
<1>15. Gives(ib, freed)
  BY <1>4, <1>6, <1>8, <1>11, <1>13 DEF Gives
<1> QED
  BY <1>1, <1>2, <1>6, <1>14, <1>15 DEF ib

LEMMA ClearInodeIs ==
    ASSUME Types, OwnInv, NEW f \in linked, ClearInode(f)
    PROVE  /\ linked' = linked \ {f} /\ Indexed' = Indexed \ {f}
           /\ IndexSet' = IF f \in Indexed THEN IndexSet \ {index_block[f]} ELSE IndexSet
           /\ OneIndexEach'
           /\ \A g \in linked' : /\ index_block'[g] = index_block[g] /\ num_slices'[g] = num_slices[g]
                                 /\ i_blocks'[g] = i_blocks[g] /\ i_size'[g] = i_size[g]
<1>1. /\ linked' = linked \ {f} /\ num_slices' = num_slices
      /\ \A g \in linked' : /\ index_block'[g] = index_block[g] /\ num_slices'[g] = num_slices[g]
                            /\ i_blocks'[g] = i_blocks[g] /\ i_size'[g] = i_size[g]
  BY DEF ClearInode, Types, InodeTypes
<1>2. Indexed' = Indexed \ {f}
  BY <1>1 DEF Indexed
<1>3. \A g \in Indexed' : index_block'[g] = index_block[g] /\ g \in Indexed
  BY <1>1, <1>2 DEF Indexed
<1>4. OneIndexEach'
  BY <1>3 DEF OwnInv, OneIndexEach
<1>5. IndexSet' = {index_block[g] : g \in Indexed \ {f}}
  BY <1>2, <1>3 DEF IndexSet
<1>6. IndexSet' = IF f \in Indexed THEN IndexSet \ {index_block[f]} ELSE IndexSet
  BY <1>5 DEF IndexSet, OwnInv, OneIndexEach
<1> QED
  BY <1>1, <1>2, <1>4, <1>6

LEMMA OwnTrunc ==
    ASSUME Types, OwnInv, NEW f \in Files, OpenTrunc(f)
    PROVE  OwnInv'
<1>1. /\ f \in Indexed /\ UNCHANGED <<sliced, linked, index_block, num_slices, i_blocks>>
      /\ pc = "idle" /\ pc' = pc
  BY OpenTruncGives
<1>2. PICK freed : Gives(index_block[f], freed) /\ bfree_bitmap' = bfree_bitmap \cup freed
  BY OpenTruncGives
<1>3. Indexed' = Indexed /\ IndexSet' = IndexSet /\ OneIndexEach'
  BY <1>1, SameIndexes DEF OwnInv
<1>4. OwnedNow' /\ Sane'
  BY <1>1, <1>2, <1>3, OwnedFreed
<1>5. AllConsistent'
  BY <1>1 DEF OwnInv, AllConsistent, Consistent, GetBno, GetSlice
<1> QED
  BY <1>1, <1>3, <1>4, <1>5 DEF OwnInv, LoopIndexed

LEMMA UnlinkBigGives ==
    ASSUME Types, OwnInv, NEW f \in Files, UnlinkBig(f) \/ UnlinkBlind(f)
    PROVE  /\ f \in Indexed /\ f \in linked /\ i_blocks[f] # 0 /\ ClearInode(f)
           /\ \E freed : /\ Gives(index_block[f], freed)
                         /\ bfree_bitmap' = bfree_bitmap \cup freed \cup {index_block[f]}
                         /\ f \in exposed' \/ \A b \in freed, k \in Entry : bytes'[b][k] = NoFile
                         /\ \/ UnlinkBlind(f)
                            \/ \A i \in Entry : names[index_block[f]][i] # 0 /\ i < i_blocks[f] - 1
                                                => names[index_block[f]][i] \in freed
           /\ exposed \subseteq exposed' /\ sliced' = sliced /\ pc = "idle" /\ pc' = pc
<1> DEFINE ib == index_block[f]
<1>1. /\ f \in linked /\ i_blocks[f] # 0 /\ pc = "idle" /\ pc' = pc /\ sliced' = sliced
      /\ ClearInode(f) /\ exposed \subseteq exposed'
  BY DEF UnlinkBig, UnlinkBlind, MayCall, is_small_file
<1>2. f \in Indexed
  BY <1>1 DEF OwnInv, AllConsistent, Consistent, Indexed
<1>3. ib \in IndexSet /\ ib \in Data /\ ib \in OnDisk /\ ib \in Unsliced(sliced)
  <2>1. {} \subseteq {names[ib][i] : i \in Entry} \ {0}
    OBVIOUS
  <2> QED
    BY <1>2, <2>1, FreedIs
<1>4. CASE UnlinkBig(f)
  <2> DEFINE used == UsedEntries(words[ib], i_blocks[f] - 1)
             listed == Named(words[ib], i_blocks[f] - 1)
             freed == {names[ib][i] : i \in used} \ {0}
  <2>1. PICK unread \in Unread(listed) :
           LET scrub == Scrubbed(ib, listed \ unread)
           IN /\ words' = [b \in DOMAIN words |-> IF b \in scrub THEN NoWords ELSE words[b]]
              /\ bytes' = [b \in DOMAIN bytes |-> IF b \in scrub THEN NoBytes ELSE bytes[b]]
              /\ exposed' = IF unread = {} THEN exposed ELSE exposed \cup {f}
    BY <1>4 DEF UnlinkBig
  <2>2. used \subseteq {i \in Entry : words[ib][i] # 0} /\ listed = {words[ib][i] : i \in used}
    BY DEF Named, UsedEntries
  <2>3. freed \subseteq {names[ib][i] : i \in Entry} \ {0}
    BY <2>2
  <2>4. freed \subseteq Data \ IndexSet
    <3> HIDE DEF freed
    <3> QED
      BY <1>2, <2>3, FreedIs
  <2>5. InRange(listed) = freed
    <3> HIDE DEF used, listed, ib
    <3> QED
      BY <1>3, <2>2, WordsInRange
  <2>6. bfree_bitmap' = bfree_bitmap \cup freed \cup {ib}
    <3>1. bfree_bitmap' = bfree_bitmap \cup InRange({ib} \cup listed)
      BY <1>4 DEF UnlinkBig, PutBlocks
    <3>2. InRange({ib}) = {ib}
      BY <1>3, InRangeData
    <3> HIDE DEF freed, listed, ib
    <3>3. InRange({ib} \cup listed) = {ib} \cup freed
      BY <2>5, <3>2 DEF InRange
    <3> QED
      BY <3>1, <3>3
  <2>7. \A i \in Entry : names[ib][i] # 0 /\ i < i_blocks[f] - 1 => names[ib][i] \in freed
    <3> SUFFICES ASSUME NEW i \in Entry, names[ib][i] # 0, i < i_blocks[f] - 1 PROVE i \in used
      OBVIOUS
    <3>1. words[ib][i] # 0
      BY <1>3, NamesAre
    <3> QED
      BY <3>1 DEF UsedEntries
  <2>8. \A x \in OnDisk : x \in listed => x \in freed
    <3> HIDE DEF freed, listed
    <3>1. OnDisk \subseteq 0..NrBlocks
      BY Geometry DEF OnDisk
    <3> QED
      BY <2>5, <3>1 DEF InRange
  <2>9. freed \subseteq listed /\ freed \subseteq OnDisk
    <3> HIDE DEF freed, listed
    <3> QED
      BY <2>4, <2>5, Geometry DEF InRange
  <2> HIDE DEF freed, listed, used, ib
  <2>10. /\ \A b \in OnDisk : words'[b] = IF b \in {ib} \cup (listed \ unread) THEN NoWords ELSE words[b]
         /\ \A b \in OnDisk : bytes'[b] = IF b \in {ib} \cup (listed \ unread) THEN NoBytes ELSE bytes[b]
    BY <2>1 DEF Scrubbed, Types, BlockTypes
  <2>11. \A x \in OnDisk, i \in Entry : \/ words'[x][i] = words[x][i] /\ bytes'[x][i] = bytes[x][i]
                                        \/ words'[x][i] = 0 /\ bytes'[x][i] = NoFile
    BY <2>10 DEF NoWords, NoBytes
  <2>12. \A x \in OnDisk \ (freed \cup {ib}) : words'[x] = words[x] /\ bytes'[x] = bytes[x]
    BY <2>8, <2>10
  <2>13. \A i \in Entry : names'[ib][i] = 0
    <3>1. \A i \in Entry : words'[ib][i] = 0
      BY <1>3, <2>10 DEF NoWords
    <3> QED
      BY <1>3, <3>1, NamesAre
  <2>14. Gives(ib, freed)
    BY <2>3, <2>6, <2>11, <2>12, <2>13 DEF Gives, ib
  <2>15. f \in exposed' \/ \A b \in freed, k \in Entry : bytes'[b][k] = NoFile
    <3>1. CASE unread # {}
      BY <2>1, <3>1
    <3>2. CASE unread = {}
      BY <2>9, <2>10, <3>2 DEF NoBytes
    <3> QED
      BY <3>1, <3>2
  <2> QED
    BY <1>1, <1>2, <2>6, <2>7, <2>14, <2>15 DEF ib
<1>5. CASE UnlinkBlind(f)
  <2>1. words' = words /\ bytes' = bytes /\ f \in exposed'
    BY <1>5 DEF UnlinkBlind, blockvars
  <2>2. bfree_bitmap' = bfree_bitmap \cup {} \cup {ib}
    <3>1. bfree_bitmap' = bfree_bitmap \cup InRange({ib})
      BY <1>5 DEF UnlinkBlind, PutBlocks
    <3>2. InRange({ib}) = {ib}
      BY <1>3, InRangeData
    <3> QED
      BY <3>1, <3>2
  <2>3. Gives(ib, {})
    BY <2>1, <2>2 DEF Gives
  <2> QED
    BY <1>1, <1>2, <1>5, <2>1, <2>2, <2>3
<1> QED
  BY <1>4, <1>5

LEMMA OwnUnlinkBig ==
    ASSUME Types, OwnInv, NEW f \in Files, UnlinkBig(f) \/ UnlinkBlind(f)
    PROVE  OwnInv'
<1>1. /\ f \in Indexed /\ f \in linked /\ ClearInode(f)
      /\ sliced' = sliced /\ pc = "idle" /\ pc' = pc
  BY UnlinkBigGives
<1>2. PICK freed : Gives(index_block[f], freed) /\ bfree_bitmap' = bfree_bitmap \cup freed \cup {index_block[f]}
  BY UnlinkBigGives
<1>3. /\ linked' = linked \ {f} /\ IndexSet' = IndexSet \ {index_block[f]} /\ OneIndexEach'
      /\ \A g \in linked' : /\ index_block'[g] = index_block[g] /\ num_slices'[g] = num_slices[g]
                            /\ i_blocks'[g] = i_blocks[g]
  BY <1>1, ClearInodeIs
<1>4. OwnedNow' /\ Sane'
  BY <1>1, <1>2, <1>3, OwnedFreed
<1>5. AllConsistent'
  BY <1>1, <1>3, StaysConsistent DEF OwnInv, AllConsistent
<1> QED
  BY <1>1, <1>3, <1>4, <1>5 DEF OwnInv, LoopIndexed

\* A file has a place just if it has slices, and then its first slice is one.
LEMMA PlaceIs ==
    ASSUME Types, AllConsistent, NEW g \in linked, num_slices[g] # 0
    PROVE  <<GetBno(g), GetSlice(g)>> \in PlaceOf(g) /\ GetSlice(g) \in Slice
<1>1. i_blocks[g] = 0 /\ GetSlice(g) \in Slice
  BY DEF AllConsistent, Consistent
<1>2. GetSlice(g) \in Nat /\ num_slices[g] \in Nat
  BY <1>1, Geometry DEF Types, InodeTypes
<1>3. GetSlice(g) \in GetSlice(g)..(GetSlice(g) + num_slices[g] - 1)
  BY <1>2
<1>4. <<GetBno(g), GetSlice(g)>> \in PlaceOf(g)
  BY <1>1, <1>3 DEF PlaceOf, is_small_file
<1> QED
  BY <1>1, <1>4

\* Sliced blocks that no other file needs are scrubbed and given back.
LEMMA DeleteSliceIs ==
    ASSUME Types, OwnInv, NEW f \in linked, DeleteSlice(f)
    PROVE  \E gone \in SUBSET sliced :
             /\ bfree_bitmap' = bfree_bitmap \cup gone /\ sliced' = sliced \ gone
             /\ \A g \in linked \ {f} : num_slices[g] # 0 => GetBno(g) \notin gone
             /\ \A b \in gone, k \in Entry : words'[b][k] = 0 /\ bytes'[b][k] = NoFile
             /\ \A x \in OnDisk \ sliced : words'[x] = words[x] /\ bytes'[x] = bytes[x]
<1> DEFINE b == GetBno(f)
           mine == {s \in Slice : <<b, s>> \in PlaceOf(f)}
<1>0. sliced \subseteq Data /\ sliced \subseteq OnDisk
  BY Geometry DEF OwnInv, OwnedNow, Owned, Apart
<1>1. CASE UNCHANGED <<bfree_bitmap, sliced, words, bytes>>
  <2>1. /\ bfree_bitmap' = bfree_bitmap \cup {} /\ sliced' = sliced \ {} /\ {} \in SUBSET sliced
        /\ \A x \in OnDisk \ sliced : words'[x] = words[x] /\ bytes'[x] = bytes[x]
    BY <1>1
  <2> QED
    BY <2>1
<1>2. ASSUME PlaceOf(f) # {}, Readable(b), NEW gone \in Walked(Vacant(f)),
             PutBlocks(gone, Cardinality(gone)), sliced' = sliced \ gone,
             words' = [c \in DOMAIN words |-> IF c \in gone THEN NoWords ELSE words[c]],
             bytes' = [c \in DOMAIN bytes |->
                         CASE c \in gone -> NoBytes
                           [] c = b /\ c \notin gone -> Mark(bytes[c], mine, NoFile)
                           [] OTHER -> bytes[c]]
      PROVE  \E S \in SUBSET sliced :
             /\ bfree_bitmap' = bfree_bitmap \cup S /\ sliced' = sliced \ S
             /\ \A g \in linked \ {f} : num_slices[g] # 0 => GetBno(g) \notin S
             /\ \A c \in S, k \in Entry : words'[c][k] = 0 /\ bytes'[c][k] = NoFile
             /\ \A x \in OnDisk \ sliced : words'[x] = words[x] /\ bytes'[x] = bytes[x]
  <2>1. gone \subseteq Vacant(f) /\ Vacant(f) \subseteq sliced
    BY <1>2 DEF Walked, Vacant
  <2>2. num_slices[f] # 0
    BY <1>2 DEF PlaceOf
  <2>3. b \in sliced
    BY <2>2 DEF OwnInv, AllConsistent, Consistent
  <2>4. bfree_bitmap' = bfree_bitmap \cup gone
    <3>1. gone \subseteq Data
      BY <1>0, <2>1
    <3> QED
      BY <1>2, <3>1, InRangeData DEF PutBlocks
  <2>5. ASSUME NEW g \in linked \ {f}, num_slices[g] # 0 PROVE GetBno(g) \notin gone
    <3>1. <<GetBno(g), GetSlice(g)>> \in PlaceOf(g) /\ GetSlice(g) \in Slice
      BY <2>5, PlaceIs DEF OwnInv
    <3>2. <<GetBno(g), GetSlice(g)>> \in Taken(linked \ {f})
      BY <3>1 DEF Taken
    <3>3. GetBno(g) \notin Vacant(f)
      BY <3>1, <3>2 DEF Vacant
    <3> QED
      BY <2>1, <3>3
  <2> HIDE DEF b, mine
  <2>6. ASSUME NEW c \in gone, NEW k \in Entry PROVE words'[c][k] = 0 /\ bytes'[c][k] = NoFile
    <3>1. c \in DOMAIN words /\ c \in DOMAIN bytes
      BY <1>0, <2>1 DEF Types, BlockTypes
    <3>2. words'[c] = NoWords /\ bytes'[c] = NoBytes
      BY <1>2, <3>1
    <3> QED
      BY <3>2 DEF NoWords, NoBytes
  <2>7. ASSUME NEW x \in OnDisk \ sliced PROVE words'[x] = words[x] /\ bytes'[x] = bytes[x]
    <3>1. x \in DOMAIN words /\ x \in DOMAIN bytes /\ x \notin gone /\ x # b
      BY <1>0, <2>1, <2>3 DEF Types, BlockTypes
    <3> QED
      BY <1>2, <3>1
  <2> QED
    BY <1>2, <2>1, <2>4, <2>5, <2>6, <2>7
<1>3. CASE \E gone \in Walked(Vacant(f)) :
               /\ PutBlocks(gone, Cardinality(gone)) /\ sliced' = sliced \ gone
               /\ words' = [c \in DOMAIN words |-> IF c \in gone THEN NoWords ELSE words[c]]
               /\ bytes' = [c \in DOMAIN bytes |->
                              CASE c \in gone -> NoBytes
                                [] c = b /\ c \notin gone -> Mark(bytes[c], mine, NoFile)
                                [] OTHER -> bytes[c]]
               /\ PlaceOf(f) # {} /\ Readable(b)
  BY <1>2, <1>3
<1> QED
  BY <1>1, <1>3 DEF DeleteSlice, sbvars, blockvars

LEMMA OwnUnlinkSmall ==
    ASSUME Types, OwnInv, NEW f \in Files, UnlinkSmall(f)
    PROVE  OwnInv'
<1>1. f \in linked /\ DeleteSlice(f) /\ ClearInode(f) /\ pc = "idle" /\ pc' = pc
  BY DEF UnlinkSmall, MayCall
<1>2. /\ linked' = linked \ {f} /\ OneIndexEach'
      /\ IndexSet' = IF f \in Indexed THEN IndexSet \ {index_block[f]} ELSE IndexSet
      /\ \A g \in linked' : /\ index_block'[g] = index_block[g] /\ num_slices'[g] = num_slices[g]
                            /\ i_blocks'[g] = i_blocks[g]
  BY <1>1, ClearInodeIs
<1>3. PICK gone \in SUBSET sliced :
             /\ bfree_bitmap' = bfree_bitmap \cup gone /\ sliced' = sliced \ gone
             /\ \A g \in linked \ {f} : num_slices[g] # 0 => GetBno(g) \notin gone
             /\ \A b \in gone, k \in Entry : words'[b][k] = 0 /\ bytes'[b][k] = NoFile
             /\ \A x \in OnDisk \ sliced : words'[x] = words[x] /\ bytes'[x] = bytes[x]
  BY <1>1, DeleteSliceIs
<1>4. PICK W2, F2, S2, X2 : W2 = names' /\ F2 = bfree_bitmap' /\ S2 = sliced' /\ X2 = IndexSet'
  OBVIOUS
<1>5. X2 \subseteq IndexSet /\ Apart(bfree_bitmap, sliced, IndexSet)
  BY <1>2, <1>4 DEF OwnInv, OwnedNow, Owned
<1>6. Apart(F2, S2, X2)
  BY <1>3, <1>4, <1>5 DEF Apart
<1>7. \A x \in Unsliced(sliced') : x \in gone \/ x \in OnDisk \ sliced
  BY <1>3, UnslicedIs DEF Unsliced
<1>8. Fewer(names, sliced, W2, F2, S2, X2)
  <2> SUFFICES ASSUME NEW x \in Unsliced(S2), NEW i \in Entry, W2[x][i] # 0
               PROVE  /\ x \in Unsliced(sliced) /\ W2[x][i] = names[x][i]
                      /\ W2[x][i] \notin F2 \cup S2 \cup X2
    BY DEF Fewer
  <2>1. x \in OnDisk
    BY UnslicedIs
  <2>2. x \notin gone
    BY <1>3, <1>4, <2>1, NamesAre
  <2>3. x \in OnDisk \ sliced /\ x \in Unsliced(sliced)
    BY <1>4, <1>7, <2>2 DEF Unsliced
  <2>4. W2[x][i] = names[x][i]
    BY <1>3, <1>4, <2>3, NamesAre
  <2>5. names[x][i] \in Data \ (bfree_bitmap \cup sliced \cup IndexSet)
    BY <2>3, <2>4 DEF OwnInv, OwnedNow, Owned, NamesOthers
  <2> QED
    BY <1>3, <1>4, <1>5, <2>3, <2>4, <2>5
<1>9. OwnedNow'
  BY <1>4, <1>6, <1>8, OwnedLess DEF OwnInv, OwnedNow
<1>10. Sane'
  <2>1. \A x \in Unsliced(sliced'), i \in Entry :
             \/ bytes'[x][i] = NoFile
             \/ x \notin sliced /\ words'[x][i] = words[x][i] /\ bytes'[x][i] = bytes[x][i]
    BY <1>3, <1>7
  <2> QED
    BY <1>4, <1>5, <1>9, <2>1, SaneStays
<1>11. AllConsistent'
  <2> SUFFICES ASSUME NEW g \in linked' PROVE Consistent(g)'
    BY DEF AllConsistent
  <2>1. g \in linked \ {f} /\ Consistent(g)
    BY <1>2 DEF OwnInv, AllConsistent
  <2> QED
    BY <1>2, <1>3, <2>1 DEF Consistent, GetBno, GetSlice
<1> QED
  BY <1>1, <1>2, <1>9, <1>10, <1>11 DEF OwnInv, LoopIndexed

LEMMA OwnInit == Init => OwnInv
<1> SUFFICES ASSUME Init PROVE OwnInv
  OBVIOUS
<1>1. Indexed = {} /\ IndexSet = {}
  BY DEF Init, Indexed, IndexSet
<1>2. Apart(bfree_bitmap, sliced, IndexSet)
  BY <1>1 DEF Init, Apart, Data
<1>3. \A x \in OnDisk, i \in Entry : words[x][i] = 0 /\ bytes[x][i] = NoFile
  BY DEF Init, OnDisk, NoWords, NoBytes
<1>4. \A x \in Unsliced(sliced), i \in Entry : names[x][i] = 0 /\ bytes[x][i] = NoFile
  BY <1>3, UnslicedIs, NamesAre
<1>5. OwnedNow
  BY <1>2, <1>4 DEF OwnedNow, Owned, NamesOthers, NamesOnce
<1>6. Sane
  BY <1>1, <1>4 DEF Sane, IndexSane, ZeroIsNobodys
<1> QED
  BY <1>1, <1>5, <1>6 DEF Init, OwnInv, OneIndexEach, AllConsistent, LoopIndexed

\* The two ways in which a word that is no block number of the file's becomes one.
Misread == Repack \/ StaleIndex

LEMMA OwnNext == Types /\ OwnInv /\ [Next]_vars /\ [~Misread]_vars => OwnInv'
<1> SUFFICES ASSUME Types, OwnInv, [Next]_vars, [~Misread]_vars PROVE OwnInv'
  OBVIOUS
<1>1. CASE UNCHANGED vars
  <2>1. UNCHANGED <<linked, index_block, num_slices, i_blocks, sliced, words, bytes, bfree_bitmap, pc, req>>
    BY <1>1 DEF vars, sbvars, blockvars, inodevars
  <2> QED
    BY <2>1, OwnQuiet DEF OwnInv, LoopIndexed
<1>2. CASE HandlerStep
  BY <1>2, OwnLoopStep, OwnLoopEnds DEF HandlerStep
<1>3. CASE Call /\ ~Repack /\ ~StaleIndex
  <2>1. CASE \E f \in Files : \/ Create(f) \/ OpenTrunc(f) \/ OpenTruncError(f)
                              \/ UnlinkSmall(f) \/ UnlinkBig(f) \/ UnlinkBlind(f)
    <3>1. PICK f \in Files : \/ Create(f) \/ OpenTrunc(f) \/ OpenTruncError(f)
                              \/ UnlinkSmall(f) \/ UnlinkBig(f) \/ UnlinkBlind(f)
      BY <2>1
    <3>2. CASE OpenTruncError(f)
      BY <1>1, <3>2 DEF OpenTruncError
    <3> QED
      BY <3>1, <3>2, OwnCreate, OwnTrunc, OwnUnlinkSmall, OwnUnlinkBig
  <2>2. CASE \E f \in Files, ki_pos \in Offsets, count \in Counts :
               \/ ConvertRefused(f, ki_pos, count)
               \/ \E append \in Appends : BigRefused(f, ki_pos, count, append)
    BY <1>1, <2>2 DEF ConvertRefused, BigRefused
  <2>3. CASE \E f \in Files, ki_pos \in Offsets, count \in Counts :
               \/ WriteSmall(f, ki_pos, count)
               \/ \E append \in Appends, data \in Words : BigFirst(f, ki_pos, count, append, data)
    BY <1>3, <2>3, OwnWriteSmall, OwnBigFirst
  <2>4. CASE \E f \in Files, ki_pos \in Offsets, count \in Counts :
               \/ WriteSmallNoSpace(f, ki_pos, count) \/ BigNoIndex(f, ki_pos, count)
               \/ \E append \in Appends, data \in Words :
                    \/ BigAgain(f, ki_pos, count, append, data)
                    \/ Convert(f, ki_pos, count, append, data)
    BY <1>3, <2>4, OwnOtherCalls
  <2> QED
    BY <1>3, <2>1, <2>2, <2>3, <2>4 DEF Call
<1> QED
  BY <1>1, <1>2, <1>3 DEF Next, Misread

\* The files with an index block, as the properties name them.
LEMMA HasIndexIs ==
    ASSUME Types, OwnInv, NEW f \in Files
    PROVE  HasIndex(f) <=> f \in Indexed
BY DEF HasIndex, Indexed, OwnInv, AllConsistent, Consistent, is_small_file

LEMMA DataBlocksAre ==
    ASSUME Types, OwnInv, NEW f \in Indexed
    PROVE  /\ DataBlocks(f) = {names[index_block[f]][i] : i \in Entry} \ {0}
           /\ DataEntries(f) = {i \in Entry : names[index_block[f]][i] # 0}
<1> DEFINE ib == index_block[f]
<1>1. ib \in IndexSet /\ ib \in OnDisk /\ ib \in Unsliced(sliced)
  BY Geometry DEF IndexSet, OwnInv, OwnedNow, Owned, Apart, Unsliced
<1>2. UsedEntries(words[ib], IndexLen) = {i \in Entry : words[ib][i] # 0}
  BY Geometry DEF UsedEntries, Entry
<1>3. \A i \in Entry : names[ib][i] # 0 => names[ib][i] = words[ib][i] /\ words[ib][i] <= NrBlocks
  <2> SUFFICES ASSUME NEW i \in Entry, names[ib][i] # 0
               PROVE  names[ib][i] = words[ib][i] /\ words[ib][i] <= NrBlocks
    OBVIOUS
  <2>1. names[ib][i] = words[ib][i]
    BY <1>1, NamesAre
  <2>2. names[ib][i] \in Data
    BY <1>1 DEF OwnInv, OwnedNow, Owned, NamesOthers
  <2> QED
    BY <2>1, <2>2, Geometry DEF Data
<1>4. \A i \in Entry : words[ib][i] # 0 /\ words[ib][i] <= NrBlocks => words[ib][i] = names[ib][i]
  <2> SUFFICES ASSUME NEW i \in Entry, words[ib][i] <= NrBlocks, words[ib][i] # names[ib][i] PROVE FALSE
    OBVIOUS
  <2>1. words[ib][i] > NrBlocks /\ words[ib][i] \in Nat
    BY <1>1 DEF OwnInv, Sane, IndexSane, Types, BlockTypes, IndexWordsType
  <2> QED
    BY <2>1, Geometry
<1>5. DataEntries(f) = {i \in Entry : names[ib][i] # 0}
  BY <1>2, <1>3, <1>4 DEF DataEntries
<1>6. DataBlocks(f) = {words[ib][i] : i \in {j \in Entry : names[ib][j] # 0}}
  BY <1>5 DEF DataBlocks
<1> QED
  BY <1>3, <1>5, <1>6

LEMMA OnceEach ==
    ASSUME NEW w, \A i, j \in Entry : w[i] # 0 /\ w[i] = w[j] => i = j
    PROVE  Cardinality({i \in Entry : w[i] # 0}) = Cardinality({w[i] : i \in {j \in Entry : w[j] # 0}})
<1> DEFINE U == {i \in Entry : w[i] # 0}
           V == {w[i] : i \in U}
           m == [i \in U |-> w[i]]
<1>1. IsFiniteSet(U)
  <2>1. IsFiniteSet(Entry)
    BY FS_Interval, Geometry DEF Entry
  <2> QED
    BY <2>1, FS_Subset
<1>2. m \in Bijection(U, V)
  <2>1. m \in [U -> V] /\ \A i, j \in U : m[i] = m[j] => i = j
    OBVIOUS
  <2>2. \A v \in V : \E i \in U : m[i] = v
    OBVIOUS
  <2> QED
    BY <2>1, <2>2 DEF Bijection, Injection, Surjection, IsInjective
<1>3. ExistsBijection(U, V)
  BY <1>2 DEF ExistsBijection
<1> HIDE DEF U, V, m
<1>4. Cardinality(V) = Cardinality(U)
  BY <1>1, <1>3, FS_Bijection
<1> QED
  BY <1>4 DEF U, V

LEMMA OwnedOnce == Types /\ OwnInv => BlocksOwnedOnce
<1> SUFFICES ASSUME Types, OwnInv, NEW f \in Files, HasIndex(f)
             PROVE  /\ OwnBlocks(f) \subseteq (Reserved..(NrBlocks - 1)) \ (bfree_bitmap \cup sliced)
                    /\ index_block[f] \notin DataBlocks(f)
                    /\ Cardinality(DataEntries(f)) = Cardinality(DataBlocks(f))
                    /\ \A g \in Files \ {f} : OwnBlocks(f) \cap OwnBlocks(g) = {}
  BY DEF BlocksOwnedOnce
<1> DEFINE ib == index_block[f]
<1>1. f \in Indexed
  BY HasIndexIs
<1>2. ASSUME NEW g \in Indexed
      PROVE  /\ index_block[g] \in Data \ (bfree_bitmap \cup sliced) /\ index_block[g] \in IndexSet
             /\ index_block[g] \in Unsliced(sliced)
             /\ DataBlocks(g) \subseteq Data \ (bfree_bitmap \cup sliced \cup IndexSet)
             /\ DataBlocks(g) = {names[index_block[g]][i] : i \in Entry} \ {0}
  BY <1>2, DataBlocksAre, FreedIs
<1>3. OwnBlocks(f) = {ib} \cup DataBlocks(f)
  BY DEF OwnBlocks
<1>4. OwnBlocks(f) \subseteq Data \ (bfree_bitmap \cup sliced)
  BY <1>1, <1>2, <1>3
<1>5. ib \notin DataBlocks(f)
  BY <1>1, <1>2
<1>6. NamesOnce(names, sliced)
  BY DEF OwnInv, OwnedNow, Owned
<1>7. Cardinality(DataEntries(f)) = Cardinality(DataBlocks(f))
  <2>1. \A i, j \in Entry : names[ib][i] # 0 /\ names[ib][i] = names[ib][j] => i = j
    BY <1>1, <1>2, <1>6 DEF NamesOnce
  <2>2. DataBlocks(f) = {names[ib][i] : i \in {j \in Entry : names[ib][j] # 0}}
    BY <1>1, <1>2
  <2>3. DataEntries(f) = {i \in Entry : names[ib][i] # 0}
    BY <1>1, DataBlocksAre
  <2>4. PICK w : w = names[ib]
    OBVIOUS
  <2>5. Cardinality({i \in Entry : w[i] # 0}) = Cardinality({w[i] : i \in {j \in Entry : w[j] # 0}})
    BY <2>1, <2>4, OnceEach
  <2> QED
    BY <2>2, <2>3, <2>4, <2>5
<1>8. ASSUME NEW g \in Files \ {f} PROVE OwnBlocks(f) \cap OwnBlocks(g) = {}
  <2>1. CASE ~HasIndex(g)
    BY <2>1 DEF OwnBlocks
  <2>2. CASE HasIndex(g)
    <3>1. g \in Indexed /\ OwnBlocks(g) = {index_block[g]} \cup DataBlocks(g)
      BY <2>2, HasIndexIs DEF OwnBlocks
    <3>2. index_block[g] # ib
      BY <1>1, <1>8, <3>1 DEF OwnInv, OneIndexEach
    <3>3. ASSUME NEW b \in DataBlocks(f), b \in DataBlocks(g) PROVE FALSE
      <4>1. PICK i \in Entry : b = names[ib][i] /\ b # 0
        BY <1>1, <1>2
      <4>2. PICK j \in Entry : b = names[index_block[g]][j]
        BY <1>2, <3>1, <3>3
      <4>3. /\ ib \in Unsliced(sliced) /\ index_block[g] \in Unsliced(sliced)
            /\ names[ib][i] # 0 /\ names[ib][i] = names[index_block[g]][j]
        BY <1>1, <1>2, <3>1, <4>1, <4>2
      <4>4. ib = index_block[g]
        BY <1>6, <4>3 DEF NamesOnce
      <4> QED
        BY <3>2, <4>4
    <3> QED
      BY <1>1, <1>2, <1>3, <3>1, <3>2, <3>3
  <2> QED
    BY <2>1, <2>2
<1> QED
  BY <1>4, <1>5, <1>7, <1>8 DEF Data

(* Every block of a big file is marked used, sliced for nobody, and in one  *)
(* place of one file, on a partition of any size, as long as no word that   *)
(* is something else is taken for a block number: no conversion takes a     *)
(* packed number for a block, and no first write takes an index block that  *)
(* begins with a truncated file's data that looks like block numbers.       *)
THEOREM BlocksAreOwnedOnce == Spec /\ [][~Misread]_vars => []BlocksOwnedOnce
BY TypesInit, TypesNext, OwnInit, OwnNext, OwnedOnce, PTL DEF Spec
-----------------------------------------------------------------------------
(* Whose bytes a block holds *)

\* A block that may be given out, or is named: every block that a file may come
\* to have.  (An index block that unlink lost is neither.)
NamedBy(y, x) == \E j \in Entry : names[y][j] = x
Reached(x) == x \in bfree_bitmap \/ \E y \in Unsliced(sliced) : NamedBy(y, x)

\* Index blocks and free blocks hold nobody's data, nor do the blocks that a
\* block in reach still names; the blocks of an index hold its file's.
RootsClean == \A x \in Roots(bfree_bitmap, IndexSet) : Nobodys(x)
StrayNamesClean ==
    \A x \in Unsliced(sliced) \ IndexSet, i \in Entry :
      Reached(x) /\ names[x][i] # 0 => Nobodys(names[x][i])
IndexNamesOwn ==
    \A f \in Indexed, i \in Entry :
      names[index_block[f]][i] # 0 => Holds(f, names[index_block[f]][i])
BytesInv == RootsClean /\ StrayNamesClean /\ IndexNamesOwn

\* What every step outside the loop does: data only goes, except into sliced
\* blocks; no block names a new one; an index block comes from the free blocks;
\* a free block from an index, or from a file that is exposed.
DataOnlyGoes ==
    /\ \A x \in OnDisk \ sliced' : \A k \in Entry : bytes'[x][k] \in {bytes[x][k], NoFile}
    /\ exposed \subseteq exposed'
NamesOnlyGo ==
    \A x \in Unsliced(sliced'), i \in Entry :
      names'[x][i] # 0 => x \in Unsliced(sliced) /\ names'[x][i] = names[x][i]
RootsComeClean ==
    \A x \in Roots(bfree_bitmap, IndexSet)' :
      \/ x \in Roots(bfree_bitmap, IndexSet) \/ \A k \in Entry : bytes'[x][k] = NoFile
      \/ \E f \in Indexed \cap exposed', i \in Entry : x = names[index_block[f]][i] /\ x # 0
IndexesComeFree ==
    \A f \in Indexed' : \/ f \in Indexed /\ index_block'[f] = index_block[f]
                        \/ index_block'[f] \in bfree_bitmap \cap Data
FreeComeNamed ==
    \A x \in bfree_bitmap' \cap Data :
      \/ x \in bfree_bitmap \/ \E y \in Unsliced(sliced) : NamedBy(y, x)
      \/ \A i \in Entry : names'[x][i] = 0
      \/ \E f \in Indexed \cap exposed' : x = index_block[f]

LEMMA BytesLess ==
    ASSUME OwnInv, OwnInv', BytesInv, DataOnlyGoes, NamesOnlyGo, RootsComeClean, IndexesComeFree,
           FreeComeNamed
    PROVE  BytesInv'
<1>1. PICK R2, U2, X2 : R2 = Roots(bfree_bitmap, IndexSet)' /\ U2 = Unsliced(sliced') /\ X2 = IndexSet'
  OBVIOUS
<1>2. R2 \subseteq OnDisk \ sliced' /\ (\A f \in Indexed' : index_block'[f] \in U2)
  BY <1>1, Geometry DEF OwnInv, OwnedNow, Owned, Apart, Roots, IndexSet, Unsliced
<1>3. exposed \subseteq exposed'
  BY DEF DataOnlyGoes
<1>4. ASSUME NEW x \in R2, NEW k \in Entry PROVE bytes'[x][k] \in {NoFile} \cup exposed'
  <2>1. bytes'[x][k] \in {bytes[x][k], NoFile}
    BY <1>2 DEF DataOnlyGoes
  <2>2. CASE x \in Roots(bfree_bitmap, IndexSet)
    BY <1>3, <2>1, <2>2 DEF BytesInv, RootsClean, Nobodys
  <2>3. CASE bytes'[x][k] = NoFile
    BY <2>3
  <2>4. ASSUME NEW f \in Indexed \cap exposed', NEW i \in Entry, x = names[index_block[f]][i], x # 0
        PROVE  bytes'[x][k] \in {NoFile} \cup exposed'
    BY <1>3, <2>1, <2>4 DEF BytesInv, IndexNamesOwn, Holds
  <2> QED
    BY <1>1, <2>2, <2>3, <2>4 DEF RootsComeClean
<1>5. RootsClean'
  BY <1>1, <1>4 DEF RootsClean, Nobodys
<1>6. ASSUME NEW x \in U2, NEW i \in Entry, names'[x][i] # 0
      PROVE  /\ x \in Unsliced(sliced) /\ names'[x][i] = names[x][i] /\ names[x][i] # 0
             /\ \A k \in Entry : bytes'[names'[x][i]][k] \in {bytes[names[x][i]][k], NoFile}
  <2>1. x \in Unsliced(sliced) /\ names'[x][i] = names[x][i]
    BY <1>1, <1>6 DEF NamesOnlyGo
  <2>2. names'[x][i] \in Data \ sliced'
    BY <1>1, <1>6 DEF OwnInv, OwnedNow, Owned, NamesOthers
  <2> QED
    BY <1>6, <2>1, <2>2, Geometry DEF DataOnlyGoes
<1>7. StrayNamesClean'
  <2> SUFFICES ASSUME NEW x \in U2 \ X2, NEW i \in Entry, Reached(x)', names'[x][i] # 0, NEW k \in Entry
               PROVE  bytes'[names'[x][i]][k] \in {NoFile} \cup exposed'
    BY <1>1 DEF StrayNamesClean, Nobodys
  <2>1. /\ x \in Unsliced(sliced) /\ names'[x][i] = names[x][i] /\ names[x][i] # 0 /\ x \in Data
        /\ bytes'[names'[x][i]][k] \in {bytes[names[x][i]][k], NoFile}
    BY <1>6, UnslicedIs
  <2>2. CASE x \in bfree_bitmap \/ \E y \in Unsliced(sliced) : NamedBy(y, x)
    <3>1. x \notin IndexSet
      BY <2>1, <2>2, Geometry DEF NamedBy, OwnInv, OwnedNow, Owned, NamesOthers, Apart
    <3> QED
      BY <1>3, <2>1, <2>2, <3>1 DEF BytesInv, StrayNamesClean, Nobodys, Reached
  <2>3. ASSUME NEW f \in Indexed \cap exposed', x = index_block[f]
        PROVE  bytes'[names'[x][i]][k] \in {NoFile} \cup exposed'
    BY <1>3, <2>1, <2>3 DEF BytesInv, IndexNamesOwn, Holds
  <2>4. CASE x \in bfree_bitmap'
    BY <2>1, <2>2, <2>3, <2>4 DEF FreeComeNamed
  <2>5. ASSUME NEW y \in U2, NEW j \in Entry, names'[y][j] = x
        PROVE  \E z \in Unsliced(sliced) : NamedBy(z, x)
    <3>1. x # 0
      BY <2>1, Geometry
    <3>2. y \in Unsliced(sliced) /\ names[y][j] = x
      BY <1>6, <2>5, <3>1
    <3> QED
      BY <3>2 DEF NamedBy
  <2> QED
    BY <1>1, <2>2, <2>4, <2>5 DEF Reached, NamedBy
<1>8. IndexNamesOwn'
  <2> SUFFICES ASSUME NEW f \in Indexed', NEW i \in Entry, names'[index_block'[f]][i] # 0, NEW k \in Entry
               PROVE  bytes'[names'[index_block'[f]][i]][k] \in {f, NoFile} \cup exposed'
    BY DEF IndexNamesOwn, Holds
  <2>1. PICK x : x = index_block'[f]
    OBVIOUS
  <2>2. /\ names'[x][i] = names[x][i] /\ names[x][i] # 0 /\ x \in Unsliced(sliced)
        /\ bytes'[names'[x][i]][k] \in {bytes[names[x][i]][k], NoFile}
    BY <1>2, <1>6, <2>1
  <2>3. CASE f \in Indexed /\ x = index_block[f]
    BY <1>3, <2>1, <2>2, <2>3 DEF BytesInv, IndexNamesOwn, Holds
  <2>4. CASE x \in bfree_bitmap \cap Data
    <3>1. x \notin IndexSet
      BY <2>4 DEF OwnInv, OwnedNow, Owned, Apart
    <3> QED
      BY <1>3, <2>1, <2>2, <2>4, <3>1 DEF BytesInv, StrayNamesClean, Nobodys, Reached
  <2> QED
    BY <2>1, <2>3, <2>4 DEF IndexesComeFree
<1> QED
  BY <1>5, <1>7, <1>8 DEF BytesInv

\* Steps that only move free blocks to sliced or index blocks, or nothing.
LEMMA BytesMoved ==
    ASSUME OwnInv, OwnInv', BytesInv, words' = words, exposed' = exposed, sliced \subseteq sliced',
           \A x \in OnDisk \ sliced' : bytes'[x] = bytes[x],
           bfree_bitmap' \cap Data \subseteq bfree_bitmap,
           \A f \in Indexed' : \/ f \in Indexed /\ index_block'[f] = index_block[f]
                               \/ index_block'[f] \in bfree_bitmap \cap Data
    PROVE  BytesInv'
<1>1. DataOnlyGoes
  BY DEF DataOnlyGoes
<1>2. Roots(bfree_bitmap, IndexSet)' \subseteq Roots(bfree_bitmap, IndexSet)
  BY DEF Roots, IndexSet
<1>3. NamesOnlyGo
  <2> SUFFICES ASSUME NEW x \in Unsliced(sliced'), NEW i \in Entry
               PROVE  x \in Unsliced(sliced) /\ names'[x][i] = names[x][i]
    BY DEF NamesOnlyGo
  <2>1. x \in OnDisk \ sliced' /\ x \in Unsliced(sliced)
    BY UnslicedIs DEF Unsliced
  <2> QED
    BY <2>1, NamesAre
<1>4. RootsComeClean /\ IndexesComeFree /\ FreeComeNamed
  BY <1>2 DEF RootsComeClean, IndexesComeFree, FreeComeNamed
<1> QED
  BY <1>1, <1>3, <1>4, BytesLess

LEMMA BytesQuiet ==
    ASSUME OwnInv, OwnInv', BytesInv, words' = words, bytes' = bytes, exposed' = exposed, sliced' = sliced,
           UNCHANGED <<linked, index_block, num_slices>>, bfree_bitmap' \subseteq bfree_bitmap \cup {0}
    PROVE  BytesInv'
<1>1. Indexed' = Indexed /\ IndexSet' = IndexSet /\ bfree_bitmap' \cap Data \subseteq bfree_bitmap
  BY SameIndexes, Geometry
<1> QED
  BY <1>1, BytesMoved

LEMMA BytesCreate ==
    ASSUME Types, OwnInv, OwnInv', BytesInv, NEW f \in Files, Create(f)
    PROVE  BytesInv'
<1>1. /\ f \notin linked /\ linked' = linked \cup {f} /\ index_block'[f] = 0
      /\ \A g \in linked : index_block'[g] = index_block[g] /\ num_slices'[g] = num_slices[g]
      /\ words' = words /\ bytes' = bytes /\ bfree_bitmap' = bfree_bitmap /\ exposed' = exposed
      /\ sliced' = sliced
  BY DEF Create, Types, InodeTypes, sbvars, blockvars
<1>2. Indexed' = Indexed /\ \A g \in Indexed : index_block'[g] = index_block[g]
  BY <1>1 DEF Indexed
<1>3. IndexSet' = IndexSet
  BY <1>2, KeepsIndexes
<1> QED
  BY <1>1, <1>2, <1>3, BytesMoved

LEMMA BytesCalls ==
    ASSUME Types, OwnInv, OwnInv', BytesInv, NEW f \in Files, NEW ki_pos \in Offsets, NEW count \in Counts,
           \/ WriteSmall(f, ki_pos, count) \/ WriteSmallNoSpace(f, ki_pos, count)
           \/ BigNoIndex(f, ki_pos, count)
           \/ \E append \in Appends, data \in Words :
                \/ BigFirst(f, ki_pos, count, append, data)
                \/ BigAgain(f, ki_pos, count, append, data)
                \/ Convert(f, ki_pos, count, append, data)
    PROVE  BytesInv'
<1>1. CASE WriteSmall(f, ki_pos, count)
  <2>1. PICK b \in Block, s \in Slice :
             /\ \/ b \in sliced /\ bfree_bitmap' = bfree_bitmap
                \/ b \in bfree_bitmap \cap Data /\ bfree_bitmap' = bfree_bitmap \ {b}
             /\ sliced' = sliced \cup {b} /\ words' = words /\ index_block[f] = 0
             /\ num_slices'[f] # 0 /\ linked' = linked /\ exposed' = exposed
             /\ \A g \in linked \ {f} : index_block'[g] = index_block[g] /\ num_slices'[g] = num_slices[g]
             /\ \A x \in OnDisk \ {b} : bytes'[x] = bytes[x]
    BY <1>1, WriteSmallIs
  <2>2. Indexed' = Indexed /\ \A g \in Indexed : index_block'[g] = index_block[g]
    BY <2>1 DEF Indexed
  <2>3. IndexSet' = IndexSet
    BY <2>2, KeepsIndexes
  <2> QED
    BY <2>1, <2>2, <2>3, BytesMoved
<1>2. CASE WriteSmallNoSpace(f, ki_pos, count) \/ BigNoIndex(f, ki_pos, count)
  BY <1>2, BytesQuiet DEF WriteSmallNoSpace, BigNoIndex, GetNoBlock, blockvars, inodevars
<1>3. ASSUME NEW append \in Appends, NEW data \in Words, BigFirst(f, ki_pos, count, append, data)
      PROVE  BytesInv'
  <2>1. PICK b \in bfree_bitmap \cap Data :
             /\ bfree_bitmap' = bfree_bitmap \ {b}
             /\ index_block'[f] = b /\ \A g \in linked \ {f} : index_block'[g] = index_block[g]
             /\ f \in linked \ Indexed /\ Indexed' = Indexed \cup {f} /\ IndexSet' = IndexSet \cup {b}
             /\ UNCHANGED <<words, bytes, exposed, sliced>>
    BY <1>3, BigFirstIs
  <2>2. \A g \in Indexed : index_block'[g] = index_block[g]
    BY <2>1 DEF Indexed
  <2> QED
    BY <2>1, <2>2, BytesMoved
<1>4. ASSUME NEW append \in Appends, NEW data \in Words,
             \/ BigAgain(f, ki_pos, count, append, data)
             \/ Convert(f, ki_pos, count, append, data)
      PROVE  BytesInv'
  BY <1>4, BytesQuiet DEF BigAgain, Convert, sbvars, blockvars, inodevars
<1> QED
  BY <1>1, <1>2, <1>3, <1>4

LEMMA BytesFreed ==
    ASSUME Types, OwnInv, OwnInv', BytesInv, NEW f \in Files,
           OpenTrunc(f) \/ UnlinkSmall(f) \/ UnlinkBig(f) \/ UnlinkBlind(f)
    PROVE  BytesInv'
<1> DEFINE ib == index_block[f]
<1>1. CASE OpenTrunc(f) \/ UnlinkBig(f) \/ UnlinkBlind(f)
  <2>1. PICK freed :
          /\ f \in Indexed /\ Gives(ib, freed) /\ exposed \subseteq exposed' /\ sliced' = sliced
          /\ f \in exposed' \/ \A b \in freed, k \in Entry : bytes'[b][k] = NoFile
          /\ \/ UNCHANGED <<linked, index_block, num_slices>>
             \/ ClearInode(f) /\ (f \in exposed' \/ \A i \in Entry : names'[ib][i] = 0)
    <3>1. CASE OpenTrunc(f)
      BY <3>1, OpenTruncGives
    <3>2. CASE UnlinkBig(f) \/ UnlinkBlind(f)
      <4>1. f \in exposed' \/ \A i \in Entry : names'[ib][i] = 0
        <5>1. CASE UnlinkBlind(f)
          BY <5>1 DEF UnlinkBlind
        <5>2. CASE UnlinkBig(f)
          <6>1. ib \in OnDisk
            <7>1. f \in Indexed /\ {} \subseteq {names[ib][i] : i \in Entry} \ {0}
              BY <3>2, UnlinkBigGives
            <7> QED
              BY <7>1, FreedIs
          <6>2. PICK unread : words' = [b \in DOMAIN words |->
                    IF b \in Scrubbed(ib, Named(words[ib], i_blocks[f] - 1) \ unread) THEN NoWords ELSE words[b]]
            BY <5>2 DEF UnlinkBig
          <6>3. words'[ib] = NoWords
            BY <6>1, <6>2 DEF Scrubbed, Types, BlockTypes
          <6> QED
            BY <6>1, <6>3, NamesAre DEF NoWords
        <5> QED
          BY <3>2, <5>1, <5>2
      <4> QED
        BY <3>2, <4>1, UnlinkBigGives
    <3> QED
      BY <1>1, <3>1, <3>2
  <2>2. f \in linked /\ freed \subseteq {names[ib][i] : i \in Entry} \ {0}
    BY <2>1 DEF Indexed, Gives
  <2>3. ib \in IndexSet /\ ib \in Unsliced(sliced)
    BY <2>1, <2>2, FreedIs
  <2>4. /\ IndexSet' \subseteq IndexSet /\ IndexSet \ IndexSet' \subseteq {ib}
        /\ \A g \in Indexed' : g \in Indexed /\ index_block'[g] = index_block[g]
        /\ ib \in IndexSet' \/ f \in exposed' \/ \A i \in Entry : names'[ib][i] = 0
    <3>1. CASE UNCHANGED <<linked, index_block, num_slices>>
      BY <2>3, <3>1, SameIndexes
    <3>2. CASE ClearInode(f) /\ (f \in exposed' \/ \A i \in Entry : names'[ib][i] = 0)
      <4>1. /\ linked' = linked \ {f} /\ Indexed' = Indexed \ {f}
            /\ IndexSet' = IndexSet \ {ib}
            /\ \A g \in linked' : index_block'[g] = index_block[g]
        BY <2>1, <2>2, <3>2, ClearInodeIs
      <4> QED
        BY <3>2, <4>1 DEF Indexed
    <3> QED
      BY <2>1, <3>1, <3>2
  <2>5. \A x \in OnDisk, i \in Entry : \/ words'[x][i] = words[x][i] /\ bytes'[x][i] = bytes[x][i]
                                       \/ words'[x][i] = 0 /\ bytes'[x][i] = NoFile
    BY <2>1 DEF Gives
  <2>6. bfree_bitmap' \subseteq bfree_bitmap \cup freed \cup {ib}
    BY <2>1 DEF Gives
  <2>7. DataOnlyGoes
    BY <2>1, <2>5 DEF DataOnlyGoes
  <2>8. NamesOnlyGo
    <3> SUFFICES ASSUME NEW x \in Unsliced(sliced), NEW i \in Entry
                 PROVE  names'[x][i] \in {names[x][i], 0}
      BY <2>1 DEF NamesOnlyGo
    <3> QED
      BY <2>1, UnslicedIs, GivesNames
  <2>9. RootsComeClean
    <3> SUFFICES ASSUME NEW x \in Roots(bfree_bitmap, IndexSet)', x \notin Roots(bfree_bitmap, IndexSet)
                 PROVE  \/ \A k \in Entry : bytes'[x][k] = NoFile
                        \/ \E g \in Indexed \cap exposed', i \in Entry : x = names[index_block[g]][i] /\ x # 0
      BY DEF RootsComeClean
    <3>1. x \in freed
      BY <2>3, <2>4, <2>6 DEF Roots
    <3>2. PICK i \in Entry : x = names[ib][i] /\ x # 0
      BY <2>2, <3>1
    <3> QED
      BY <2>1, <3>1, <3>2
  <2>10. IndexesComeFree
    BY <2>4 DEF IndexesComeFree
  <2>11. FreeComeNamed
    <3> SUFFICES ASSUME NEW x \in bfree_bitmap' \cap Data, x \notin bfree_bitmap
                 PROVE  \/ \E y \in Unsliced(sliced) : NamedBy(y, x)
                        \/ \A i \in Entry : names'[x][i] = 0
                        \/ \E g \in Indexed \cap exposed' : x = index_block[g]
      BY DEF FreeComeNamed
    <3>1. CASE x \in freed
      <4>1. PICK i \in Entry : x = names[ib][i]
        BY <2>2, <3>1
      <4> QED
        BY <2>3, <4>1 DEF NamedBy
    <3>2. CASE x = ib
      <4>1. ib \notin IndexSet'
        BY <3>2 DEF OwnInv, OwnedNow, Owned, Apart
      <4> QED
        BY <2>1, <2>4, <3>2, <4>1
    <3> QED
      BY <2>6, <3>1, <3>2
  <2> QED
    BY <2>7, <2>8, <2>9, <2>10, <2>11, BytesLess
<1>2. CASE UnlinkSmall(f)
  <2>1. f \in linked /\ DeleteSlice(f) /\ ClearInode(f) /\ exposed' = exposed
    BY <1>2 DEF UnlinkSmall, MayCall
  <2>2. /\ linked' = linked \ {f} /\ Indexed' = Indexed \ {f}
        /\ IndexSet' = IF f \in Indexed THEN IndexSet \ {ib} ELSE IndexSet
        /\ \A g \in linked' : index_block'[g] = index_block[g]
    BY <2>1, ClearInodeIs
  <2>3. \A g \in Indexed' : g \in Indexed /\ index_block'[g] = index_block[g]
    BY <2>2 DEF Indexed
  <2>4. PICK gone \in SUBSET sliced :
             /\ bfree_bitmap' = bfree_bitmap \cup gone /\ sliced' = sliced \ gone
             /\ \A b \in gone, k \in Entry : words'[b][k] = 0 /\ bytes'[b][k] = NoFile
             /\ \A x \in OnDisk \ sliced : words'[x] = words[x] /\ bytes'[x] = bytes[x]
    BY <2>1, DeleteSliceIs
  <2>5. \A x \in OnDisk \ sliced' : x \in gone \/ x \in OnDisk \ sliced
    BY <2>4
  <2>6. DataOnlyGoes
    BY <2>1, <2>4, <2>5 DEF DataOnlyGoes
  <2>7. NamesOnlyGo
    <3> SUFFICES ASSUME NEW x \in Unsliced(sliced'), NEW i \in Entry, names'[x][i] # 0
                 PROVE  x \in Unsliced(sliced) /\ names'[x][i] = names[x][i]
      BY DEF NamesOnlyGo
    <3>1. x \in OnDisk \ sliced' /\ x \in Data
      BY UnslicedIs DEF Unsliced
    <3>2. x \notin gone
      BY <2>4, <3>1, NamesAre
    <3>3. x \in OnDisk \ sliced /\ x \in Unsliced(sliced)
      BY <2>5, <3>1, <3>2 DEF Unsliced
    <3> QED
      BY <2>4, <3>3, NamesAre
  <2>8. RootsComeClean
    <3>1. \A x \in Roots(bfree_bitmap, IndexSet)' : x \in Roots(bfree_bitmap, IndexSet) \/ x \in gone
      BY <2>2, <2>4 DEF Roots
    <3> QED
      BY <2>4, <3>1 DEF RootsComeClean
  <2>9. IndexesComeFree
    BY <2>3 DEF IndexesComeFree
  <2>10. FreeComeNamed
    <3> SUFFICES ASSUME NEW x \in bfree_bitmap' \cap Data, x \notin bfree_bitmap, NEW i \in Entry
                 PROVE  names'[x][i] = 0
      BY DEF FreeComeNamed
    <3>1. x \in gone /\ x \in OnDisk
      BY <2>4, Geometry
    <3> QED
      BY <2>4, <3>1, NamesAre
  <2> QED
    BY <2>6, <2>7, <2>8, <2>9, <2>10, BytesLess
<1> QED
  BY <1>1, <1>2

LEMMA BytesLoop ==
    ASSUME Types, OwnInv, OwnInv', BytesInv, LoopCopy \/ LoopReadError \/ LoopFault
    PROVE  BytesInv'
<1> DEFINE ib == index_block[req.f]
<1>1. /\ InLoop /\ req.f \in Indexed /\ ib \in IndexSet
      /\ UNCHANGED <<linked, index_block, num_slices, sliced, exposed>>
      /\ (\E b \in Data \ {ib} : BlockStep(ib, b)) \/ UNCHANGED <<words, bytes, bfree_bitmap>>
  BY LoopStepIs
<1>2. CASE UNCHANGED <<words, bytes, bfree_bitmap>>
  BY <1>1, <1>2, BytesQuiet
<1>3. ASSUME NEW b \in Data \ {ib}, BlockStep(ib, b) PROVE BytesInv'
  <2>1. Indexed' = Indexed /\ IndexSet' = IndexSet
    BY <1>1, SameIndexes
  <2>2. PICK W2, U : W2 = names' /\ U = Unsliced(sliced)
    OBVIOUS
  <2>3. /\ Idx \in Entry /\ ib \in U /\ b \notin IndexSet /\ b \notin sliced /\ b # 0
        /\ W2[ib][Idx] = b
        /\ \A x \in OnDisk, i \in Entry : (x = ib /\ i = Idx) \/ W2[x][i] \in {names[x][i], 0}
    <3> HIDE DEF ib
    <3> QED
      BY <1>1, <1>3, <2>1, <2>2, BlockStepIs DEF ib
  <2>4. /\ \/ names[ib][Idx] # 0 /\ b = names[ib][Idx] /\ bfree_bitmap' = bfree_bitmap
           \/ names[ib][Idx] = 0 /\ b \in bfree_bitmap \cap Data /\ bfree_bitmap' = bfree_bitmap \ {b}
        /\ \A x \in OnDisk \ {b} : bytes'[x] = bytes[x]
        /\ \A k \in Entry : bytes'[b][k] \in {bytes[b][k], NoFile, req.f}
    BY <1>3 DEF BlockStep
  <2>5. /\ \A x \in U, i \in Entry : names[x][i] # 0 => names[x][i] \in Data \ (bfree_bitmap \cup sliced \cup IndexSet)
        /\ \A x, y \in U, i, j \in Entry : names[x][i] # 0 /\ names[x][i] = names[y][j] => x = y /\ i = j
        /\ Apart(bfree_bitmap, sliced, IndexSet) /\ U \subseteq OnDisk /\ Data \subseteq OnDisk
    BY <2>2, UnslicedIs, Geometry DEF OwnInv, OwnedNow, Owned, NamesOthers, NamesOnce
  <2> HIDE DEF ib
  <2>6. b \notin Roots(bfree_bitmap, IndexSet)' /\ Roots(bfree_bitmap, IndexSet)' \subseteq Roots(bfree_bitmap, IndexSet)
    <3>1. b \notin bfree_bitmap' /\ bfree_bitmap' \subseteq bfree_bitmap
      BY <2>3, <2>4, <2>5
    <3> QED
      BY <2>1, <2>3, <3>1 DEF Roots
  <2>7. RootsClean'
    <3> SUFFICES ASSUME NEW x \in Roots(bfree_bitmap, IndexSet)', NEW k \in Entry
                 PROVE  bytes'[x][k] \in {NoFile} \cup exposed'
      BY DEF RootsClean, Nobodys
    <3>1. x \in Roots(bfree_bitmap, IndexSet) /\ bytes'[x] = bytes[x]
      BY <2>4, <2>6, RootsOnDisk DEF OwnInv
    <3> QED
      BY <1>1, <3>1 DEF BytesInv, RootsClean, Nobodys
  \* Any other word names another block.
  <2>8. ASSUME NEW x \in U, NEW i \in Entry, W2[x][i] # 0, ~(x = ib /\ i = Idx)
        PROVE  /\ W2[x][i] = names[x][i] /\ names[x][i] # 0
               /\ bytes'[W2[x][i]] = bytes[names[x][i]]
    <3>1. W2[x][i] = names[x][i] /\ names[x][i] # 0
      BY <2>3, <2>5, <2>8
    <3>2. names[x][i] \in Data \ (bfree_bitmap \cup sliced \cup IndexSet)
      BY <2>5, <3>1
    <3>3. names[x][i] # b
      <4>1. CASE names[ib][Idx] # 0 /\ b = names[ib][Idx]
        BY <2>3, <2>5, <2>8, <3>1, <4>1
      <4>2. CASE b \in bfree_bitmap
        BY <3>2, <4>2
      <4> QED
        BY <2>4, <4>1, <4>2
    <3> QED
      BY <2>4, <2>5, <3>1, <3>2, <3>3
  <2>9. StrayNamesClean'
    <3> SUFFICES ASSUME NEW x \in U \ IndexSet, NEW i \in Entry, Reached(x)', W2[x][i] # 0, NEW k \in Entry
                 PROVE  bytes'[W2[x][i]][k] \in {NoFile} \cup exposed
      BY <1>1, <2>1, <2>2 DEF StrayNamesClean, Nobodys
    <3>1. x # ib /\ x # 0
      BY <1>1, <2>2, UnslicedIs, Geometry DEF ib
    <3>2. /\ W2[x][i] = names[x][i] /\ names[x][i] # 0 /\ bytes'[W2[x][i]] = bytes[names[x][i]]
      BY <2>8, <3>1
    <3>3. Reached(x)
      <4>1. CASE x \in bfree_bitmap'
        BY <2>4, <4>1 DEF Reached
      <4>2. ASSUME NEW y \in U, NEW j \in Entry, W2[y][j] = x PROVE Reached(x)
        <5>1. CASE y = ib /\ j = Idx
          BY <2>2, <2>3, <2>4, <4>2, <5>1 DEF Reached, NamedBy
        <5>2. CASE ~(y = ib /\ j = Idx)
          <6>1. W2[y][j] # 0
            BY <3>1, <4>2
          <6>2. names[y][j] = x
            BY <2>8, <4>2, <5>2, <6>1
          <6> QED
            BY <2>2, <6>2 DEF Reached, NamedBy
        <5> QED
          BY <5>1, <5>2
      <4> QED
        BY <1>1, <2>2, <4>1, <4>2 DEF Reached, NamedBy
    <3> QED
      BY <1>1, <2>2, <3>2, <3>3 DEF BytesInv, StrayNamesClean, Nobodys
  <2>10. IndexNamesOwn'
    <3> SUFFICES ASSUME NEW f \in Indexed, NEW i \in Entry, W2[index_block[f]][i] # 0, NEW k \in Entry
                 PROVE  bytes'[W2[index_block[f]][i]][k] \in {f, NoFile} \cup exposed
      BY <1>1, <2>1, <2>2 DEF IndexNamesOwn, Holds
    <3>1. index_block[f] \in U
      BY <2>2 DEF IndexSet, OwnInv, OwnedNow, Owned, Apart, Unsliced
    <3>2. CASE ~(index_block[f] = ib /\ i = Idx)
      <4>1. /\ W2[index_block[f]][i] = names[index_block[f]][i] /\ names[index_block[f]][i] # 0
            /\ bytes'[W2[index_block[f]][i]] = bytes[names[index_block[f]][i]]
        BY <2>8, <3>1, <3>2
      <4> QED
        BY <4>1 DEF BytesInv, IndexNamesOwn, Holds
    <3>3. CASE index_block[f] = ib /\ i = Idx
      <4>1. f = req.f /\ W2[index_block[f]][i] = b
        BY <1>1, <2>3, <3>3 DEF OwnInv, OneIndexEach, ib
      <4>2. bytes[b][k] \in {f, NoFile} \cup exposed
        <5>1. CASE names[ib][Idx] # 0 /\ b = names[ib][Idx]
          BY <2>3, <3>3, <5>1 DEF BytesInv, IndexNamesOwn, Holds
        <5>2. CASE b \in bfree_bitmap \cap Data
          BY <5>2 DEF BytesInv, RootsClean, Roots, Nobodys
        <5> QED
          BY <2>4, <5>1, <5>2
      <4> QED
        BY <2>4, <4>1, <4>2
    <3> QED
      BY <3>2, <3>3
  <2> QED
    BY <2>7, <2>9, <2>10 DEF BytesInv
<1> QED
  BY <1>1, <1>2, <1>3

LEMMA BytesNext == Types /\ OwnInv /\ OwnInv' /\ BytesInv /\ [Next]_vars => BytesInv'
<1> SUFFICES ASSUME Types, OwnInv, OwnInv', BytesInv, [Next]_vars PROVE BytesInv'
  OBVIOUS
<1>1. CASE UNCHANGED vars
  BY <1>1, BytesQuiet DEF vars, sbvars, blockvars, inodevars
<1>2. CASE HandlerStep
  <2>1. CASE LoopNoSpace \/ LoopTooBig
    BY <2>1, BytesQuiet DEF LoopNoSpace, LoopTooBig, FailBig, GetNoBlock, blockvars
  <2>2. CASE LoopDone
    BY <2>2, LoopDoneIs, BytesQuiet DEF sbvars, blockvars
  <2> QED
    BY <1>2, <2>1, <2>2, BytesLoop DEF HandlerStep
<1>3. CASE Call
  <2>1. CASE \E f \in Files : \/ OpenTrunc(f) \/ UnlinkSmall(f) \/ UnlinkBig(f) \/ UnlinkBlind(f)
    BY <2>1, BytesFreed
  <2>2. CASE \/ \E f \in Files : OpenTruncError(f)
             \/ \E f \in Files, ki_pos \in Offsets, count \in Counts :
                  \/ ConvertRefused(f, ki_pos, count)
                  \/ \E append \in Appends : BigRefused(f, ki_pos, count, append)
    BY <1>1, <2>2 DEF ConvertRefused, BigRefused, OpenTruncError
  <2>3. CASE \E f \in Files : Create(f)
    BY <2>3, BytesCreate
  <2>4. CASE \E f \in Files, ki_pos \in Offsets, count \in Counts :
               \/ WriteSmall(f, ki_pos, count) \/ WriteSmallNoSpace(f, ki_pos, count)
               \/ BigNoIndex(f, ki_pos, count)
               \/ \E append \in Appends, data \in Words :
                    \/ BigFirst(f, ki_pos, count, append, data)
                    \/ BigAgain(f, ki_pos, count, append, data)
                    \/ Convert(f, ki_pos, count, append, data)
    BY <2>4, BytesCalls
  <2> QED
    BY <1>3, <2>1, <2>2, <2>3, <2>4 DEF Call
<1> QED
  BY <1>1, <1>2, <1>3 DEF Next

LEMMA BytesInit == Init => BytesInv
<1> SUFFICES ASSUME Init PROVE BytesInv
  OBVIOUS
<1>1. Indexed = {} /\ IndexSet = {}
  BY DEF Init, Indexed, IndexSet
<1>2. Roots(bfree_bitmap, IndexSet) \subseteq OnDisk /\ Unsliced(sliced) \subseteq OnDisk
  BY <1>1, UnslicedIs, Geometry DEF Roots
<1>3. \A x \in OnDisk, i \in Entry : words[x][i] = 0 /\ bytes[x][i] = NoFile
  BY DEF Init, OnDisk, NoWords, NoBytes
<1>4. RootsClean /\ IndexNamesOwn
  BY <1>1, <1>2, <1>3 DEF RootsClean, IndexNamesOwn, Nobodys
<1>5. StrayNamesClean
  BY <1>2, <1>3, NamesAre DEF StrayNamesClean
<1> QED
  BY <1>4, <1>5 DEF BytesInv

LEMMA OwnBytes == Types /\ OwnInv /\ BytesInv => OnlyOwnBytes
<1> SUFFICES ASSUME Types, OwnInv, BytesInv, NEW f \in Files, HasIndex(f),
                    NEW b \in DataBlocks(f), NEW i \in Entry
             PROVE  bytes[b][i] \in {f, NoFile} \cup exposed
  BY DEF OnlyOwnBytes
<1>1. f \in Indexed
  BY HasIndexIs
<1>2. PICK j \in Entry : b = names[index_block[f]][j] /\ b # 0
  BY <1>1, DataBlocksAre
<1> QED
  BY <1>1, <1>2 DEF BytesInv, IndexNamesOwn, Holds

(* A big file never shows bytes of another file but those of one that was   *)
(* truncated, or deleted while its blocks could not be read:                *)
(* write_big_file relies on unlink and delete_slice for zeroed blocks, and  *)
(* may for all other files, of any size on a partition of any size, as long *)
(* as no word that is something else is taken for a block number.           *)
THEOREM BigFilesHoldOwnBytes == Spec /\ [][~Misread]_vars => []OnlyOwnBytes
BY TypesInit, TypesNext, OwnInit, OwnNext, BytesInit, BytesNext, OwnBytes, PTL DEF Spec
-----------------------------------------------------------------------------
(* Which blocks are lost *)

\* i_blocks counts what the size says, the index block included; a file that
\* is being converted has none yet.
Capacity(f) == (i_blocks[f] - 1) * BlockSize
Fits(f) == i_blocks[f] # 0 => i_size[f] <= Capacity(f)
SizesFit == \A f \in linked : Fits(f)
ConvertsSmall == pc = "loop" => (req.convert => i_blocks[req.f] = 0)
SizeInv == SizesFit /\ ConvertsSmall

LEMMA RoundUpCovers ==
    ASSUME NEW n \in Nat, NEW d \in Nat \ {0}
    PROVE  n <= DivRoundUp(n, d) * d
<1> DEFINE a == n + d - 1
           q == a \div d
<1>1. a \in Nat
  OBVIOUS
<1>2. q \in Nat /\ a < d * q + d
  BY <1>1, DivIs
<1>3. q * d = d * q /\ DivRoundUp(n, d) = q
  BY <1>2 DEF DivRoundUp
<1> HIDE DEF q
<1> QED
  BY <1>2, <1>3

LEMMA SizesStay ==
    ASSUME SizesFit, NEW f, linked' \ {f} \subseteq linked, f \in linked' => Fits(f)',
           \A g \in linked \ {f} : i_blocks'[g] = i_blocks[g] /\ i_size'[g] = i_size[g]
    PROVE  SizesFit'
BY DEF SizesFit, Fits, Capacity

LEMMA SizeInit == Init => SizeInv
BY DEF Init, SizeInv, SizesFit, ConvertsSmall

LEMMA SizeNext == Types /\ OwnInv /\ SizeInv /\ [Next]_vars => SizeInv'
<1> SUFFICES ASSUME Types, OwnInv, SizeInv, [Next]_vars PROVE SizeInv'
  OBVIOUS
<1>0. SizesFit /\ ConvertsSmall /\ \A f \in linked : Consistent(f)
  BY DEF SizeInv, OwnInv, AllConsistent
<1>1. CASE UNCHANGED vars
  BY <1>1 DEF vars, inodevars, SizeInv, SizesFit, Fits, Capacity, ConvertsSmall
\* A file whose i_blocks stays 0 may have any size.
<1>2. ASSUME NEW f, linked' \ {f} \subseteq linked, f \in linked' => i_blocks'[f] = 0,
             \A g \in linked \ {f} : i_blocks'[g] = i_blocks[g] /\ i_size'[g] = i_size[g],
             ConvertsSmall'
      PROVE  SizeInv'
  BY <1>0, <1>2, SizesStay DEF SizeInv, Fits
<1>3. ASSUME NEW f \in Files, NEW ki_pos \in Offsets, NEW count \in Counts,
             WriteSmall(f, ki_pos, count)
      PROVE  SizeInv'
  <2>1. /\ f \in linked /\ index_block[f] = 0 /\ linked' = linked /\ i_blocks' = i_blocks
        /\ pc' = pc /\ pc = "idle" /\ \E n : i_size' = [i_size EXCEPT ![f] = n]
    BY <1>3 DEF WriteSmall, MayCall
  <2>2. i_blocks[f] = 0
    BY <1>0, <2>1 DEF Consistent
  <2>3. \A g \in linked \ {f} : i_size'[g] = i_size[g]
    BY <2>1 DEF Types, InodeTypes
  <2>4. ConvertsSmall'
    BY <2>1 DEF ConvertsSmall
  <2> QED
    BY <1>2, <2>1, <2>2, <2>3, <2>4
<1>4. ASSUME NEW f \in Files, NEW ki_pos, NEW count, NEW append, NEW data,
             \/ WriteSmallNoSpace(f, ki_pos, count) \/ BigNoIndex(f, ki_pos, count)
             \/ BigFirst(f, ki_pos, count, append, data) \/ BigAgain(f, ki_pos, count, append, data)
      PROVE  SizeInv'
  <2>1. UNCHANGED <<linked, i_blocks, i_size>>
    BY <1>4 DEF WriteSmallNoSpace, BigNoIndex, BigFirst, BigAgain, inodevars
  <2>2. SizesFit'
    BY <1>0, <2>1 DEF SizesFit, Fits, Capacity
  <2>3. pc' = "loop" => ~req'.convert
    BY <1>4 DEF WriteSmallNoSpace, BigNoIndex, BigFirst, BigAgain, StartLoop, MayCall
  <2> QED
    BY <2>2, <2>3 DEF SizeInv, ConvertsSmall
<1>5. ASSUME NEW f \in Files, NEW ki_pos, NEW count, NEW append, NEW data,
             Convert(f, ki_pos, count, append, data)
      PROVE  SizeInv'
  <2>1. /\ linked' = linked /\ i_blocks' = i_blocks /\ i_size' = [i_size EXCEPT ![f] = 0]
        /\ req'.f = f /\ i_blocks[f] = 0
    BY <1>5 DEF Convert, Converts, StartLoop, is_small_file
  <2>2. \A g \in linked \ {f} : i_size'[g] = i_size[g]
    BY <2>1 DEF Types, InodeTypes
  <2>3. ConvertsSmall'
    BY <2>1 DEF ConvertsSmall
  <2> QED
    BY <1>2, <2>1, <2>2, <2>3
<1>6. CASE LoopCopy
  <2>1. UNCHANGED <<linked, i_blocks, i_size, pc>>
    BY <1>6 DEF LoopCopy, inodevars
  <2>2. pc' = "loop" => req'.f = req.f /\ req'.convert = req.convert
    BY <1>6, LoopStepIs
  <2>3. SizesFit'
    BY <1>0, <2>1 DEF SizesFit, Fits, Capacity
  <2> QED
    BY <1>0, <2>1, <2>2, <2>3 DEF SizeInv, ConvertsSmall
<1>7. CASE LoopNoSpace \/ LoopTooBig \/ LoopReadError \/ LoopFault
  <2>1. FailBig /\ pc = "loop"
    BY <1>7 DEF LoopNoSpace, LoopTooBig, LoopReadError, LoopFault, InLoop
  <2>2. /\ linked' = linked /\ i_blocks' = i_blocks /\ pc' = "idle"
        /\ i_size' = [i_size EXCEPT ![req.f] = IF req.convert THEN req.old_size ELSE @]
    BY <2>1 DEF FailBig, Return
  <2>3. \A g \in linked \ {req.f} : i_size'[g] = i_size[g]
    BY <2>2 DEF Types, InodeTypes
  <2>4. ConvertsSmall'
    BY <2>2 DEF ConvertsSmall
  <2>5. CASE req.convert
    <3>1. i_blocks'[req.f] = 0
      BY <1>0, <2>1, <2>2, <2>5 DEF ConvertsSmall
    <3> QED
      BY <1>2, <2>2, <2>3, <2>4, <3>1
  <2>6. CASE ~req.convert
    <3>1. \A g \in linked : i_size'[g] = i_size[g]
      BY <2>2, <2>3, <2>6 DEF Types, InodeTypes
    <3>2. SizesFit'
      BY <1>0, <2>2, <3>1 DEF SizesFit, Fits, Capacity
    <3> QED
      BY <2>4, <3>2 DEF SizeInv
  <2> QED
    BY <2>5, <2>6
<1>8. CASE LoopDone
  <2>0. PICK f : f = req.f
    OBVIOUS
  <2>9. PICK size : size = MaxOf(req.pos, i_size[f])
    OBVIOUS
  <2> DEFINE n == DivRoundUp(size, BlockSize)
  <2>1. /\ f \in Indexed /\ linked' = linked /\ pc' = "idle" /\ i_size'[f] = size
        /\ i_blocks'[f] = BlocksFor(size)
        /\ \A g \in linked \ {f} : i_blocks'[g] = i_blocks[g] /\ i_size'[g] = i_size[g]
    BY <1>8, <2>0, <2>9, LoopDoneIs
  <2>2. size \in Nat
    <3>1. req \in Req /\ i_size[f] \in Nat
      BY <1>8, <2>0, <2>1 DEF LoopDone, Types, LoopTypes, InodeTypes, Indexed
    <3> QED
      BY <2>9, <3>1 DEF MaxOf, Req
  <2>3. size <= n * BlockSize /\ n \in Nat
    BY <2>2, RoundUpCovers, RoundUpType, Geometry
  <2>4. Fits(f)'
    <3>1. i_blocks'[f] - 1 = n
      BY <2>1, <2>3 DEF BlocksFor
    <3> HIDE DEF n
    <3>2. Capacity(f)' = n * BlockSize
      BY <3>1 DEF Capacity
    <3> QED
      BY <2>1, <2>3, <3>2 DEF Fits
  <2>5. SizesFit'
    <3> HIDE DEF n
    <3> QED
      BY <1>0, <2>1, <2>4, SizesStay
  <2> QED
    BY <2>1, <2>5 DEF SizeInv, ConvertsSmall
<1>9. ASSUME NEW f \in Files, OpenTrunc(f) PROVE SizeInv'
  <2>1. /\ f \in linked /\ linked' = linked /\ i_blocks' = i_blocks /\ i_size' = [i_size EXCEPT ![f] = 0]
        /\ pc' = pc /\ pc = "idle" /\ i_blocks[f] # 0
    BY <1>9 DEF OpenTrunc, MayCall, is_small_file
  <2>2. i_blocks[f] - 1 \in Nat /\ i_size'[f] = 0 /\ \A g \in linked \ {f} : i_size'[g] = i_size[g]
    BY <2>1 DEF Types, InodeTypes
  <2>3. (i_blocks[f] - 1) * BlockSize \in Nat
    BY <2>2, Geometry
  <2>4. Fits(f)'
    BY <2>1, <2>2, <2>3 DEF Fits, Capacity
  <2>5. SizesFit'
    BY <1>0, <2>1, <2>2, <2>4, SizesStay
  <2> QED
    BY <2>1, <2>5 DEF SizeInv, ConvertsSmall
<1>10. ASSUME NEW f \in Files, Create(f) \/ UnlinkSmall(f) \/ UnlinkBig(f) \/ UnlinkBlind(f)
       PROVE  SizeInv'
  <2>1. /\ linked' \in {linked \ {f}, linked \cup {f}} /\ pc' = pc /\ pc = "idle"
        /\ i_blocks' = [i_blocks EXCEPT ![f] = 0] /\ i_size' = [i_size EXCEPT ![f] = 0]
    BY <1>10 DEF Create, UnlinkSmall, UnlinkBig, UnlinkBlind, MayCall, ClearInode
  <2>2. /\ i_blocks'[f] = 0
        /\ \A g \in linked \ {f} : i_blocks'[g] = i_blocks[g] /\ i_size'[g] = i_size[g]
    BY <2>1 DEF Types, InodeTypes
  <2>3. ConvertsSmall'
    BY <2>1 DEF ConvertsSmall
  <2> QED
    BY <1>2, <2>1, <2>2, <2>3
<1>11. CASE Call
  <2>1. CASE \E f \in Files : \/ Create(f) \/ OpenTrunc(f)
                              \/ UnlinkSmall(f) \/ UnlinkBig(f) \/ UnlinkBlind(f)
    BY <1>9, <1>10, <2>1
  <2>2. CASE \/ \E f \in Files : OpenTruncError(f)
             \/ \E f \in Files, ki_pos \in Offsets, count \in Counts :
                  \/ ConvertRefused(f, ki_pos, count)
                  \/ \E append \in Appends : BigRefused(f, ki_pos, count, append)
    BY <1>1, <2>2 DEF ConvertRefused, BigRefused, OpenTruncError
  <2>3. CASE \E f \in Files, ki_pos \in Offsets, count \in Counts :
               \/ WriteSmall(f, ki_pos, count) \/ WriteSmallNoSpace(f, ki_pos, count)
               \/ BigNoIndex(f, ki_pos, count)
               \/ \E append \in Appends, data \in Words :
                    \/ BigFirst(f, ki_pos, count, append, data)
                    \/ BigAgain(f, ki_pos, count, append, data)
                    \/ Convert(f, ki_pos, count, append, data)
    BY <1>3, <1>4, <1>5, <2>3
  <2> QED
    BY <1>11, <2>1, <2>2, <2>3 DEF Call
<1> QED
  BY <1>1, <1>6, <1>7, <1>8, <1>11 DEF Next, HandlerStep

\* Somebody can reach the block.
Held(b) ==
    \/ b \in bfree_bitmap \cup sliced
    \/ \E f \in Indexed : \/ b = index_block[f]
                          \/ \E i \in Entry : b = names[index_block[f]][i]
LostAre == LostBlocks = {b \in Data : ~Held(b)}

LEMMA Losing == Types /\ OwnInv => LostAre
<1> SUFFICES ASSUME Types, OwnInv PROVE LostAre
  OBVIOUS
<1>1. ASSUME NEW b \in Data
      PROVE  (\E f \in Files : b \in OwnBlocks(f)) <=>
             (\E f \in Indexed : b = index_block[f] \/ \E i \in Entry : b = names[index_block[f]][i])
  <2>1. Indexed \subseteq Files /\ b # 0
    BY Geometry DEF Indexed, Types, InodeTypes
  <2>2. ASSUME NEW f \in Files, b \in OwnBlocks(f)
        PROVE  \E g \in Indexed : b = index_block[g] \/ \E i \in Entry : b = names[index_block[g]][i]
    <3>1. f \in Indexed /\ b \in {index_block[f]} \cup DataBlocks(f)
      BY <2>2, HasIndexIs DEF OwnBlocks
    <3> QED
      BY <3>1, DataBlocksAre
  <2>3. ASSUME NEW f \in Indexed, b = index_block[f] \/ \E i \in Entry : b = names[index_block[f]][i]
        PROVE  \E g \in Files : b \in OwnBlocks(g)
    <3>1. f \in Files /\ HasIndex(f)
      BY <2>1, HasIndexIs
    <3>2. OwnBlocks(f) = {index_block[f]} \cup ({names[index_block[f]][i] : i \in Entry} \ {0})
      BY <3>1, DataBlocksAre DEF OwnBlocks
    <3> QED
      BY <2>1, <2>3, <3>1, <3>2
  <2> QED
    BY <2>2, <2>3
<1>2. LostBlocks = {b \in Data : b \notin bfree_bitmap \cup sliced /\ ~(\E f \in Files : b \in OwnBlocks(f))}
  BY DEF LostBlocks, Data
<1>3. \A b \in Data : Held(b) <=> b \in bfree_bitmap \cup sliced \/ \E f \in Files : b \in OwnBlocks(f)
  BY <1>1 DEF Held
<1> QED
  BY <1>2, <1>3 DEF LostAre

HeldKept == \A b \in Data : Held(b) => Held(b)'

\* Free and sliced blocks stay so or become an index block, and no name is
\* lost from an index.
LEMMA KeepsHeld ==
    ASSUME \A b \in Data : b \in bfree_bitmap \cup sliced => b \in (bfree_bitmap \cup sliced)' \/ b \in IndexSet',
           \A f \in Indexed : f \in Indexed' /\ index_block'[f] = index_block[f],
           \A f \in Indexed, i \in Entry :
             \/ names'[index_block[f]][i] = names[index_block[f]][i] \/ names[index_block[f]][i] = 0
             \/ names[index_block[f]][i] \in bfree_bitmap'
    PROVE  HeldKept
<1> SUFFICES ASSUME NEW b \in Data, Held(b) PROVE Held(b)'
  BY DEF HeldKept
<1>1. CASE b \in bfree_bitmap \cup sliced
  BY <1>1 DEF Held, IndexSet
<1>2. ASSUME NEW f \in Indexed, b = index_block[f] PROVE Held(b)'
  <2>1. f \in Indexed' /\ b = index_block'[f]
    BY <1>2
  <2> QED
    BY <2>1 DEF Held
<1>3. ASSUME NEW f \in Indexed, NEW i \in Entry, b = names[index_block[f]][i] PROVE Held(b)'
  <2>1. f \in Indexed' /\ index_block'[f] = index_block[f] /\ b # 0
    BY Geometry
  <2>2. b \in bfree_bitmap' \/ b = names'[index_block'[f]][i]
    BY <1>3, <2>1
  <2> QED
    BY <2>1, <2>2 DEF Held
<1> QED
  BY <1>1, <1>2, <1>3 DEF Held

LEMMA NamesStay ==
    ASSUME NEW x \in OnDisk, words'[x] = words[x], bytes'[x] = bytes[x], NEW i \in Entry
    PROVE  names'[x][i] = names[x][i]
BY NamesAre

LEMMA IndexApart ==
    ASSUME OwnInv, NEW f \in Indexed
    PROVE  index_block[f] \in IndexSet /\ index_block[f] \in OnDisk \ (sliced \cup bfree_bitmap)
BY RootsOnDisk DEF OwnInv, OwnedNow, Owned, Apart, IndexSet

LEMMA HeldQuiet ==
    ASSUME OwnInv, UNCHANGED <<words, bytes, sliced>>, UNCHANGED <<linked, index_block, num_slices>>,
           bfree_bitmap \ {0} \subseteq bfree_bitmap'
    PROVE  HeldKept
<1>1. Indexed' = Indexed
  BY SameIndexes
<1>2. \A b \in Data : b \in bfree_bitmap \cup sliced => b \in (bfree_bitmap \cup sliced)'
  BY Geometry
<1>3. \A f \in Indexed, i \in Entry : names'[index_block[f]][i] = names[index_block[f]][i]
  BY IndexApart, NamesStay
<1> QED
  BY <1>1, <1>2, <1>3, KeepsHeld

LEMMA HeldCalls ==
    ASSUME Types, OwnInv, NEW f \in Files, NEW ki_pos \in Offsets, NEW count \in Counts,
           \/ WriteSmall(f, ki_pos, count) \/ WriteSmallNoSpace(f, ki_pos, count)
           \/ BigNoIndex(f, ki_pos, count)
           \/ \E append \in Appends, data \in Words :
                \/ BigFirst(f, ki_pos, count, append, data)
                \/ BigAgain(f, ki_pos, count, append, data)
                \/ Convert(f, ki_pos, count, append, data)
    PROVE  HeldKept
<1>1. CASE WriteSmall(f, ki_pos, count)
  <2>1. PICK b \in Block, s \in Slice :
             /\ \/ b \in sliced /\ bfree_bitmap' = bfree_bitmap
                \/ b \in bfree_bitmap \cap Data /\ bfree_bitmap' = bfree_bitmap \ {b}
             /\ sliced' = sliced \cup {b} /\ words' = words /\ index_block[f] = 0
             /\ linked' = linked
             /\ \A g \in linked \ {f} : index_block'[g] = index_block[g] /\ num_slices'[g] = num_slices[g]
             /\ \A x \in OnDisk \ {b} : bytes'[x] = bytes[x]
    BY <1>1, WriteSmallIs
  <2>2. \A g \in Indexed : g \in Indexed' /\ index_block'[g] = index_block[g]
    BY <2>1 DEF Indexed
  <2>3. ASSUME NEW g \in Indexed, NEW i \in Entry
        PROVE  names'[index_block[g]][i] = names[index_block[g]][i]
    <3>1. index_block[g] \in OnDisk \ {b}
      BY <2>1, IndexApart
    <3> QED
      BY <2>1, <3>1, NamesStay
  <2>4. \A c \in Data : c \in bfree_bitmap \cup sliced => c \in (bfree_bitmap \cup sliced)'
    BY <2>1
  <2> QED
    BY <2>2, <2>3, <2>4, KeepsHeld
<1>2. CASE WriteSmallNoSpace(f, ki_pos, count) \/ BigNoIndex(f, ki_pos, count)
  BY <1>2, HeldQuiet DEF WriteSmallNoSpace, BigNoIndex, GetNoBlock, blockvars, inodevars
<1>3. ASSUME NEW append \in Appends, NEW data \in Words, BigFirst(f, ki_pos, count, append, data)
      PROVE  HeldKept
  <2>1. PICK b \in bfree_bitmap \cap Data :
             /\ bfree_bitmap' = bfree_bitmap \ {b} /\ IndexSet' = IndexSet \cup {b}
             /\ \A g \in linked \ {f} : index_block'[g] = index_block[g]
             /\ f \in linked \ Indexed /\ Indexed' = Indexed \cup {f}
             /\ words' = words /\ bytes' = bytes /\ sliced' = sliced
    BY <1>3, BigFirstIs
  <2>2. \A g \in Indexed : g \in Indexed' /\ index_block'[g] = index_block[g]
    BY <2>1 DEF Indexed
  <2>3. \A g \in Indexed, i \in Entry : names'[index_block[g]][i] = names[index_block[g]][i]
    BY <2>1, IndexApart, NamesStay
  <2>4. \A c \in Data : c \in bfree_bitmap \cup sliced => c \in (bfree_bitmap \cup sliced)' \/ c \in IndexSet'
    BY <2>1
  <2> QED
    BY <2>2, <2>3, <2>4, KeepsHeld
<1>4. ASSUME NEW append \in Appends, NEW data \in Words,
             \/ BigAgain(f, ki_pos, count, append, data)
             \/ Convert(f, ki_pos, count, append, data)
      PROVE  HeldKept
  BY <1>4, HeldQuiet DEF BigAgain, Convert, sbvars, blockvars, inodevars
<1> QED
  BY <1>1, <1>2, <1>3, <1>4

LEMMA HeldLoop ==
    ASSUME Types, OwnInv, HandlerStep
    PROVE  HeldKept
<1>1. CASE LoopNoSpace \/ LoopTooBig
  BY <1>1, HeldQuiet DEF LoopNoSpace, LoopTooBig, FailBig, GetNoBlock, blockvars
<1>2. CASE LoopDone
  BY <1>2, LoopDoneIs, HeldQuiet DEF sbvars, blockvars
<1>3. CASE LoopCopy \/ LoopReadError \/ LoopFault
  <2> DEFINE ib == index_block[req.f]
  <2>1. /\ InLoop /\ req.f \in Indexed /\ ib \in IndexSet /\ sliced' = sliced
        /\ UNCHANGED <<linked, index_block, num_slices>>
    BY <1>3, LoopStepIs
  <2>2. Indexed' = Indexed /\ IndexSet' = IndexSet
    BY <2>1, SameIndexes
  <2>3. CASE UNCHANGED <<words, bytes, bfree_bitmap>>
    BY <2>1, <2>3, HeldQuiet
  <2>4. ASSUME NEW b \in Data \ {ib}, BlockStep(ib, b) PROVE HeldKept
    <3>1. /\ Idx \in Entry /\ b \notin IndexSet /\ names'[ib][Idx] = b
          /\ \A x \in OnDisk \ {b}, i \in Entry : (x = ib /\ i = Idx) \/ names'[x][i] = names[x][i]
      BY <2>1, <2>2, <2>4, BlockStepIs
    <3>2. names[ib][Idx] \in {0, b} /\ bfree_bitmap \ {b} \subseteq bfree_bitmap'
      BY <2>4 DEF BlockStep
    <3> SUFFICES ASSUME NEW c \in Data, Held(c) PROVE Held(c)'
      BY DEF HeldKept
    <3>3. CASE c = b
      <4>1. req.f \in Indexed' /\ names'[index_block'[req.f]][Idx] = b
        BY <2>1, <2>2, <3>1
      <4> QED
        BY <3>1, <3>3, <4>1 DEF Held
    <3>4. CASE c # b /\ c \in bfree_bitmap \cup sliced
      BY <2>1, <3>2, <3>4 DEF Held
    <3>5. ASSUME NEW f \in Indexed, c = index_block[f] PROVE Held(c)'
      BY <2>1, <2>2, <3>5 DEF Held
    <3>6. ASSUME NEW f \in Indexed, NEW i \in Entry, c = names[index_block[f]][i], c # b PROVE Held(c)'
      <4>1. c # 0
        BY Geometry
      <4>2. index_block[f] \in OnDisk \ {b}
        BY <3>1, IndexApart
      <4>3. names'[index_block[f]][i] = c
        BY <3>1, <3>2, <3>6, <4>1, <4>2
      <4>4. f \in Indexed' /\ names'[index_block'[f]][i] = c
        BY <2>1, <2>2, <4>3
      <4> QED
        BY <4>4 DEF Held
    <3> QED
      BY <3>3, <3>4, <3>5, <3>6 DEF Held
  <2> QED
    BY <1>3, <2>3, <2>4, LoopStepIs
<1> QED
  BY <1>1, <1>2, <1>3 DEF HandlerStep

LEMMA HeldCreate ==
    ASSUME Types, OwnInv, NEW f \in Files, Create(f)
    PROVE  HeldKept
<1>1. /\ f \notin linked /\ linked' = linked \cup {f} /\ words' = words /\ bytes' = bytes
      /\ bfree_bitmap' = bfree_bitmap /\ sliced' = sliced
      /\ \A g \in linked : index_block'[g] = index_block[g] /\ num_slices'[g] = num_slices[g]
  BY DEF Create, Types, InodeTypes, sbvars, blockvars
<1>2. \A g \in Indexed : g \in Indexed' /\ index_block'[g] = index_block[g]
  BY <1>1 DEF Indexed
<1>3. \A g \in Indexed, i \in Entry : names'[index_block[g]][i] = names[index_block[g]][i]
  BY <1>1, IndexApart, NamesStay
<1> QED
  BY <1>1, <1>2, <1>3, KeepsHeld

LEMMA HeldTrunc ==
    ASSUME Types, OwnInv, NEW f \in Files, OpenTrunc(f)
    PROVE  HeldKept
<1> DEFINE ib == index_block[f]
<1>1. f \in Indexed /\ UNCHANGED <<sliced, linked, index_block, num_slices>>
  BY OpenTruncGives
<1>2. PICK freed : /\ Gives(ib, freed) /\ bfree_bitmap' = bfree_bitmap \cup freed
                   /\ \A i \in Entry : names'[ib][i] = names[ib][i] \/ names[ib][i] \in freed
  BY OpenTruncGives
<1>3. freed \subseteq Data \ IndexSet
  <2>1. freed \subseteq {names[ib][i] : i \in Entry} \ {0}
    BY <1>2 DEF Gives
  <2> QED
    BY <1>1, <2>1, FreedIs
<1>4. Indexed' = Indexed
  BY <1>1, SameIndexes
<1>5. ASSUME NEW g \in Indexed, NEW i \in Entry
      PROVE  \/ names'[index_block[g]][i] = names[index_block[g]][i]
             \/ names[index_block[g]][i] \in bfree_bitmap'
  <2>1. CASE index_block[g] = ib
    BY <1>2, <2>1
  <2>2. CASE index_block[g] # ib
    <3>1. index_block[g] \in OnDisk /\ index_block[g] \notin freed \cup {ib}
      BY <1>3, <2>2, IndexApart
    <3> QED
      BY <1>2, <3>1, GivesNames
  <2> QED
    BY <2>1, <2>2
<1> QED
  BY <1>1, <1>2, <1>4, <1>5, KeepsHeld

LEMMA HeldUnlinkBig ==
    ASSUME Types, OwnInv, SizeInv, NEW f \in Files, UnlinkBig(f) \/ UnlinkBlind(f)
    PROVE  HeldKept \/ (f \in linked \ linked' /\ (Overhangs(f) \/ UnlinkBlind(f)))
<1> DEFINE ib == index_block[f]
<1>1. /\ f \in Indexed /\ f \in linked /\ i_blocks[f] # 0 /\ ClearInode(f) /\ sliced' = sliced
  BY UnlinkBigGives
<1>2. PICK freed : /\ Gives(ib, freed) /\ bfree_bitmap' = bfree_bitmap \cup freed \cup {ib}
                   /\ \/ UnlinkBlind(f)
                      \/ \A i \in Entry : names[ib][i] # 0 /\ i < i_blocks[f] - 1 => names[ib][i] \in freed
  BY UnlinkBigGives
<1>3. /\ linked' = linked \ {f} /\ Indexed' = Indexed \ {f}
      /\ \A g \in linked' : index_block'[g] = index_block[g]
  BY <1>1, ClearInodeIs
<1>4. freed \subseteq Data \ IndexSet
  <2>1. freed \subseteq {names[ib][i] : i \in Entry} \ {0}
    BY <1>2 DEF Gives
  <2> QED
    BY <1>1, <2>1, FreedIs
<1>5. CASE UnlinkBlind(f)
  BY <1>1, <1>3, <1>5
\* An entry past the blocks that i_blocks counts is past the end of the file.
<1>6. ASSUME NEW i \in Entry, names[ib][i] # 0, ~(i < i_blocks[f] - 1) PROVE Overhangs(f)
  <2>1. i_blocks[f] - 1 \in Nat /\ i \in Nat /\ BlockSize \in Nat /\ i_size[f] \in Nat
    BY <1>1, Geometry DEF Types, InodeTypes
  <2>2. (i_blocks[f] - 1) * BlockSize <= i * BlockSize
    BY <1>6, <2>1, Times
  <2>3. i_size[f] <= (i_blocks[f] - 1) * BlockSize
    BY <1>1 DEF SizeInv, SizesFit, Fits, Capacity
  <2>4. i * BlockSize >= i_size[f]
    <3>1. PICK p, q \in Nat : p = (i_blocks[f] - 1) * BlockSize /\ q = i * BlockSize
      BY <2>1
    <3> QED
      BY <2>1, <2>2, <2>3, <3>1
  <2>5. i \in DataEntries(f)
    BY <1>1, <1>6, DataBlocksAre
  <2> QED
    BY <1>1, <2>4, <2>5, HasIndexIs DEF Overhangs
<1>7. ASSUME \A i \in Entry : names[ib][i] # 0 => names[ib][i] \in freed PROVE HeldKept
  <2> SUFFICES ASSUME NEW b \in Data, Held(b) PROVE Held(b)'
    BY DEF HeldKept
  <2>1. CASE b \in bfree_bitmap \cup sliced
    BY <1>1, <1>2, <2>1 DEF Held
  <2>2. ASSUME NEW g \in Indexed, \/ b = index_block[g]
                                  \/ \E i \in Entry : b = names[index_block[g]][i]
        PROVE  Held(b)'
    <3>1. CASE g = f
      <4>1. b = ib \/ b \in freed
        BY <1>7, <2>2, <3>1, Geometry
      <4> QED
        BY <1>2, <4>1 DEF Held
    <3>2. CASE g # f
      <4>1. g \in Indexed' /\ index_block'[g] = index_block[g]
        BY <1>3, <3>2 DEF Indexed
      <4>2. index_block[g] \in OnDisk /\ index_block[g] \notin freed \cup {ib}
        BY <1>1, <1>4, <3>2, IndexApart DEF OwnInv, OneIndexEach
      <4>3. \A i \in Entry : names'[index_block[g]][i] = names[index_block[g]][i]
        BY <1>2, <4>2, GivesNames
      <4> QED
        BY <2>2, <4>1, <4>3 DEF Held
    <3> QED
      BY <3>1, <3>2
  <2> QED
    BY <2>1, <2>2 DEF Held
<1> QED
  <2>1. CASE \E i \in Entry : names[ib][i] # 0 /\ ~(i < i_blocks[f] - 1)
    BY <1>1, <1>3, <1>6, <2>1
  <2>2. CASE ~UnlinkBlind(f) /\ \A i \in Entry : names[ib][i] # 0 => i < i_blocks[f] - 1
    <3>1. \A i \in Entry : names[ib][i] # 0 => names[ib][i] \in freed
      BY <1>2, <2>2
    <3> QED
      BY <1>7, <3>1
  <2> QED
    BY <1>5, <2>1, <2>2

LEMMA HeldUnlinkSmall ==
    ASSUME Types, OwnInv, NEW f \in Files, UnlinkSmall(f)
    PROVE  HeldKept \/ (f \in linked \ linked' /\ Overhangs(f))
<1>1. f \in linked /\ DeleteSlice(f) /\ ClearInode(f) /\ i_blocks[f] = 0
  BY DEF UnlinkSmall, MayCall, is_small_file
<1>2. /\ linked' = linked \ {f} /\ Indexed' = Indexed \ {f}
      /\ \A g \in linked' : index_block'[g] = index_block[g]
  BY <1>1, ClearInodeIs
<1>3. CASE f \in Indexed
  BY <1>1, <1>2, <1>3, HasIndexIs DEF Overhangs
<1>4. CASE f \notin Indexed
  <2>1. \A g \in Indexed : g \in Indexed' /\ index_block'[g] = index_block[g]
    BY <1>2, <1>4 DEF Indexed
  <2>2. PICK gone \in SUBSET sliced :
             /\ bfree_bitmap' = bfree_bitmap \cup gone /\ sliced' = sliced \ gone
             /\ \A x \in OnDisk \ sliced : words'[x] = words[x] /\ bytes'[x] = bytes[x]
    BY <1>1, DeleteSliceIs
  <2>3. \A g \in Indexed, i \in Entry : names'[index_block[g]][i] = names[index_block[g]][i]
    BY <2>2, IndexApart, NamesStay
  <2>4. \A b \in Data : b \in bfree_bitmap \cup sliced => b \in (bfree_bitmap \cup sliced)'
    BY <2>2
  <2> QED
    BY <2>1, <2>3, <2>4, KeepsHeld
<1> QED
  BY <1>3, <1>4

LEMMA HeldNext ==
    Types /\ OwnInv /\ SizeInv /\ LostAre /\ LostAre' /\ [Next]_vars =>
      [(\A b \in LostBlocks' : b \in LostBlocks)
       \/ \E f \in linked \ linked' : Overhangs(f) \/ UnlinkBlind(f)]_vars
<1> SUFFICES ASSUME Types, OwnInv, SizeInv, LostAre, LostAre', Next
             PROVE  \/ \A b \in LostBlocks' : b \in LostBlocks
                    \/ \E f \in linked \ linked' : Overhangs(f) \/ UnlinkBlind(f)
                    \/ UNCHANGED vars
  OBVIOUS
<1>1. CASE HeldKept
  BY <1>1 DEF HeldKept, LostAre
<1>2. CASE HandlerStep
  BY <1>1, <1>2, HeldLoop
<1>3. CASE Call
  <2>1. CASE \E f \in Files : \/ Create(f) \/ OpenTrunc(f)
                              \/ UnlinkSmall(f) \/ UnlinkBig(f) \/ UnlinkBlind(f)
    BY <1>1, <2>1, HeldCreate, HeldTrunc, HeldUnlinkSmall, HeldUnlinkBig
  <2>2. CASE \/ \E f \in Files : OpenTruncError(f)
             \/ \E f \in Files, ki_pos \in Offsets, count \in Counts :
                  \/ ConvertRefused(f, ki_pos, count)
                  \/ \E append \in Appends : BigRefused(f, ki_pos, count, append)
    BY <2>2 DEF ConvertRefused, BigRefused, OpenTruncError
  <2>3. CASE \E f \in Files, ki_pos \in Offsets, count \in Counts :
               \/ WriteSmall(f, ki_pos, count) \/ WriteSmallNoSpace(f, ki_pos, count)
               \/ BigNoIndex(f, ki_pos, count)
               \/ \E append \in Appends, data \in Words :
                    \/ BigFirst(f, ki_pos, count, append, data)
                    \/ BigAgain(f, ki_pos, count, append, data)
                    \/ Convert(f, ki_pos, count, append, data)
    BY <1>1, <2>3, HeldCalls
  <2> QED
    BY <1>3, <2>1, <2>2, <2>3 DEF Call
<1> QED
  BY <1>2, <1>3 DEF Next

(* Space is lost in one way only, on a partition of any size and whatever   *)
(* fails: by deleting a file whose index names blocks past its end, or      *)
(* whose index block cannot be read.  Unlink frees the first i_blocks - 1   *)
(* entries, and write_big_file and O_TRUNC keep i_blocks at what the size   *)
(* needs, or more.  This too holds as long as no packed number and no stale *)
(* data is taken for an index.                                              *)
THEOREM LeaksOnlyByUnlink == Spec /\ [][~Misread]_vars => NoBlockLeak
<1>1. Types /\ OwnInv /\ [Next]_vars /\ [~Misread]_vars => OwnInv'
  BY OwnNext
<1>2. Types /\ OwnInv /\ SizeInv /\ LostAre /\ LostAre' /\ [Next]_vars =>
        [(\A b \in LostBlocks' : b \in LostBlocks)
         \/ \E f \in linked \ linked' : Overhangs(f) \/ UnlinkBlind(f)]_vars
  BY HeldNext
<1> QED
  BY <1>1, <1>2, TypesInit, TypesNext, OwnInit, SizeInit, SizeNext, Losing, PTL DEF Spec, NoBlockLeak
-----------------------------------------------------------------------------
(* The largest file *)

Limit == IndexLen * BlockSize
SizesLimited == \A f \in Files : i_size[f] <= Limit
LoopLimited == pc = "loop" => req.old_size <= Limit /\ (req.count = 0 => req.pos <= Limit)

LEMMA LimitIs == Limit \in Nat /\ BlockSize <= Limit /\ SliceSize <= BlockSize
<1>1. ASSUME NEW a \in Nat \ {0}, NEW b \in Nat \ {0} PROVE a * b \in Nat /\ b <= a * b
  BY <1>1
<1> QED
  BY <1>1, Geometry DEF Limit, BlockSize

\* What a round of the loop writes ends within the block it is in.
LEMMA RoundLimited ==
    ASSUME Types, InLoop
    PROVE  req.pos + ToWrite <= Limit
<1> DEFINE q == req.pos \div BlockSize
           r == req.pos % BlockSize
<1>1. req.pos \in Nat /\ req.count \in Nat
  BY LoopIs DEF Req
<1>2. q \in Nat /\ r \in 0..(BlockSize - 1) /\ req.pos = BlockSize * q + r
  BY <1>1, DivIs, Splits, Geometry
<1>3. q + 1 <= IndexLen
  BY <1>2, Geometry DEF InLoop, Idx
<1>4. InBlock = BlockSize - r /\ ToWrite <= InBlock
  BY <1>1, LoopIs DEF InBlock, ToWrite
<1> HIDE DEF q, r
<1>5. ASSUME NEW a \in Nat, NEW b \in Nat, NEW c \in Nat, a + 1 <= b PROVE c * a + c <= b * c
  <2>1. PICK d \in Nat : b = a + 1 + d
    <3>1. b - (a + 1) \in Nat /\ b = a + 1 + (b - (a + 1))
      BY <1>5
    <3> QED
      BY <3>1
  <2>2. b * c = c * a + c + d * c /\ d * c \in Nat
    BY <2>1
  <2> QED
    BY <2>2
<1>6. BlockSize * q + BlockSize <= Limit
  BY <1>2, <1>3, <1>5, Geometry DEF Limit
<1>7. ToWrite \in Nat /\ BlockSize * q \in Nat /\ Limit \in Nat
  BY <1>1, <1>2, LoopIs, LimitIs, Geometry
<1> QED
  BY <1>2, <1>4, <1>6, <1>7, Geometry

LEMMA LimitInit == Init => SizesLimited /\ LoopLimited
BY LimitIs DEF Init, SizesLimited, LoopLimited

LEMMA LimitNext ==
    ASSUME 0 \notin Counts, Types, SizesLimited, LoopLimited, [Next]_vars
    PROVE  SizesLimited' /\ LoopLimited'
<1>a. i_size \in [Files -> Nat] /\ Limit \in Nat
  BY LimitIs DEF Types, InodeTypes
<1>b. pc = "loop" => /\ req \in Req /\ req.f \in Files /\ req.pos \in Nat /\ req.count \in Nat
                     /\ req.old_size \in Nat
  <2>1. pc = "loop" => req \in Req
    BY DEF Types, LoopTypes
  <2> QED
    BY <2>1 DEF Req
<1>1. CASE UNCHANGED <<i_size, pc, req>>
  BY <1>1 DEF SizesLimited, LoopLimited
<1>2. ASSUME NEW f \in Files, NEW n \in Nat, n <= Limit, i_size' = [i_size EXCEPT ![f] = n]
      PROVE  SizesLimited'
  BY <1>2, <1>a DEF SizesLimited
<1>3. ASSUME pc' = "idle" PROVE LoopLimited'
  BY <1>3 DEF LoopLimited
\* The loop starts with bytes to write.
<1>4. ASSUME NEW f \in Files, NEW pos, NEW count, NEW data, NEW convert, count # 0,
             StartLoop(f, pos, count, data, convert)
      PROVE  LoopLimited'
  BY <1>4 DEF StartLoop, LoopLimited, SizesLimited
<1>5. ASSUME NEW f \in Files, NEW ki_pos \in Offsets, NEW count \in Counts
      PROVE  /\ ki_pos \in Nat /\ count \in Nat \ {0}
             /\ NewSize(f, ki_pos, count) \in Nat
             /\ \A append : NewSize(f, StartsAt(f, ki_pos, append), count) # 0
  <2>1. ki_pos \in Nat /\ count \in Nat \ {0} /\ i_size[f] \in Nat
    BY <1>a, <1>5, InputAssumption
  <2> QED
    BY <2>1 DEF NewSize, StartsAt, MaxOf
<1>6. ASSUME NEW f \in Files, NEW ki_pos \in Offsets, NEW count \in Counts, WriteSmall(f, ki_pos, count)
      PROVE  SizesLimited' /\ LoopLimited'
  <2>1. /\ NewSize(f, ki_pos, count) <= BlockSize - SliceSize /\ pc = "idle" /\ pc' = pc
        /\ i_size' = [i_size EXCEPT ![f] = NewSize(f, ki_pos, count)]
    BY <1>6 DEF WriteSmall, MayCall, will_be_small
  <2>2. NewSize(f, ki_pos, count) <= Limit
    BY <1>a, <1>5, <2>1, LimitIs, Geometry
  <2> QED
    BY <1>2, <1>3, <1>5, <2>1, <2>2
<1>7. ASSUME NEW f \in Files, NEW ki_pos \in Offsets, NEW count \in Counts, NEW append \in Appends,
             NEW data \in Words,
             BigFirst(f, ki_pos, count, append, data) \/ BigAgain(f, ki_pos, count, append, data)
      PROVE  SizesLimited' /\ LoopLimited'
  <2>1. i_size' = i_size
    BY <1>7 DEF BigFirst, BigAgain, inodevars
  <2>2. \/ UNCHANGED <<pc, req>>
        \/ StartLoop(f, StartsAt(f, ki_pos, append), count, data, FALSE)
    BY <1>7 DEF BigFirst, BigAgain
  <2> QED
    BY <1>1, <1>4, <1>5, <2>1, <2>2 DEF SizesLimited
<1>8. ASSUME NEW f \in Files, NEW ki_pos \in Offsets, NEW count \in Counts, NEW append \in Appends,
             NEW data \in Words, Convert(f, ki_pos, count, append, data)
      PROVE  SizesLimited' /\ LoopLimited'
  <2>1. /\ i_size' = [i_size EXCEPT ![f] = 0]
        /\ StartLoop(f, 0, NewSize(f, StartsAt(f, ki_pos, append), count), data, TRUE)
    BY <1>8 DEF Convert
  <2>2. SizesLimited'
    BY <1>a, <2>1 DEF SizesLimited
  <2>3. NewSize(f, StartsAt(f, ki_pos, append), count) # 0
    BY <1>5
  <2> QED
    BY <1>4, <2>1, <2>2, <2>3
<1>9. CASE LoopCopy
  <2>1. InLoop /\ UNCHANGED <<i_size, pc>>
        /\ req' = [req EXCEPT !.pos = @ + ToWrite, !.count = @ - ToWrite]
    BY <1>9 DEF LoopCopy, inodevars
  <2>2. req'.pos = req.pos + ToWrite /\ req'.old_size = req.old_size
    BY <1>b, <2>1 DEF Req, InLoop
  <2>3. req'.pos <= Limit
    BY <2>1, <2>2, RoundLimited
  <2> QED
    BY <2>1, <2>2, <2>3 DEF LoopLimited, SizesLimited, InLoop
<1>10. CASE LoopNoSpace \/ LoopTooBig \/ LoopReadError \/ LoopFault
  <2>1. FailBig /\ pc = "loop"
    BY <1>10 DEF LoopNoSpace, LoopTooBig, LoopReadError, LoopFault, InLoop
  <2>2. pc' = "idle" /\ i_size' = [i_size EXCEPT ![req.f] = IF req.convert THEN req.old_size ELSE @]
    BY <2>1 DEF FailBig, Return
  <2>3. CASE req.convert
    BY <1>2, <1>3, <1>b, <2>1, <2>2, <2>3 DEF LoopLimited
  <2>4. CASE ~req.convert
    <3>1. i_size' = i_size
      BY <1>a, <1>b, <2>1, <2>2, <2>4
    <3> QED
      BY <1>3, <2>2, <3>1 DEF SizesLimited
  <2> QED
    BY <2>3, <2>4
<1>11. CASE LoopDone
  <2>1. /\ pc = "loop" /\ req.count = 0 /\ pc' = "idle"
        /\ i_size' = [i_size EXCEPT ![req.f] = MaxOf(req.pos, i_size[req.f])]
    BY <1>11 DEF LoopDone, Return
  <2>2. req.pos <= Limit /\ i_size[req.f] <= Limit /\ i_size[req.f] \in Nat
    BY <1>a, <1>b, <2>1 DEF LoopLimited, SizesLimited
  <2>3. MaxOf(req.pos, i_size[req.f]) \in Nat /\ MaxOf(req.pos, i_size[req.f]) <= Limit
    BY <1>b, <2>1, <2>2 DEF MaxOf
  <2> QED
    BY <1>2, <1>3, <1>b, <2>1, <2>3
<1>12. ASSUME NEW f \in Files,
              Create(f) \/ OpenTrunc(f) \/ UnlinkSmall(f) \/ UnlinkBig(f) \/ UnlinkBlind(f)
       PROVE  SizesLimited' /\ LoopLimited'
  <2>1. i_size' = [i_size EXCEPT ![f] = 0] /\ pc = "idle" /\ pc' = pc
    BY <1>12 DEF Create, OpenTrunc, UnlinkSmall, UnlinkBig, UnlinkBlind, ClearInode, MayCall
  <2>2. SizesLimited'
    BY <1>a, <2>1 DEF SizesLimited
  <2> QED
    BY <1>3, <2>1, <2>2
<1>13. ASSUME NEW f \in Files, NEW ki_pos \in Offsets, NEW count \in Counts,
              \/ WriteSmallNoSpace(f, ki_pos, count) \/ BigNoIndex(f, ki_pos, count)
              \/ ConvertRefused(f, ki_pos, count)
              \/ \E append \in Appends : BigRefused(f, ki_pos, count, append)
       PROVE  SizesLimited' /\ LoopLimited'
  BY <1>1, <1>13 DEF WriteSmallNoSpace, BigNoIndex, ConvertRefused, BigRefused, inodevars, vars
<1>14. ASSUME NEW f \in Files, OpenTruncError(f) PROVE SizesLimited' /\ LoopLimited'
  BY <1>1, <1>14 DEF OpenTruncError, inodevars, vars
<1>15. CASE Call
  <2>1. CASE \E f \in Files : \/ Create(f) \/ OpenTrunc(f) \/ OpenTruncError(f)
                              \/ UnlinkSmall(f) \/ UnlinkBig(f) \/ UnlinkBlind(f)
    BY <1>12, <1>14, <2>1
  <2>2. CASE \E f \in Files, ki_pos \in Offsets, count \in Counts :
               \/ WriteSmall(f, ki_pos, count) \/ WriteSmallNoSpace(f, ki_pos, count)
               \/ BigNoIndex(f, ki_pos, count) \/ ConvertRefused(f, ki_pos, count)
               \/ \E append \in Appends : BigRefused(f, ki_pos, count, append)
    BY <1>6, <1>13, <2>2
  <2>3. CASE \E f \in Files, ki_pos \in Offsets, count \in Counts, append \in Appends, data \in Words :
               \/ BigFirst(f, ki_pos, count, append, data)
               \/ BigAgain(f, ki_pos, count, append, data)
               \/ Convert(f, ki_pos, count, append, data)
    BY <1>7, <1>8, <2>3
  <2> QED
    BY <1>15, <2>1, <2>2, <2>3 DEF Call
<1>16. CASE UNCHANGED vars
  BY <1>1, <1>16 DEF vars, inodevars
<1> QED
  BY <1>9, <1>10, <1>11, <1>15, <1>16 DEF Next, HandlerStep

(* "limiting the size of a file to 4 MiB": no file is longer than its index *)
(* can name blocks, whatever is written where and wherever a write stops,   *)
(* unless somebody writes no bytes: the loop of write_big_file tests the    *)
(* index only while bytes are left, and a write of none behind the limit    *)
(* goes on to raise i_size.                                                 *)
THEOREM SizesStayLimited == 0 \notin Counts => (Spec => []SizeLimited)
<1> SUFFICES ASSUME 0 \notin Counts PROVE Spec => []SizeLimited
  OBVIOUS
<1> DEFINE LimitInv == SizesLimited /\ LoopLimited
<1>1. Init => LimitInv
  BY LimitInit
<1>2. Types /\ LimitInv /\ [Next]_vars => LimitInv'
  BY LimitNext
<1>3. Types /\ LimitInv => SizeLimited
  BY DEF Types, InodeTypes, SizesLimited, SizeLimited, Limit
<1> QED
  BY <1>1, <1>2, <1>3, TypesInit, TypesNext, PTL DEF Spec
=============================================================================
