--------------------------- MODULE SmallFileProofs ---------------------------
(* Theorems about SmallFile, for every number of files, blocks and slices   *)
(* and every workload.                                                      *)
EXTENDS SmallFileStore, FiniteSetTheorems, WellFoundedInduction, TLAPS

Below == {ss \in Nat \X Nat : ss[1] < ss[2]}

LEMMA BelowWellFounded == IsWellFoundedOn(Below, Nat)
BY NatLessThanWellFounded DEF OpToRel, Below

LEMMA BelowIs == \A a, b \in Nat : a < b => <<a, b>> \in Below
BY DEF Below

\* A set of natural numbers has a least member: with it a statement about all
\* numbers is proved from its first counterexample.
LEMMA LeastNat ==
    ASSUME NEW S \in SUBSET Nat, S # {}
    PROVE  \E x \in S : \A y \in S : x <= y
<1>1. PICK x \in S : \A y \in S : ~ (<<y, x>> \in Below)
  BY WFMin, BelowWellFounded
<1>2. \A y \in S : ~ (y < x)
  BY <1>1, BelowIs, Zenon
<1> QED
  BY <1>2

USE DEF Block, Slice, AllFree, ErrBlock

\* DIV_ROUND_UP yields a natural number.
LEMMA NumSlicesNat ==
    ASSUME NEW size \in Nat
    PROVE  NumSlices(size) \in Nat
<1>1. SliceSize \in Nat \ {0}
  BY GeometryAssumption
<1>2. size + SliceSize - 1 \in Nat
  BY <1>1
<1> QED
  BY <1>1, <1>2 DEF NumSlices

LEMMA NewSizeNat ==
    ASSUME NEW f \in Files, NEW pos \in Nat, NEW count \in Nat, i_size \in [Files -> Nat]
    PROVE  NewSize(f, pos, count) \in Nat
BY DEF NewSize, MaxOf

\* The copy keeps the shape of data.
LEMMA CopyInType ==
    ASSUME data \in [Block -> [Slice -> SUBSET (Files \cup {"stale"})]],
           NEW b \in Block, NEW S, NEW tags \in SUBSET (Files \cup {"stale"})
    PROVE  CopyIn(b, S, tags) \in [Block -> [Slice -> SUBSET (Files \cup {"stale"})]]
BY DEF CopyIn

\* What put_block adds to the bitmap is a block number it accepts.
LEMMA PutBlockType ==
    ASSUME SbTypeOK, NEW b, PutBlock(b)
    PROVE  bfree_bitmap' \subseteq 0..NrBlocks /\ nr_free_blocks' \in Int
<1>1. bfree_bitmap' \subseteq 0..NrBlocks
  BY Zenon DEF SbTypeOK, PutBlock, Puts
<1>2. Counted(b) \in Int
  BY DEF Counted
<1>3. nr_free_blocks \in Int /\ nr_free_blocks' = nr_free_blocks + Counted(b)
  BY DEF SbTypeOK, PutBlock
<1> QED
  BY <1>1, <1>2, <1>3

\* A request is a record of the declared shape.
LEMMA WriteReqType ==
    ASSUME InodeTypeOK, NEW f \in Files, NEW size \in Nat, NEW pos \in Nat, NEW count \in Nat,
           NEW user \in BOOLEAN, NEW tags \in SUBSET (Files \cup {"stale"}),
           NEW move \in BOOLEAN
    PROVE  /\ WriteReq(f, size, pos, count, user, tags, move) \in Req
           /\ [WriteReq(f, size, pos, count, user, tags, move) EXCEPT !.op = "unlink"] \in Req
BY DEF InodeTypeOK, WriteReq, Req

\* Leaving a handler.
LEMMA ReturnType == Return => CallTypeOK'
BY GeometryAssumption DEF Return, CallTypeOK

LEMMA FailWriteType ==
    ASSUME TypeOK, pc \in {"start", "scan"}, FailWrite, UNCHANGED linked,
           num_slices' \in [Files -> Nat]
    PROVE  InodeTypeOK' /\ CallTypeOK'
<1>1. req \in Req
  BY DEF TypeOK, CallTypeOK
<1> QED
  BY <1>1, ReturnType DEF TypeOK, InodeTypeOK, FailWrite, Req

LEMMA DeleteReturnsType ==
    ASSUME TypeOK, pc \in {"free", "walk"}, DeleteReturns
    PROVE  InodeTypeOK' /\ CallTypeOK'
<1>1. req \in Req
  BY DEF TypeOK, CallTypeOK
<1> QED
  BY <1>1, ReturnType, GeometryAssumption DEF TypeOK, InodeTypeOK, DeleteReturns, Req

LEMMA TypeOKInit == Init => TypeOK
<1> SUFFICES ASSUME Init PROVE TypeOK
  OBVIOUS
<1> USE GeometryAssumption DEF Init
<1>1. SbTypeOK
  BY DEF SbTypeOK
<1>2. BlockTypeOK
  BY DEF BlockTypeOK
<1>3. InodeTypeOK
  BY DEF InodeTypeOK
<1>4. CallTypeOK
  <2>1. cur \in 0..ErrBlock /\ prev \in 0..(NrBlocks - 1)
    OBVIOUS
  <2> QED
    BY <2>1, Zenon DEF CallTypeOK
<1>5. other \subseteq Block
  OBVIOUS
<1> QED
  BY <1>1, <1>2, <1>3, <1>4, <1>5 DEF TypeOK

\* Words that O_TRUNC puts back are bits of the bitmap, and finitely many.
LEMMA LaterWordsAre ==
    ASSUME NEW w, NEW more \in LaterWords(w)
    PROVE  more \in SUBSET (0..NrBlocks) /\ IsFiniteSet(more) /\ Cardinality(more) \in Nat
<1>1. more \in SUBSET (0..NrBlocks)
  BY GeometryAssumption DEF LaterWords
<1>2. IsFiniteSet(0..NrBlocks)
  BY FS_Interval, GeometryAssumption
<1>3. IsFiniteSet(more)
  BY <1>1, <1>2, FS_Subset
<1> QED
  BY <1>1, <1>3, FS_CardinalityType

LEMMA TypeOKNext == TypeOK /\ [Next]_vars => TypeOK'
<1> SUFFICES ASSUME TypeOK, [Next]_vars PROVE TypeOK'
  OBVIOUS
<1>a. SbTypeOK /\ BlockTypeOK /\ InodeTypeOK /\ CallTypeOK /\ other \subseteq Block /\ oops \in BOOLEAN
  BY DEF TypeOK
<1>1. ASSUME NEW f \in Files, Create(f) PROVE TypeOK'
  <2>1. InodeTypeOK'
    BY <1>a, <1>1, GeometryAssumption DEF InodeTypeOK, Create
  <2> QED
    BY <1>a, <1>1, <2>1 DEF TypeOK, Create, SbTypeOK, BlockTypeOK, CallTypeOK,
       sbvars, blockvars, callvars
<1>2. ASSUME NEW f \in Files, NEW ki_pos \in Offsets, NEW count \in Counts, NEW append \in Appends,
             \/ WriteNew(f, ki_pos, count, append)
             \/ WriteInPlace(f, ki_pos, count, append)
             \/ WriteInPlaceFault(f, ki_pos, count, append)
             \/ WriteMove(f, ki_pos, count, append)
             \/ WriteMoveLost(f, ki_pos, count, append)
      PROVE  TypeOK'
  <2> DEFINE pos == StartsAt(f, ki_pos, append)
             size == NewSize(f, pos, count)
  <2>1. pos \in Nat /\ count \in Nat /\ ki_pos \in Nat
    BY <1>a, InputAssumption DEF StartsAt, InodeTypeOK
  <2>2. size \in Nat /\ NumSlices(size) \in Nat
    BY <1>a, <2>1, NewSizeNat, NumSlicesNat DEF InodeTypeOK
  <2>3. CASE WriteNew(f, ki_pos, count, append)
    <3>1. CallTypeOK'
      <4>1. req' = WriteReq(f, size, pos, count, TRUE, {f}, FALSE)
        BY <2>3 DEF WriteNew
      <4>2. req' \in Req
        BY <1>a, <4>1, <2>1, <2>2, WriteReqType
      <4> QED
        BY <1>a, <2>3, <4>2 DEF WriteNew, CallTypeOK
    <3> QED
      BY <1>a, <2>3, <3>1 DEF TypeOK, WriteNew, SbTypeOK, BlockTypeOK, InodeTypeOK,
         sbvars, blockvars, inodevars
  <2>4. CASE WriteInPlace(f, ki_pos, count, append)
    <3>1. bno[f] \in Block
      BY <1>a, <2>4 DEF WriteInPlace, InodeTypeOK
    <3>2. BlockTypeOK'
      <4>1. data' = CopyIn(bno[f], Touched(slice_no[f], pos, count), {f})
        BY <2>4 DEF WriteInPlace
      <4>2. data' \in [Block -> [Slice -> SUBSET (Files \cup {"stale"})]]
        BY <1>a, <3>1, <4>1, CopyInType DEF BlockTypeOK
      <4> QED
        BY <1>a, <2>4, <4>2 DEF WriteInPlace, BlockTypeOK
    <3>3. SbTypeOK' /\ InodeTypeOK'
      BY <1>a, <2>2, <2>4 DEF WriteInPlace, SbTypeOK, InodeTypeOK
    <3> QED
      BY <1>a, <2>4, <3>2, <3>3 DEF TypeOK, WriteInPlace, CallTypeOK, callvars
  <2>5. CASE WriteInPlaceFault(f, ki_pos, count, append)
    <3>1. bno[f] \in Block
      BY <1>a, <2>5 DEF WriteInPlaceFault, InodeTypeOK
    <3>2. BlockTypeOK'
      <4>1. PICK copied \in 0..(count - 1) :
               data' = CopyIn(bno[f], Touched(slice_no[f], pos, copied), {f})
        BY <2>5 DEF WriteInPlaceFault
      <4>2. data' \in [Block -> [Slice -> SUBSET (Files \cup {"stale"})]]
        BY <1>a, <3>1, <4>1, CopyInType DEF BlockTypeOK
      <4> QED
        BY <1>a, <2>5, <4>2 DEF WriteInPlaceFault, BlockTypeOK
    <3> QED
      BY <1>a, <2>5, <3>2 DEF TypeOK, WriteInPlaceFault, SbTypeOK, InodeTypeOK, CallTypeOK,
         sbvars, inodevars, callvars
  <2>6. CASE WriteMove(f, ki_pos, count, append)
    <3>1. bno[f] \in Block
      BY <1>a, <2>6 DEF WriteMove, InodeTypeOK
    <3>2. {f} \cup TagsOf(f, i_size[f]) \in SUBSET (Files \cup {"stale"})
      <4>1. \A s \in Slice : data[bno[f]][s] \in SUBSET (Files \cup {"stale"})
        BY <1>a, <3>1 DEF BlockTypeOK
      <4>2. TagsOf(f, i_size[f]) \subseteq Files \cup {"stale"}
        BY <4>1, Zenon DEF TagsOf
      <4> QED
        BY <4>2
    <3>3. req' \in Req
      <4>1. \/ req' = WriteReq(f, count, 0, count, TRUE, {f}, TRUE)
            \/ req' = WriteReq(f, size, 0, size, FALSE, {f} \cup TagsOf(f, i_size[f]), TRUE)
        BY <2>6 DEF WriteMove
      <4>2. WriteReq(f, count, 0, count, TRUE, {f}, TRUE) \in Req
        BY <1>a, <2>1, WriteReqType
      <4>3. WriteReq(f, size, 0, size, FALSE, {f} \cup TagsOf(f, i_size[f]), TRUE) \in Req
        <5> HIDE DEF size
        <5> QED
          BY <1>a, <2>2, <3>2, WriteReqType
      <4> QED
        BY <4>1, <4>2, <4>3
    <3>4. CallTypeOK'
      BY <1>a, <2>6, <3>3 DEF WriteMove, CallTypeOK
    <3>5. InodeTypeOK'
      BY <1>a, <2>6, GeometryAssumption DEF WriteMove, InodeTypeOK
    <3> QED
      BY <1>a, <2>6, <3>4, <3>5 DEF TypeOK, WriteMove, SbTypeOK, BlockTypeOK, sbvars, blockvars
  <2>7. CASE WriteMoveLost(f, ki_pos, count, append)
    <3>1. InodeTypeOK'
      BY <1>a, <2>7, GeometryAssumption DEF WriteMoveLost, InodeTypeOK
    <3> QED
      BY <1>a, <2>7, <3>1 DEF TypeOK, WriteMoveLost, SbTypeOK, BlockTypeOK, CallTypeOK,
         sbvars, blockvars, callvars
  <2> QED
    BY <1>2, <2>3, <2>4, <2>5, <2>6, <2>7
<1>3. ASSUME UNCHANGED vars PROVE TypeOK'
  BY <1>a, <1>3 DEF TypeOK, SbTypeOK, BlockTypeOK, InodeTypeOK, CallTypeOK,
     vars, sbvars, blockvars, inodevars, callvars
<1>4. CASE StartAtHead
  <2>1. cur' \in Block
    BY <1>a, <1>4, GeometryAssumption DEF StartAtHead, Readable, SbTypeOK
  <2>2. CallTypeOK'
    BY <1>a, <1>4, <2>1, GeometryAssumption DEF StartAtHead, CallTypeOK
  <2> QED
    BY <1>a, <1>4, <2>2 DEF TypeOK, StartAtHead, SbTypeOK, BlockTypeOK, InodeTypeOK,
       sbvars, blockvars, inodevars
<1>5. CASE StartReadError
  <2>1. InodeTypeOK' /\ CallTypeOK'
    BY <1>a, <1>5, FailWriteType DEF StartReadError, InodeTypeOK
  <2> QED
    BY <1>a, <1>5, <2>1 DEF TypeOK, StartReadError, SbTypeOK, BlockTypeOK, sbvars, blockvars
<1>6. CASE StartAlloc
  <2>1. PICK b \in Block : TakeSliceBlock(b) /\ s_free_sliced_blocks' = b /\ cur' = b
    BY <1>6 DEF StartAlloc
  <2>2. SbTypeOK'
    BY <1>a, <1>6, <2>1, GeometryAssumption DEF StartAlloc, TakeSliceBlock, SbTypeOK
  <2>3. BlockTypeOK'
    BY <1>a, <1>6, <2>1 DEF StartAlloc, TakeSliceBlock, BlockTypeOK
  <2>4. CallTypeOK'
    BY <1>a, <1>6, <2>1, GeometryAssumption DEF StartAlloc, CallTypeOK
  <2> QED
    BY <1>a, <1>6, <2>2, <2>3, <2>4 DEF TypeOK, StartAlloc, InodeTypeOK, inodevars
<1>7. CASE StartNoSpace
  <2>1. CallTypeOK'
    BY <1>7, ReturnType DEF StartNoSpace, Oops
  <2>2. bfree_bitmap' \subseteq 0..NrBlocks /\ nr_free_blocks' \in Int
    BY <1>a, <1>7, PutBlockType DEF StartNoSpace, PutBlockZero
  <2>3. SbTypeOK'
    BY <1>a, <1>7, <2>2, GeometryAssumption DEF StartNoSpace, Oops, SbTypeOK
  <2> QED
    BY <1>a, <1>7, <2>1, <2>3 DEF TypeOK, StartNoSpace, Oops, BlockTypeOK, InodeTypeOK,
       blockvars, inodevars
<1>8. CASE StartInitError
  <2>1. CallTypeOK'
    BY <1>8, ReturnType DEF StartInitError, Oops
  <2>2. SbTypeOK'
    BY <1>a, <1>8, GeometryAssumption DEF StartInitError, Oops, SbTypeOK
  <2> QED
    BY <1>a, <1>8, <2>1, <2>2 DEF TypeOK, StartInitError, Oops, BlockTypeOK, InodeTypeOK,
       blockvars, inodevars
<1>9. ASSUME NEW i \in Slice, ScanHit(i) \/ ScanHitNothing(i) \/ ScanFault(i) PROVE TypeOK'
  <2>1. pc = "scan" /\ req \in Req /\ cur \in Block
    BY <1>a, <1>9 DEF ScanHit, ScanHitNothing, ScanFault, FoundAt, CallTypeOK
  <2>2. /\ req.f \in Files /\ req.size \in Nat /\ req.tags \in SUBSET (Files \cup {"stale"})
        /\ NumSlices(req.size) \in Nat
    BY <2>1, NumSlicesNat DEF Req
  <2>3. /\ bitmap' \in [Block -> SUBSET Slice] /\ num_slices' \in [Files -> Nat]
    <3>1. ClaimSlices(i)
      BY <1>9 DEF ScanHit, ScanHitNothing, ScanFault
    <3> QED
      BY <1>a, <2>1, <2>2, <3>1 DEF ClaimSlices, BlockTypeOK, InodeTypeOK
  <2>4. CopyIn(cur, Touched(i, req.pos, req.count), req.tags)
           \in [Block -> [Slice -> SUBSET (Files \cup {"stale"})]]
    BY <1>a, <2>1, <2>2, CopyInType DEF BlockTypeOK
  <2>5. CASE ScanHit(i)
    <3>1. SbTypeOK' /\ BlockTypeOK'
      BY <1>a, <2>2, <2>3, <2>4, <2>5 DEF ScanHit, CountSlices, SbTypeOK, BlockTypeOK
    <3>2. InodeTypeOK'
      BY <1>a, <2>1, <2>2, <2>3, <2>5 DEF ScanHit, InodeTypeOK
    <3>3. CallTypeOK'
      BY <1>a, <2>1, <2>5, ReturnType, GeometryAssumption DEF ScanHit, CallTypeOK
    <3> QED
      BY <1>a, <2>5, <3>1, <3>2, <3>3 DEF TypeOK, ScanHit
  <2>6. CASE ScanHitNothing(i)
    <3>1. SbTypeOK' /\ BlockTypeOK'
      BY <1>a, <2>2, <2>3, <2>6 DEF ScanHitNothing, CountSlices, SbTypeOK, BlockTypeOK
    <3>2. InodeTypeOK' /\ CallTypeOK'
      BY <2>1, <2>3, <2>6, FailWriteType DEF ScanHitNothing
    <3> QED
      BY <1>a, <2>6, <3>1, <3>2 DEF TypeOK, ScanHitNothing
  <2>7. CASE ScanFault(i)
    <3>1. BlockTypeOK'
      <4>1. PICK copied \in 0..(req.count - 1) :
               data' = CopyIn(cur, Touched(i, req.pos, copied), req.tags)
        BY <2>7 DEF ScanFault
      <4>2. data' \in [Block -> [Slice -> SUBSET (Files \cup {"stale"})]]
        BY <1>a, <2>1, <2>2, <4>1, CopyInType DEF BlockTypeOK
      <4> QED
        BY <1>a, <2>3, <2>7, <4>2 DEF ScanFault, BlockTypeOK
    <3>2. InodeTypeOK' /\ CallTypeOK'
      BY <2>1, <2>3, <2>7, FailWriteType DEF ScanFault
    <3> QED
      BY <1>a, <2>7, <3>1, <3>2 DEF TypeOK, ScanFault, SbTypeOK, sbvars
  <2> QED
    BY <1>9, <2>5, <2>6, <2>7
<1>10. CASE ScanNext
  <2>1. CallTypeOK'
    BY <1>a, <1>10, GeometryAssumption DEF ScanNext, NoRoom, BlockTypeOK, CallTypeOK
  <2> QED
    BY <1>a, <1>10, <2>1 DEF TypeOK, ScanNext, SbTypeOK, BlockTypeOK, InodeTypeOK,
       sbvars, blockvars, inodevars
<1>11. CASE ScanReadError \/ ScanInitError
  <2>1. InodeTypeOK' /\ CallTypeOK'
    BY <1>a, <1>11, FailWriteType DEF ScanReadError, ScanInitError, NoRoom, InodeTypeOK
  <2> QED
    BY <1>a, <1>11, <2>1 DEF TypeOK, ScanReadError, ScanInitError, SbTypeOK, BlockTypeOK,
       sbvars, blockvars
<1>12. CASE ScanAlloc
  <2>1. PICK b \in Block : TakeSliceBlock(b) /\ next' = [next EXCEPT ![cur] = b] /\ cur' = b
    BY <1>12 DEF ScanAlloc
  <2>2. SbTypeOK'
    BY <1>a, <1>12, <2>1 DEF ScanAlloc, TakeSliceBlock, SbTypeOK
  <2>3. BlockTypeOK'
    BY <1>a, <1>12, <2>1 DEF ScanAlloc, NoRoom, TakeSliceBlock, BlockTypeOK, CallTypeOK
  <2>4. CallTypeOK'
    BY <1>a, <1>12, <2>1, GeometryAssumption DEF ScanAlloc, CallTypeOK
  <2> QED
    BY <1>a, <1>12, <2>2, <2>3, <2>4 DEF TypeOK, ScanAlloc, InodeTypeOK, inodevars
<1>13. CASE ScanNoSpace
  <2>1. InodeTypeOK' /\ CallTypeOK'
    BY <1>a, <1>13, FailWriteType DEF ScanNoSpace, NoRoom, InodeTypeOK
  <2>2. bfree_bitmap' \subseteq 0..NrBlocks /\ nr_free_blocks' \in Int
    BY <1>a, <1>13, PutBlockType DEF ScanNoSpace, PutBlockZero
  <2> QED
    BY <1>a, <1>13, <2>1, <2>2 DEF TypeOK, ScanNoSpace, SbTypeOK, BlockTypeOK, blockvars
<1>14. ASSUME NEW f \in Files, Unlink(f) PROVE TypeOK'
  <2>1. req' \in Req
    BY <1>a, <1>14, WriteReqType DEF Unlink
  <2>2. CallTypeOK'
    BY <1>a, <1>14, <2>1 DEF Unlink, CallTypeOK
  <2> QED
    BY <1>a, <1>14, <2>2 DEF TypeOK, Unlink, SbTypeOK, BlockTypeOK, InodeTypeOK,
       sbvars, blockvars, inodevars
<1>15. CASE FreeNothing \/ WalkEnd \/ WalkReadError
  <2>1. InodeTypeOK' /\ CallTypeOK'
    BY <1>15, DeleteReturnsType DEF FreeNothing, WalkEnd, WalkReadError
  <2> QED
    BY <1>a, <1>15, <2>1 DEF TypeOK, FreeNothing, WalkEnd, WalkReadError, SbTypeOK, BlockTypeOK,
       sbvars, blockvars
<1>16. CASE FreeSlices
  <2>1. req \in Req /\ req.old_bno \in Block /\ req.old_num_slices \in Nat
    BY <1>a, <1>16 DEF FreeSlices, CallTypeOK, Req
  <2>2. SbTypeOK'
    BY <1>a, <1>16, <2>1 DEF FreeSlices, SbTypeOK
  <2>3. BlockTypeOK'
    BY <1>a, <1>16, <2>1 DEF FreeSlices, OldSlices, ZeroOldSlices, BlockTypeOK
  <2>4. CallTypeOK'
    BY <1>a, <1>16, <2>1, GeometryAssumption DEF FreeSlices, WalkFrom, SbTypeOK, CallTypeOK
  <2> QED
    BY <1>a, <1>16, <2>2, <2>3, <2>4 DEF TypeOK, FreeSlices, InodeTypeOK, inodevars
<1>17. CASE WalkFree
  <2>1. cur \in Block
    BY <1>a, GeometryAssumption, <1>17 DEF WalkFree, Readable, CallTypeOK
  <2>2. next[cur] \in 0..(NrBlocks - 1) /\ (prev # 0 => prev \in Block)
    BY <1>a, <2>1 DEF BlockTypeOK, CallTypeOK
  <2>3. bfree_bitmap' \subseteq 0..NrBlocks /\ nr_free_blocks' \in Int
    BY <1>a, GeometryAssumption, <1>17, PutBlockType DEF WalkFree
  <2>4. SbTypeOK'
    BY <1>a, GeometryAssumption, <1>17, <2>2, <2>3 DEF WalkFree, Unchain, SbTypeOK
  <2>5. next' \in [Block -> 0..(NrBlocks - 1)]
    BY <1>a, GeometryAssumption, <1>17, <2>1, <2>2 DEF WalkFree, Unchain, BlockTypeOK
  <2>6. BlockTypeOK'
    BY <1>a, GeometryAssumption, <1>17, <2>1, <2>5 DEF WalkFree, BlockTypeOK
  <2>7. CallTypeOK'
    BY <1>a, GeometryAssumption, <1>17, <2>2 DEF WalkFree, CallTypeOK
  <2> QED
    BY <1>a, GeometryAssumption, <1>17, <2>4, <2>6, <2>7 DEF TypeOK, WalkFree, InodeTypeOK, inodevars
<1>18. CASE WalkKeep
  <2>1. cur \in Block
    BY <1>a, GeometryAssumption, <1>18 DEF WalkKeep, Readable, CallTypeOK
  <2>2. CallTypeOK'
    BY <1>a, GeometryAssumption, <1>18, <2>1 DEF WalkKeep, BlockTypeOK, CallTypeOK
  <2> QED
    BY <1>a, GeometryAssumption, <1>18, <2>2 DEF TypeOK, WalkKeep, SbTypeOK, BlockTypeOK, InodeTypeOK,
       sbvars, blockvars, inodevars
<1>19. ASSUME NEW f \in Files, OpenTrunc(f) PROVE TypeOK'
  <2> DEFINE b == IndexBlock(f)
             word0 == BitmapWord(bitmap[b])
  <2>1. b \in Block
    BY <1>19 DEF OpenTrunc
  <2>2. next[b] \in 0..(NrBlocks - 1)
    BY <1>a, <2>1 DEF BlockTypeOK
  <2>3. Counted(word0) \in Int /\ Puts(word0) \subseteq 0..NrBlocks
    BY DEF Counted, Puts
  <2>4. /\ \/ UNCHANGED <<bfree_bitmap, nr_free_blocks, bitmap, next>>
           \/ /\ \E more \in LaterWords(next[b]) :
                   /\ bfree_bitmap' = bfree_bitmap \cup Puts(word0) \cup ({next[b]} \ {0}) \cup more
                   /\ nr_free_blocks' = nr_free_blocks + Counted(word0)
                                         + (IF next[b] # 0 THEN 1 ELSE 0) + Cardinality(more)
              /\ bitmap' = [bitmap EXCEPT ![b] = {}]
              /\ next' = [next EXCEPT ![b] = 0]
        /\ UNCHANGED <<s_free_sliced_blocks, nr_sliced_blocks, nr_used_slices, data>>
    BY <1>19 DEF OpenTrunc
  <2> HIDE DEF b, word0
  <2>5. SbTypeOK'
    <3>0. \A more \in LaterWords(next[b]) : more \subseteq 0..NrBlocks /\ Cardinality(more) \in Nat
      BY LaterWordsAre
    <3>1. bfree_bitmap' \subseteq 0..NrBlocks
      <4>1. {next[b]} \subseteq 0..NrBlocks
        BY <2>2, GeometryAssumption
      <4> QED
        BY <1>a, <2>3, <2>4, <3>0, <4>1, Zenon DEF SbTypeOK
    <3>2. nr_free_blocks' \in Int
      BY <1>a, <2>3, <2>4, <3>0 DEF SbTypeOK
    <3> QED
      BY <1>a, <2>4, <3>1, <3>2 DEF SbTypeOK
  <2>6. BlockTypeOK'
    <3>1. /\ data' = data
          /\ \/ bitmap' = bitmap /\ next' = next
             \/ bitmap' = [bitmap EXCEPT ![b] = {}] /\ next' = [next EXCEPT ![b] = 0]
      BY <2>4
    <3> QED
      BY <1>a, <2>1, <3>1, GeometryAssumption DEF BlockTypeOK
  <2>7. InodeTypeOK'
    BY <1>a, <1>19 DEF OpenTrunc, InodeTypeOK
  <2> QED
    BY <1>a, <1>19, <2>5, <2>6, <2>7 DEF TypeOK, OpenTrunc, CallTypeOK, callvars
<1>20. ASSUME NEW b \in Block, NEW c \in Contents \cup {ZeroContent}, OtherAlloc(b, c) PROVE TypeOK'
  <2>1. c.word0 \in SUBSET Slice /\ c.word1 \in 0..(NrBlocks - 1)
    BY InputAssumption, GeometryAssumption DEF ZeroContent
  <2>2. BlockTypeOK'
    BY <1>a, <1>20, <2>1 DEF OtherAlloc, SetContent, BlockTypeOK
  <2>3. SbTypeOK'
    BY <1>a, <1>20 DEF OtherAlloc, SbTypeOK
  <2> QED
    BY <1>a, <1>20, <2>2, <2>3 DEF TypeOK, OtherAlloc, InodeTypeOK, CallTypeOK, inodevars, callvars
<1>21. CASE OtherAllocFails
  <2>1. SbTypeOK'
    BY <1>a, <1>21 DEF OtherAllocFails, SbTypeOK
  <2> QED
    BY <1>a, <1>21, <2>1 DEF TypeOK, OtherAllocFails, BlockTypeOK, InodeTypeOK, CallTypeOK,
       blockvars, inodevars, callvars
<1>22. ASSUME NEW b \in Block, OtherUnlink(b) \/ OtherTruncate(b) PROVE TypeOK'
  <2>1. bfree_bitmap' \subseteq 0..NrBlocks /\ nr_free_blocks' \in Int
    BY <1>a, <1>22, PutBlockType DEF OtherUnlink, OtherTruncate
  <2>2. SbTypeOK'
    BY <1>a, <1>22, <2>1 DEF OtherUnlink, OtherTruncate, SbTypeOK
  <2>3. BlockTypeOK'
    <3>1. CASE OtherUnlink(b)
      BY <1>a, <3>1, GeometryAssumption DEF OtherUnlink, SetContent, ZeroContent, BlockTypeOK
    <3>2. CASE OtherTruncate(b)
      BY <1>a, <3>2 DEF OtherTruncate, BlockTypeOK, blockvars
    <3> QED
      BY <1>22, <3>1, <3>2
  <2> QED
    BY <1>a, <1>22, <2>2, <2>3 DEF TypeOK, OtherUnlink, OtherTruncate, InodeTypeOK, CallTypeOK,
       inodevars, callvars
<1>23. CASE Call
  BY <1>1, <1>2, <1>3, <1>14, <1>19, <1>20, <1>21, <1>22, <1>23
     DEF Call, WriteRefused, OpenTruncError
<1>24. CASE HandlerStep
  BY <1>4, <1>5, <1>6, <1>7, <1>8, <1>9, <1>10, <1>11, <1>12, <1>13, <1>15, <1>16, <1>17, <1>18, <1>24
     DEF HandlerStep
<1> QED
  BY <1>3, <1>23, <1>24 DEF Next

(* In every behaviour the state keeps its types: whatever the workload, the *)
(* faults and the contents of foreign blocks, put_block stays within the    *)
(* bitmap and the search for room only looks at blocks of the device.       *)
THEOREM TypeCorrect == Spec => []TypeOK
<1>1. Init => TypeOK
  BY TypeOKInit
<1>2. TypeOK /\ [Next]_vars => TypeOK'
  BY TypeOKNext
<1> QED
  BY <1>1, <1>2, PTL DEF Spec

-----------------------------------------------------------------------------
(* The free-block counter *)

LEMMA BitmapFinite ==
    ASSUME NEW S \in SUBSET (0..NrBlocks)
    PROVE  IsFiniteSet(S) /\ Cardinality(S) \in Nat
<1>1. IsFiniteSet(0..NrBlocks)
  BY FS_Interval, GeometryAssumption
<1>2. IsFiniteSet(S)
  BY <1>1, FS_Subset
<1> QED
  BY <1>2, FS_CardinalityType

\* Setting a bit adds at most one set bit; clearing one that is set takes one.
LEMMA BitmapAdd ==
    ASSUME NEW S \in SUBSET (0..NrBlocks), NEW x
    PROVE  Cardinality(S \cup {x}) <= Cardinality(S) + 1
<1>1. IsFiniteSet(S) /\ Cardinality(S) \in Nat
  BY BitmapFinite
<1>2. Cardinality(S \cup {x}) = IF x \in S THEN Cardinality(S) ELSE Cardinality(S) + 1
  BY <1>1, FS_AddElement, Zenon
<1> QED
  BY <1>1, <1>2

LEMMA BitmapRemove ==
    ASSUME NEW S \in SUBSET (0..NrBlocks), NEW x \in S
    PROVE  Cardinality(S \ {x}) = Cardinality(S) - 1
<1>1. IsFiniteSet(S)
  BY BitmapFinite
<1> QED
  BY <1>1, FS_RemoveElement

\* put_block raises the counter at least as much as the number of set bits.
LEMMA PutBlockCount ==
    ASSUME SbTypeOK, FreeCountNotLow, NEW b, PutBlock(b)
    PROVE  FreeCountNotLow'
<1>1. /\ bfree_bitmap \in SUBSET (0..NrBlocks) /\ nr_free_blocks \in Int
      /\ Cardinality(bfree_bitmap) \in Nat
  BY BitmapFinite DEF SbTypeOK
<1>2. CASE b \in 0..NrBlocks
  <2>1. bfree_bitmap' = bfree_bitmap \cup {b} /\ nr_free_blocks' = nr_free_blocks + 1
    BY <1>2 DEF PutBlock, Puts, Counted
  <2>2. Cardinality(bfree_bitmap \cup {b}) <= Cardinality(bfree_bitmap) + 1
    BY <1>1, BitmapAdd
  <2>3. Cardinality(bfree_bitmap \cup {b}) \in Nat
    BY <1>1, <1>2, BitmapFinite
  <2> QED
    BY <1>1, <2>1, <2>2, <2>3 DEF FreeCountNotLow
<1>3. CASE b \notin 0..NrBlocks
  <2>1. bfree_bitmap' = bfree_bitmap /\ nr_free_blocks' = nr_free_blocks
    BY <1>1, <1>3 DEF PutBlock, Puts, Counted
  <2> QED
    BY <2>1 DEF FreeCountNotLow
<1> QED
  BY <1>2, <1>3

\* Taking a block off the bitmap lowers both by one.
LEMMA TakeBlockCount ==
    ASSUME SbTypeOK, FreeCountNotLow, NEW b \in bfree_bitmap,
           bfree_bitmap' = bfree_bitmap \ {b}, nr_free_blocks' = nr_free_blocks - 1
    PROVE  FreeCountNotLow'
<1>1. /\ bfree_bitmap \in SUBSET (0..NrBlocks) /\ nr_free_blocks \in Int
      /\ Cardinality(bfree_bitmap) \in Nat
  BY BitmapFinite DEF SbTypeOK
<1>2. Cardinality(bfree_bitmap \ {b}) = Cardinality(bfree_bitmap) - 1
  BY <1>1, BitmapRemove
<1> QED
  BY <1>1, <1>2 DEF FreeCountNotLow

LEMMA FreeCountInit == Init => FreeCountNotLow
<1> SUFFICES ASSUME Init PROVE FreeCountNotLow
  OBVIOUS
<1>1. Cardinality(Reserved..(NrBlocks - 1)) = NrBlocks - Reserved
  BY FS_Interval, GeometryAssumption
<1> QED
  BY <1>1, GeometryAssumption DEF Init, FreeCountNotLow

LEMMA FreeCountNext == TypeOK /\ FreeCountNotLow /\ [Next]_vars => FreeCountNotLow'
<1> SUFFICES ASSUME TypeOK, FreeCountNotLow, [Next]_vars PROVE FreeCountNotLow'
  OBVIOUS
<1>a. SbTypeOK /\ BlockTypeOK
  BY DEF TypeOK
<1>1. ASSUME UNCHANGED <<bfree_bitmap, nr_free_blocks>> PROVE FreeCountNotLow'
  BY <1>1 DEF FreeCountNotLow
<1>2. ASSUME NEW b \in Block, TakeSliceBlock(b) PROVE FreeCountNotLow'
  BY <1>a, <1>2, TakeBlockCount DEF TakeSliceBlock, CanAlloc, IsFirstFree
<1>3. CASE StartAlloc \/ ScanAlloc
  BY <1>2, <1>3 DEF StartAlloc, ScanAlloc
<1>4. CASE StartNoSpace \/ ScanNoSpace
  BY <1>a, <1>4, PutBlockCount DEF StartNoSpace, ScanNoSpace, PutBlockZero
<1>5. CASE WalkFree
  BY <1>a, <1>5, PutBlockCount DEF WalkFree
<1>6. ASSUME NEW f \in Files, OpenTrunc(f) PROVE FreeCountNotLow'
  <2> DEFINE b == IndexBlock(f)
             word0 == BitmapWord(bitmap[b])
  <2>1. next[b] \in 0..(NrBlocks - 1)
    BY <1>a, <1>6 DEF OpenTrunc, BlockTypeOK
  <2>0. CASE UNCHANGED <<bfree_bitmap, nr_free_blocks>>
    BY <1>1, <2>0
  <2> SUFFICES ASSUME ~UNCHANGED <<bfree_bitmap, nr_free_blocks>> PROVE FreeCountNotLow'
    BY <2>0
  <2>2. PICK more \in LaterWords(next[b]) :
          /\ bfree_bitmap' = bfree_bitmap \cup Puts(word0) \cup ({next[b]} \ {0}) \cup more
          /\ nr_free_blocks' = nr_free_blocks + Counted(word0)
                                + (IF next[b] # 0 THEN 1 ELSE 0) + Cardinality(more)
    BY <1>6 DEF OpenTrunc
  <2>m. more \in SUBSET (0..NrBlocks) /\ IsFiniteSet(more) /\ Cardinality(more) \in Nat
    BY LaterWordsAre
  <2> DEFINE S == bfree_bitmap \cup Puts(word0)
  <2>3. /\ bfree_bitmap \in SUBSET (0..NrBlocks) /\ nr_free_blocks \in Int
        /\ Cardinality(bfree_bitmap) \in Nat
    BY <1>a, BitmapFinite DEF SbTypeOK
  <2>4. S \in SUBSET (0..NrBlocks)
    BY <2>3, Zenon DEF Puts
  <2>5. Cardinality(S) \in Nat
    BY <2>4, BitmapFinite
  <2>6. Counted(word0) \in {0, 1} /\ Cardinality(S) <= Cardinality(bfree_bitmap) + Counted(word0)
    <3>1. CASE word0 \in 0..NrBlocks
      <4>1. S = bfree_bitmap \cup {word0} /\ Counted(word0) = 1
        BY <3>1 DEF Puts, Counted
      <4>2. Cardinality(bfree_bitmap \cup {word0}) <= Cardinality(bfree_bitmap) + 1
        BY <2>3, BitmapAdd
      <4> QED
        BY <4>1, <4>2
    <3>2. CASE word0 \notin 0..NrBlocks
      <4>1. S = bfree_bitmap /\ Counted(word0) = 0
        BY <3>2 DEF Puts, Counted
      <4> QED
        BY <2>3, <4>1
    <3> QED
      BY <3>1, <3>2
  <2> HIDE DEF S, b, word0
  <2> DEFINE T == S \cup ({next[b]} \ {0})
             n == IF next[b] # 0 THEN 1 ELSE 0
  <2>7. n \in {0, 1} /\ T \in SUBSET (0..NrBlocks)
    <3>1. {next[b]} \in SUBSET (0..NrBlocks)
      BY <2>1, GeometryAssumption
    <3>2. T \in SUBSET (0..NrBlocks)
      BY <2>4, <3>1, Zenon
    <3> QED
      BY <3>2
  <2>8. Cardinality(T) <= Cardinality(S) + n
    <3>1. \/ T = S /\ n = 0
          \/ T = S \cup {next[b]} /\ n = 1
      <4>1. CASE next[b] = 0
        BY <4>1
      <4>2. CASE next[b] # 0
        BY <4>2
      <4> QED
        BY <4>1, <4>2
    <3> HIDE DEF T, n
    <3>2. Cardinality(S \cup {next[b]}) <= Cardinality(S) + 1
      BY <2>4, BitmapAdd
    <3>3. ASSUME T = S, n = 0 PROVE Cardinality(T) <= Cardinality(S) + n
      <4>1. Cardinality(S) <= Cardinality(S) + 0
        BY <2>5
      <4> QED
        BY <3>3, <4>1, Zenon
    <3>4. ASSUME T = S \cup {next[b]}, n = 1 PROVE Cardinality(T) <= Cardinality(S) + n
      BY <3>2, <3>4, Zenon
    <3> QED
      BY <3>1, <3>3, <3>4
  <2>9. bfree_bitmap' = T \cup more /\ nr_free_blocks' = nr_free_blocks + Counted(word0) + n + Cardinality(more)
    BY <2>2 DEF S
  <2> HIDE DEF T, n
  <2>10. IsFiniteSet(T) /\ Cardinality(T) \in Nat
    BY <2>7, BitmapFinite
  <2>11. Cardinality(T \cup more) <= Cardinality(T) + Cardinality(more) /\ Cardinality(T \cup more) \in Nat
    <3>1. /\ IsFiniteSet(T \cup more)
          /\ Cardinality(T \cup more) = Cardinality(T) + Cardinality(more) - Cardinality(T \cap more)
      BY <2>10, <2>m, FS_Union
    <3>2. Cardinality(T \cap more) \in Nat
      BY <2>10, FS_Subset, FS_CardinalityType
    <3>3. Cardinality(T \cup more) \in Nat
      BY <3>1, FS_CardinalityType
    <3> QED
      BY <2>10, <2>m, <3>1, <3>2, <3>3
  <2> QED
    BY <2>m, <2>3, <2>5, <2>6, <2>7, <2>8, <2>9, <2>10, <2>11 DEF FreeCountNotLow
<1>7. ASSUME NEW b \in Block, NEW c, OtherAlloc(b, c) PROVE FreeCountNotLow'
  BY <1>a, <1>7, TakeBlockCount DEF OtherAlloc, CanAlloc, IsFirstFree
<1>8. CASE OtherAllocFails
  <2>1. /\ bfree_bitmap \in SUBSET (0..NrBlocks) /\ nr_free_blocks \in Int
        /\ Cardinality(bfree_bitmap) \in Nat
    BY <1>a, BitmapFinite DEF SbTypeOK
  <2>2. CASE 0 \in bfree_bitmap
    <3>1. Cardinality(bfree_bitmap \ {0}) = Cardinality(bfree_bitmap) - 1
      BY <2>1, <2>2, BitmapRemove
    <3> QED
      BY <1>8, <2>1, <3>1 DEF OtherAllocFails, FreeCountNotLow
  <2>3. CASE 0 \notin bfree_bitmap
    <3>1. bfree_bitmap \ {0} = bfree_bitmap
      BY <2>3
    <3> QED
      BY <1>8, <3>1 DEF OtherAllocFails, FreeCountNotLow
  <2> QED
    BY <2>2, <2>3
<1>9. ASSUME NEW b \in Block, OtherUnlink(b) \/ OtherTruncate(b) PROVE FreeCountNotLow'
  BY <1>a, <1>9, PutBlockCount DEF OtherUnlink, OtherTruncate
<1>10. CASE Call
  <2>1. ASSUME NEW f \in Files, Create(f) \/ Unlink(f) \/ OpenTruncError(f) PROVE FreeCountNotLow'
    BY <1>1, <2>1 DEF Create, Unlink, OpenTruncError, vars, sbvars
  <2>2. ASSUME NEW f \in Files, NEW ki_pos \in Offsets, NEW count \in Counts,
               WriteRefused(f, ki_pos, count)
        PROVE  FreeCountNotLow'
    BY <1>1, <2>2 DEF WriteRefused, vars, sbvars
  <2>3. ASSUME NEW f \in Files, NEW ki_pos \in Offsets, NEW count \in Counts, NEW append \in Appends,
               \/ WriteNew(f, ki_pos, count, append)
               \/ WriteInPlace(f, ki_pos, count, append)
               \/ WriteInPlaceFault(f, ki_pos, count, append)
               \/ WriteMove(f, ki_pos, count, append)
               \/ WriteMoveLost(f, ki_pos, count, append)
        PROVE  FreeCountNotLow'
    BY <1>1, <2>3 DEF WriteNew, WriteInPlace, WriteInPlaceFault, WriteMove, WriteMoveLost, sbvars
  <2> QED
    BY <1>6, <1>7, <1>8, <1>9, <1>10, <2>1, <2>2, <2>3 DEF Call
<1>11. CASE HandlerStep
  <2>1. CASE \/ StartAtHead \/ StartReadError \/ StartInitError
             \/ ScanNext \/ ScanReadError \/ ScanInitError
             \/ FreeNothing \/ FreeSlices \/ WalkEnd \/ WalkReadError \/ WalkKeep
    BY <1>1, <2>1 DEF StartAtHead, StartReadError, StartInitError, ScanNext, ScanReadError,
       ScanInitError, FreeNothing, FreeSlices, WalkEnd, WalkReadError, WalkKeep, sbvars
  <2>2. ASSUME NEW i \in Slice, ScanHit(i) \/ ScanHitNothing(i) \/ ScanFault(i)
        PROVE  FreeCountNotLow'
    BY <1>1, <2>2 DEF ScanHit, ScanHitNothing, ScanFault, sbvars
  <2> QED
    BY <1>3, <1>4, <1>5, <1>11, <2>1, <2>2 DEF HandlerStep
<1>12. CASE UNCHANGED vars
  BY <1>1, <1>12 DEF vars, sbvars
<1> QED
  BY <1>10, <1>11, <1>12 DEF Next

(* Whatever the workload, the faults, the truncations that misread a small  *)
(* file's index_block and the put_block(sbi, 0) of a full disk do, the      *)
(* counter nr_free_blocks is at least the number of set bits of the block   *)
(* bitmap: it errs on one side only and never wraps.                        *)
THEOREM FreeCountSound == Spec => []FreeCountNotLow
<1>1. Init => FreeCountNotLow
  BY FreeCountInit
<1>2. TypeOK /\ FreeCountNotLow /\ [Next]_vars => FreeCountNotLow'
  BY FreeCountNext
<1> QED
  BY <1>1, <1>2, TypeCorrect, PTL DEF Spec

-----------------------------------------------------------------------------
(* The list of sliced blocks, as the function L from 1..n that enumerates   *)
(* it: an invariant says that such a function exists, so that no step of    *)
(* the proof is an induction along the list.                                *)
HIDE DEF Block, Slice, AllFree, ErrBlock

\* The k-th block of the list, and 0 before and after it.
At(n, L, k) == IF k \in 1..n THEN L[k] ELSE 0

\* L runs from head h along the pointers nx through the blocks of S, each once.
Threads(n, L, h, nx, S) ==
    /\ L \in [1..n -> Block]
    /\ \A j, k \in 1..n : L[j] = L[k] => j = k
    /\ \A b : b \in S <=> \E k \in 1..n : L[k] = b
    /\ \A k \in 1..n : nx[L[k]] = At(n, L, k + 1)
    /\ h = At(n, L, 1)

LEMMA BlockNat == Block \subseteq Nat \ {0} /\ 0 \notin Block /\ ErrBlock \notin Block
                  /\ ErrBlock \in Nat \ {0} /\ Block = 1..(NrBlocks - 1) /\ NrBlocks \in Nat
BY GeometryAssumption DEF Block, ErrBlock

LEMMA AtBlock ==
    ASSUME NEW n \in Nat, NEW L \in [1..n -> Block], NEW k \in Int
    PROVE  (At(n, L, k) = 0 <=> k \notin 1..n) /\ (k \in 1..n => At(n, L, k) = L[k])
BY BlockNat DEF At

\* allocate_and_init_slice_block finds no list: the block is the list.
LEMMA ThreadsFirst ==
    ASSUME NEW n \in Nat, NEW L, NEW nx, NEW S, NEW b \in Block,
           Threads(n, L, 0, nx, S), nx[b] = 0
    PROVE  n = 0 /\ Threads(1, [k \in 1..1 |-> b], b, nx, S \cup {b})
<1>1. n = 0
  BY AtBlock DEF Threads
<1> DEFINE M == [k \in 1..1 |-> b]
<1>2. M \in [1..1 -> Block] /\ M[1] = b /\ \A k \in 1..1 : k = 1
  OBVIOUS
<1>3. \A c : c \notin S
  BY <1>1 DEF Threads
<1>4. \A k \in 1..1 : nx[M[k]] = At(1, M, k + 1)
  BY <1>2 DEF At
<1>5. b = At(1, M, 1)
  BY <1>2 DEF At
<1>6. \A c : c \in S \cup {b} <=> \E k \in 1..1 : M[k] = c
  BY <1>2, <1>3
<1> QED
  BY <1>1, <1>2, <1>4, <1>5, <1>6 DEF Threads

\* The last block of the list is the one whose NEXT is 0.
LEMMA ThreadsLast ==
    ASSUME NEW n \in Nat, NEW L, NEW h, NEW nx, NEW S, NEW c \in S,
           Threads(n, L, h, nx, S), nx[c] = 0
    PROVE  n # 0 /\ L[n] = c
<1>1. PICK k \in 1..n : L[k] = c
  BY DEF Threads
<1>2. At(n, L, k + 1) = 0 /\ L \in [1..n -> Block] /\ k + 1 \in Int
  BY <1>1 DEF Threads
<1>3. k + 1 \notin 1..n
  BY <1>2, AtBlock
<1> QED
  BY <1>1, <1>3

\* A block is appended after the last one.
LEMMA ThreadsAppend ==
    ASSUME NEW n \in Nat, NEW L, NEW h, NEW nx \in [Block -> Nat], NEW S, NEW c \in S, NEW b \in Block,
           Threads(n, L, h, nx, S), nx[c] = 0, nx[b] = 0, b \notin S
    PROVE  \E M \in [1..(n + 1) -> Block] :
             Threads(n + 1, M, h, [nx EXCEPT ![c] = b], S \cup {b})
<1> DEFINE M == [k \in 1..(n + 1) |-> IF k = n + 1 THEN b ELSE L[k]]
           ny == [nx EXCEPT ![c] = b]
<1>1. n # 0 /\ L[n] = c /\ n \in 1..n
  BY ThreadsLast
<1>2. L \in [1..n -> Block] /\ c \in Block
  BY <1>1 DEF Threads
<1>3. M \in [1..(n + 1) -> Block]
  BY <1>2
<1>4. /\ M[n + 1] = b /\ \A k \in 1..n : M[k] = L[k]
      /\ \A k \in 1..(n + 1) : k \in 1..n \/ k = n + 1
  OBVIOUS
<1>5. \A k \in 1..n : L[k] \in S /\ L[k] # b
  BY DEF Threads
<1> HIDE DEF M
<1>6. \A j, k \in 1..(n + 1) : M[j] = M[k] => j = k
  <2> TAKE j, k \in 1..(n + 1)
  <2>1. CASE j \in 1..n /\ k \in 1..n
    BY <1>4, <2>1 DEF Threads
  <2> QED
    BY <1>4, <1>5, <2>1
<1>7. \A d : d \in S \cup {b} <=> \E k \in 1..(n + 1) : M[k] = d
  <2> TAKE d
  <2>1. d \in S <=> \E k \in 1..n : L[k] = d
    BY DEF Threads
  <2>2. n + 1 \in 1..(n + 1) /\ \A k \in 1..n : k \in 1..(n + 1)
    OBVIOUS
  <2> QED
    BY <1>4, <2>1, <2>2
<1>8. \A k \in 1..(n + 1) : ny[M[k]] = At(n + 1, M, k + 1)
  <2> TAKE k \in 1..(n + 1)
  <2>1. CASE k = n + 1
    <3>1. M[k] = b /\ b # c /\ n + 2 \notin 1..(n + 1)
      BY <1>1, <1>4, <1>5, <2>1
    <3>2. ny[b] = 0
      BY <3>1
    <3> QED
      BY <2>1, <3>1, <3>2 DEF At
  <2>2. CASE k = n
    <3>1. M[k] = c /\ n + 1 \in 1..(n + 1)
      BY <1>1, <1>4, <2>2
    <3>2. ny[c] = b
      BY <1>2
    <3> QED
      BY <1>4, <2>2, <3>1, <3>2 DEF At
  <2>3. CASE k # n /\ k # n + 1
    <3>1. k \in 1..n /\ k + 1 \in 1..n /\ k + 1 \in 1..(n + 1)
      BY <2>3
    <3>2. M[k] = L[k] /\ L[k] # c /\ L[k] \in Block
      BY <1>1, <1>2, <1>4, <2>3, <3>1 DEF Threads
    <3>3. ny[L[k]] = nx[L[k]]
      BY <3>2
    <3>4. nx[L[k]] = L[k + 1]
      BY <3>1 DEF Threads, At
    <3> QED
      BY <1>4, <3>1, <3>2, <3>3, <3>4 DEF At
  <2> QED
    BY <2>1, <2>2, <2>3
<1>9. h = At(n + 1, M, 1)
  <2>1. 1 \in 1..n /\ 1 \in 1..(n + 1)
    BY <1>1
  <2> QED
    BY <1>4, <2>1 DEF Threads, At
<1> HIDE DEF ny
<1>10. Threads(n + 1, M, h, ny, S \cup {b})
  BY <1>3, <1>6, <1>7, <1>8, <1>9 DEF Threads
<1> QED
  BY <1>3, <1>10 DEF ny

\* delete_slice takes block L[i] out: the previous block, or the head, is
\* pointed at the next one, and the NEXT of the block is scrubbed.
Unlinked(n, L, nx, i) ==
    IF i = 1 THEN [nx EXCEPT ![L[i]] = 0]
    ELSE [[nx EXCEPT ![L[i - 1]] = nx[L[i]]] EXCEPT ![L[i]] = 0]

Without(n, L, i) == [k \in 1..(n - 1) |-> IF k < i THEN L[k] ELSE L[k + 1]]

HeadWithout(n, L, h, nx, i) == IF i = 1 THEN nx[L[i]] ELSE h

\* The blocks before the one taken out keep their places.
Dropped(n, L, h, nx, S, i) ==
    LET M == Without(n, L, i)
    IN /\ n - 1 \in Nat /\ M \in [1..(n - 1) -> Block]
       /\ Threads(n - 1, M, HeadWithout(n, L, h, nx, i), Unlinked(n, L, nx, i), S \ {L[i]})
       /\ At(n - 1, M, i) = nx[L[i]] /\ At(n - 1, M, i - 1) = At(n, L, i - 1)
       /\ \A k \in 1..(i - 1) : M[k] = L[k]

LEMMA ThreadsDrop ==
    ASSUME NEW n \in Nat, NEW L, NEW h, NEW nx \in [Block -> Nat], NEW S, NEW i \in 1..n,
           Threads(n, L, h, nx, S)
    PROVE  Dropped(n, L, h, nx, S, i)
<1> DEFINE M == Without(n, L, i)
           ny == Unlinked(n, L, nx, i)
           m == n - 1
<1>1. /\ L \in [1..n -> Block] /\ i \in Nat /\ m \in Nat /\ n = m + 1 /\ n \in Nat
      /\ \A k \in 1..m : k \in 1..n /\ k + 1 \in 1..n
  BY DEF Threads
<1>2. \A k \in 1..m : M[k] = IF k < i THEN L[k] ELSE L[k + 1]
  BY DEF Without
<1>3. M \in [1..m -> Block]
  BY <1>1 DEF Without
<1>4. \A j, k \in 1..n : L[j] = L[k] => j = k
  BY DEF Threads
<1>5. \A k \in 1..n : nx[L[k]] = IF k + 1 \in 1..n THEN L[k + 1] ELSE 0
  BY DEF Threads, At
<1> HIDE DEF M, m
<1>6. \A j, k \in 1..m : M[j] = M[k] => j = k
  <2> TAKE j, k \in 1..m
  <2>1. j \in 1..n /\ j + 1 \in 1..n /\ k \in 1..n /\ k + 1 \in 1..n /\ j \in Int /\ k \in Int
    BY <1>1
  <2>2. M[j] = (IF j < i THEN L[j] ELSE L[j + 1]) /\ M[k] = (IF k < i THEN L[k] ELSE L[k + 1])
    BY <1>2
  <2>3. CASE j < i /\ k < i
    BY <1>4, <2>1, <2>2, <2>3
  <2>4. CASE j < i /\ ~(k < i)
    <3>1. M[j] = L[j] /\ M[k] = L[k + 1] /\ j # k + 1
      BY <1>1, <2>1, <2>2, <2>4
    <3> QED
      BY <1>4, <2>1, <3>1
  <2>5. CASE ~(j < i) /\ k < i
    <3>1. M[j] = L[j + 1] /\ M[k] = L[k] /\ j + 1 # k
      BY <1>1, <2>1, <2>2, <2>5
    <3> QED
      BY <1>4, <2>1, <3>1
  <2>6. CASE ~(j < i) /\ ~(k < i)
    <3>1. M[j] = L[j + 1] /\ M[k] = L[k + 1]
      BY <2>2, <2>6
    <3>2. M[j] = M[k] => j + 1 = k + 1
      BY <1>4, <2>1, <3>1
    <3> QED
      BY <2>1, <3>2
  <2> QED
    BY <2>3, <2>4, <2>5, <2>6
<1>7. \A d : d \in S \ {L[i]} <=> \E k \in 1..m : M[k] = d
  <2> TAKE d
  <2>1. d \in S <=> \E k \in 1..n : L[k] = d
    BY DEF Threads
  <2>2. ASSUME NEW k \in 1..m PROVE M[k] \in S \ {L[i]}
    <3>1. k \in 1..n /\ k + 1 \in 1..n /\ M[k] = IF k < i THEN L[k] ELSE L[k + 1]
      BY <1>1, <1>2
    <3>2. CASE k < i
      <4>1. M[k] = L[k] /\ k # i
        BY <1>1, <3>1, <3>2
      <4> QED
        BY <1>4, <3>1, <4>1 DEF Threads
    <3>3. CASE ~(k < i)
      <4>1. M[k] = L[k + 1] /\ k + 1 # i
        BY <1>1, <3>1, <3>3
      <4> QED
        BY <1>4, <3>1, <4>1 DEF Threads
    <3> QED
      BY <3>2, <3>3
  <2>3. ASSUME NEW k \in 1..n, k # i PROVE \E j \in 1..m : M[j] = L[k]
    <3>1. CASE k < i
      <4>1. k \in 1..m
        BY <1>1, <3>1
      <4> QED
        BY <1>2, <3>1, <4>1
    <3>2. CASE k > i
      <4>1. k - 1 \in 1..m /\ ~(k - 1 < i) /\ (k - 1) + 1 = k
        BY <1>1, <3>2
      <4>2. M[k - 1] = L[k]
        BY <1>2, <4>1
      <4> QED
        BY <4>1, <4>2
    <3> QED
      BY <1>1, <2>3, <3>1, <3>2
  <2> QED
    BY <2>1, <2>2, <2>3
<1>8. /\ \A d \in Block : d # L[i] /\ (i # 1 => d # L[i - 1]) => ny[d] = nx[d]
      /\ i # 1 => ny[L[i - 1]] = nx[L[i]]
  <2>1. L[i] \in Block /\ (i # 1 => i - 1 \in 1..n /\ L[i - 1] \in Block)
    BY <1>1
  <2>2. i # 1 => L[i - 1] # L[i]
    BY <1>1, <1>4, <2>1
  <2>3. CASE i = 1
    BY <2>1, <2>3 DEF Unlinked
  <2>4. CASE i # 1
    BY <2>1, <2>2, <2>4 DEF Unlinked
  <2> QED
    BY <2>3, <2>4
<1> HIDE DEF ny
<1>9. \A k \in 1..m : ny[M[k]] = At(m, M, k + 1)
  <2> TAKE k \in 1..m
  <2>1. k \in 1..n /\ k + 1 \in 1..n /\ k \in Int /\ L[k] \in Block /\ L[k + 1] \in Block
    BY <1>1
  <2>2. CASE k + 1 < i
    <3>1. k < i /\ k + 1 \in 1..m /\ i - 1 \in 1..n /\ i # 1
      BY <1>1, <2>1, <2>2
    <3>2. M[k] = L[k] /\ M[k + 1] = L[k + 1]
      BY <1>2, <2>2, <3>1
    <3>3. k # i /\ k # i - 1
      BY <1>1, <2>1, <2>2
    <3>4. L[k] # L[i] /\ L[k] # L[i - 1]
      BY <1>4, <2>1, <3>1, <3>3
    <3>5. ny[L[k]] = L[k + 1]
      BY <1>5, <1>8, <2>1, <3>4
    <3> QED
      BY <3>1, <3>2, <3>5 DEF At
  <2>3. CASE k + 1 = i
    <3>1. k = i - 1 /\ i # 1 /\ k < i
      BY <1>1, <2>1, <2>3
    <3>2. M[k] = L[k] /\ ny[L[k]] = nx[L[i]]
      BY <1>2, <1>8, <3>1
    <3>3. CASE i + 1 \in 1..n
      <4>1. k + 1 \in 1..m /\ ~(k + 1 < i) /\ (k + 1) + 1 = i + 1
        BY <1>1, <2>1, <2>3, <3>3
      <4>2. M[k + 1] = L[i + 1]
        BY <1>2, <4>1
      <4> QED
        BY <1>5, <3>2, <3>3, <4>1, <4>2 DEF At
    <3>4. CASE i + 1 \notin 1..n
      <4>1. k + 1 \notin 1..m
        BY <1>1, <2>1, <2>3, <3>4
      <4> QED
        BY <1>5, <3>2, <3>4, <4>1 DEF At
    <3> QED
      BY <3>3, <3>4
  <2>4. CASE k + 1 > i
    <3>1. ~(k < i) /\ M[k] = L[k + 1] /\ k + 1 # i /\ (i # 1 => k + 1 # i - 1)
      BY <1>1, <1>2, <2>1, <2>4
    <3>2. i # 1 => i - 1 \in 1..n
      BY <1>1
    <3>3. L[k + 1] # L[i] /\ (i # 1 => L[k + 1] # L[i - 1])
      BY <1>4, <2>1, <3>1, <3>2
    <3>4. ny[L[k + 1]] = IF (k + 1) + 1 \in 1..n THEN L[(k + 1) + 1] ELSE 0
      BY <1>5, <1>8, <2>1, <3>3
    <3>5. (k + 1) + 1 \in 1..n <=> k + 1 \in 1..m
      BY <1>1, <2>1
    <3>6. k + 1 \in 1..m => M[k + 1] = L[(k + 1) + 1]
      BY <1>1, <1>2, <2>1, <2>4
    <3> QED
      BY <3>1, <3>4, <3>5, <3>6 DEF At
  <2> QED
    BY <1>1, <2>1, <2>2, <2>3, <2>4
<1>10. At(m, M, i) = nx[L[i]]
  <2>1. i + 1 \in 1..n <=> i \in 1..m
    BY <1>1
  <2>2. i \in 1..m => M[i] = L[i + 1]
    BY <1>1, <1>2
  <2> QED
    BY <1>5, <2>1, <2>2 DEF At
<1>11. \A k \in 1..(i - 1) : M[k] = L[k]
  BY <1>1, <1>2
<1>12. At(m, M, i - 1) = At(n, L, i - 1)
  <2>1. i - 1 \in 1..m <=> i - 1 \in 1..n
    BY <1>1
  <2>2. i - 1 \in 1..m => i - 1 \in 1..(i - 1)
    BY <1>1
  <2> QED
    BY <1>11, <2>1, <2>2 DEF At
<1>13. HeadWithout(n, L, h, nx, i) = At(m, M, 1)
  <2>1. CASE i = 1
    BY <1>10, <2>1 DEF HeadWithout
  <2>2. CASE i # 1
    <3>1. 1 \in 1..m /\ 1 \in 1..n /\ 1 \in 1..(i - 1)
      BY <1>1, <2>2
    <3> QED
      BY <1>11, <2>2, <3>1 DEF At, Threads, HeadWithout
  <2> QED
    BY <2>1, <2>2
<1>14. Threads(m, M, HeadWithout(n, L, h, nx, i), ny, S \ {L[i]})
  BY <1>3, <1>6, <1>7, <1>9, <1>13 DEF Threads
<1> QED
  BY <1>1, <1>3, <1>10, <1>11, <1>12, <1>14 DEF m, M, ny, Dropped

\* Following the pointers from the head k times leads to the block at k + 1.
LEMMA ListAtIs ==
    ASSUME NEW n \in Nat, NEW L, Threads(n, L, s_free_sliced_blocks, next, Sliced)
    PROVE  \A k \in Nat : ListAt[k] = At(n, L, k + 1)
<1> DEFINE F == [k \in Nat |-> At(n, L, k + 1)]
           Follows(g) == g = [k \in Nat |->
                                IF k = 0 THEN s_free_sliced_blocks
                                ELSE IF g[k - 1] \in Block THEN next[g[k - 1]] ELSE 0]
<1>1. L \in [1..n -> Block]
  BY DEF Threads
<1>2. ASSUME NEW k \in Nat
      PROVE  F[k] = IF k = 0 THEN s_free_sliced_blocks
                    ELSE IF F[k - 1] \in Block THEN next[F[k - 1]] ELSE 0
  <2>1. CASE k = 0
    BY <2>1 DEF Threads
  <2>2. CASE k # 0
    <3>1. k - 1 \in Nat /\ (k - 1) + 1 = k /\ F[k - 1] = At(n, L, k) /\ F[k] = At(n, L, k + 1)
      BY <2>2
    <3>2. CASE k \in 1..n
      <4>1. F[k - 1] = L[k] /\ L[k] \in Block
        BY <1>1, <3>1, <3>2 DEF At
      <4>2. next[L[k]] = At(n, L, k + 1)
        BY <3>2 DEF Threads
      <4> QED
        BY <2>2, <3>1, <4>1, <4>2
    <3>3. CASE k \notin 1..n
      <4>1. F[k - 1] = 0 /\ k + 1 \notin 1..n
        BY <3>1, <3>3 DEF At
      <4> QED
        BY <2>2, <3>1, <4>1, BlockNat DEF At
    <3> QED
      BY <3>2, <3>3
  <2> QED
    BY <2>1, <2>2
<1>3. Follows(F)
  BY <1>2
<1>4. ListAt = CHOOSE g : Follows(g)
  BY DEF ListAt
<1> HIDE DEF F
<1>5. Follows(ListAt)
  BY <1>3, <1>4
<1>6. ASSUME NEW k \in Nat
      PROVE  ListAt[k] = IF k = 0 THEN s_free_sliced_blocks
                         ELSE IF ListAt[k - 1] \in Block THEN next[ListAt[k - 1]] ELSE 0
  BY <1>5
<1> DEFINE Wrong == {k \in Nat : ListAt[k] # F[k]}
<1>7. Wrong = {}
  <2> SUFFICES ASSUME Wrong # {} PROVE FALSE
    OBVIOUS
  <2>1. PICK k \in Wrong : \A j \in Wrong : k <= j
    BY LeastNat
  <2>2. k \in Nat /\ ListAt[k] # F[k]
    OBVIOUS
  <2>3. k # 0
    BY <1>2, <1>6, <2>2
  <2>4. k - 1 \in Nat /\ k - 1 \notin Wrong
    BY <2>1, <2>2, <2>3
  <2>5. ListAt[k - 1] = F[k - 1]
    BY <2>4
  <2> HIDE DEF Wrong, Follows
  <2> QED
    BY <1>2, <1>6, <2>2, <2>3, <2>5
<1> QED
  BY <1>7 DEF F

\* The list is as long as there are sliced blocks, and shorter than the device.
LEMMA ThreadsCount ==
    ASSUME NEW n \in Nat, NEW L, NEW h, NEW nx, NEW S, Threads(n, L, h, nx, S)
    PROVE  IsFiniteSet(S) /\ Cardinality(S) = n /\ S \subseteq Block /\ n <= NrBlocks
<1>1. L \in [1..n -> S] /\ S \subseteq Block
  <2>1. \A k \in 1..n : L[k] \in S
    BY DEF Threads
  <2> QED
    BY <2>1 DEF Threads
<1>2. L \in Bijection(1..n, S)
  <2>1. L \in Injection(1..n, S)
    BY <1>1 DEF Threads, Injection, IsInjective
  <2>2. \A b \in S : \E k \in 1..n : L[k] = b
    BY DEF Threads
  <2>3. L \in Surjection(1..n, S)
    BY <1>1, <2>2 DEF Surjection
  <2> QED
    BY <2>1, <2>3 DEF Bijection
<1>3. IsFiniteSet(1..n) /\ Cardinality(1..n) = n
  BY FS_Interval
<1>4. ExistsBijection(1..n, S)
  BY <1>2, Zenon DEF ExistsBijection
<1>5. IsFiniteSet(S) /\ Cardinality(S) = n
  BY <1>3, <1>4, FS_Bijection
<1>6. IsFiniteSet(Block) /\ Cardinality(Block) <= NrBlocks
  <2>1. NrBlocks \in Nat /\ NrBlocks - 1 \in Int
    BY BlockNat
  <2>2. /\ IsFiniteSet(1..(NrBlocks - 1))
        /\ Cardinality(1..(NrBlocks - 1)) =
             IF 1 > NrBlocks - 1 THEN 0 ELSE (NrBlocks - 1) - 1 + 1
    BY <2>1, FS_Interval
  <2> QED
    BY <2>1, <2>2, BlockNat
<1>7. Cardinality(S) <= Cardinality(Block) /\ Cardinality(Block) \in Nat
  BY <1>1, <1>6, FS_Subset, FS_CardinalityType
<1> QED
  BY <1>1, <1>5, <1>6, <1>7, BlockNat
-----------------------------------------------------------------------------
(* The list stays intact as long as O_TRUNC does no harm *)

\* ouichefs_open takes a small file's index_block for a block number, and the
\* block it then reads starts with a nonzero word.
Misread == \E f \in Files : OpenTrunc(f) /\ BitmapWord(bitmap[IndexBlock(f)]) # 0

\* A block of a big file goes back to the bitmap with content in it.
Cleared(b) == next[b] = 0 /\ \A s \in Slice : data[b][s] = {}
Unscrubbed == \E b \in Block : OtherTruncate(b) /\ ~Cleared(b)

TruncHarms == Misread \/ Unscrubbed

\* No block is both free and in use, the metadata blocks are in use, and free
\* blocks hold no NEXT.
BlocksInv ==
    /\ other \cap bfree_bitmap = {}
    /\ 1..(Reserved - 1) \subseteq other
    /\ \A b \in Block \cap bfree_bitmap : next[b] = 0

\* Where delete_slice's walk is: at position i, with no vacant block behind it.
WalkAt(n, L, i) ==
    /\ i \in 1..(n + 1)
    /\ cur = At(n, L, i) /\ prev = At(n, L, i - 1)
    /\ \A k \in 1..(i - 1) : bitmap[L[k]] # AllFree

Threaded(n, L) ==
    /\ Threads(n, L, s_free_sliced_blocks, next, Sliced)
    /\ nr_sliced_blocks = n
    /\ pc = "scan" => cur \in Sliced
    /\ pc = "walk" => \E i \in Nat : WalkAt(n, L, i)

\* Once a handler has left the garbage block number at the head, no search and
\* no walk gets past it.
Stuck ==
    /\ s_free_sliced_blocks = ErrBlock /\ pc # "scan"
    /\ pc = "walk" => cur = ErrBlock

ListInv == IF oops THEN Stuck ELSE \E n \in Nat : \E L \in [1..n -> Block] : Threaded(n, L)

LEMMA SlicedIs ==
    /\ Sliced \subseteq Block
    /\ \A b \in Block : b \in Sliced <=> b \notin bfree_bitmap /\ b \notin other
BY DEF Sliced

LEMMA ListInvInit == Init => BlocksInv /\ ListInv
<1> SUFFICES ASSUME Init PROVE BlocksInv /\ ListInv
  OBVIOUS
<1> DEFINE L == [k \in 1..0 |-> 0]
<1>1. Sliced = {}
  BY GeometryAssumption DEF Init, Sliced, Block
<1>2. L \in [1..0 -> Block] /\ \A k : k \notin 1..0
  OBVIOUS
<1>3. Threads(0, L, s_free_sliced_blocks, next, Sliced)
  BY <1>1, <1>2 DEF Threads, Init, At
<1>4. Threaded(0, L)
  BY <1>3 DEF Threaded, Init
<1>5. BlocksInv
  <2>1. \A b \in Block : next[b] = 0
    BY DEF Init
  <2> QED
    BY <2>1, GeometryAssumption DEF BlocksInv, Init
<1> QED
  BY <1>2, <1>4, <1>5 DEF ListInv, Init

\* get_free_block's block: free, hence without NEXT, and in no list.
LEMMA FreshBlock ==
    ASSUME TypeOK, BlocksInv, NEW b \in Block, CanAlloc(b)
    PROVE  b \in bfree_bitmap /\ b \notin other /\ b \notin Sliced /\ next[b] = 0
BY DEF CanAlloc, IsFirstFree, BlocksInv, Sliced


LEMMA SlicedNext ==
    /\ Sliced' \subseteq Block
    /\ \A b \in Block : b \in Sliced' <=> b \notin bfree_bitmap' /\ b \notin other'
BY DEF Sliced

\* The steps that leave the list, and the blocks' users, alone and do not go on
\* searching or walking.
Untouched ==
    /\ BlocksInv' /\ Sliced' = Sliced
    /\ \A b \in Sliced : next'[b] = next[b]
    /\ UNCHANGED <<s_free_sliced_blocks, nr_sliced_blocks, oops>>

LEMMA UntouchedList ==
    ASSUME ListInv, Untouched, pc' \notin {"scan", "walk"}
    PROVE  ListInv'
<1>1. CASE oops
  BY <1>1 DEF ListInv, Stuck, Untouched
<1>2. CASE ~oops
  <2>1. PICK n \in Nat : \E L \in [1..n -> Block] : Threaded(n, L)
    BY <1>2 DEF ListInv
  <2>2. PICK L \in [1..n -> Block] : Threaded(n, L)
    BY <2>1
  <2>3. \A k \in 1..n : L[k] \in Sliced
    BY <2>2 DEF Threaded, Threads
  <2>4. \A k \in 1..n : next'[L[k]] = next[L[k]]
    BY <2>3 DEF Untouched
  <2>5. Threads(n, L, s_free_sliced_blocks', next', Sliced')
    BY <2>2, <2>4 DEF Threaded, Threads, Untouched
  <2>6. Threaded(n, L)'
    BY <2>2, <2>5 DEF Threaded, Untouched
  <2> QED
    BY <1>2, <2>6 DEF ListInv, Untouched
<1> QED
  BY <1>1, <1>2

LEMMA SameBlocks ==
    ASSUME BlocksInv, UNCHANGED <<bfree_bitmap, other, next>>
    PROVE  BlocksInv' /\ Sliced' = Sliced
BY DEF BlocksInv, Sliced

LEMMA QuietSteps ==
    ASSUME TypeOK, BlocksInv, ListInv,
           UNCHANGED <<bfree_bitmap, other, next, s_free_sliced_blocks, nr_sliced_blocks, oops>>,
           pc' \notin {"scan", "walk"}
    PROVE  BlocksInv' /\ ListInv'
<1>1. Untouched
  BY SameBlocks DEF Untouched
<1> QED
  BY <1>1, UntouchedList DEF Untouched

LEMMA PutZeroKeeps ==
    ASSUME TypeOK, BlocksInv, PutBlock(0), UNCHANGED <<other, next>>
    PROVE  BlocksInv' /\ Sliced' = Sliced
<1>1. bfree_bitmap' = bfree_bitmap \cup {0}
  BY BlockNat DEF PutBlock, Puts
<1>2. other \subseteq Block
  BY DEF TypeOK
<1> QED
  BY <1>1, <1>2, BlockNat DEF BlocksInv, Sliced

\* Blocks of other users come and go.
LEMMA OtherSteps ==
    ASSUME TypeOK, BlocksInv, ListInv, ~TruncHarms,
           \/ \E b \in Block, c \in Contents \cup {ZeroContent} : OtherAlloc(b, c)
           \/ OtherAllocFails
           \/ \E b \in Block : OtherUnlink(b) \/ OtherTruncate(b)
    PROVE  BlocksInv' /\ ListInv'
<1>a. bfree_bitmap \subseteq 0..NrBlocks /\ next \in [Block -> 0..(NrBlocks - 1)] /\ other \subseteq Block
  BY DEF TypeOK, SbTypeOK, BlockTypeOK
<1>1. ASSUME NEW b \in Block, NEW c \in Contents \cup {ZeroContent}, OtherAlloc(b, c)
      PROVE  Untouched /\ pc' = "idle"
  <2>1. b \in bfree_bitmap /\ b \notin other /\ b \notin Sliced
    BY <1>1, FreshBlock DEF OtherAlloc
  <2>2. bfree_bitmap' = bfree_bitmap \ {b} /\ other' = other \cup {b} /\ next' = [next EXCEPT ![b] = c.word1]
    BY <1>1 DEF OtherAlloc, SetContent
  <2>3. \A d \in Block : d # b => next'[d] = next[d]
    BY <1>a, <2>2
  <2>4. BlocksInv'
    BY <2>2, <2>3 DEF BlocksInv
  <2>5. Sliced' = Sliced
    BY <2>1, <2>2 DEF Sliced
  <2> QED
    BY <1>1, <2>1, <2>3, <2>4, <2>5, SlicedIs DEF Untouched, OtherAlloc, callvars
<1>2. CASE OtherAllocFails
  <2>1. bfree_bitmap' = bfree_bitmap \ {0} /\ UNCHANGED <<other, next>>
    BY <1>2 DEF OtherAllocFails, blockvars
  <2>2. BlocksInv' /\ Sliced' = Sliced
    BY <2>1, BlockNat DEF BlocksInv, Sliced
  <2> QED
    BY <1>2, <2>1, <2>2, UntouchedList DEF Untouched, OtherAllocFails, callvars
<1>3. ASSUME NEW b \in Block, OtherUnlink(b) \/ OtherTruncate(b) PROVE Untouched /\ pc' = "idle"
  <2>1. bfree_bitmap' = bfree_bitmap \cup {b} /\ other' = other \ {b} /\ b \in other /\ b >= Reserved
    BY <1>3, BlockNat DEF OtherUnlink, OtherTruncate, PutBlock, Puts
  <2>2. b \notin Sliced /\ Sliced' = Sliced
    BY <2>1 DEF Sliced
  <2>3. next'[b] = 0 /\ \A d \in Block : d # b => next'[d] = next[d]
    <3>1. CASE OtherUnlink(b)
      BY <1>a, <3>1 DEF OtherUnlink, SetContent, ZeroContent
    <3>2. CASE OtherTruncate(b)
      <4>1. Cleared(b)
        BY <3>2 DEF TruncHarms, Unscrubbed
      <4> QED
        BY <3>2, <4>1 DEF OtherTruncate, blockvars, Cleared
    <3> QED
      BY <1>3, <3>1, <3>2
  <2>4. \A d \in 1..(Reserved - 1) : d # b
    BY <2>1, GeometryAssumption, BlockNat
  <2>5. BlocksInv'
    <3>1. \A d \in Block \cap bfree_bitmap' : next'[d] = 0
      BY <2>1, <2>3 DEF BlocksInv
    <3>2. other' \cap bfree_bitmap' = {}
      BY <2>1 DEF BlocksInv
    <3>3. 1..(Reserved - 1) \subseteq other'
      BY <2>1, <2>4 DEF BlocksInv
    <3> QED
      BY <3>1, <3>2, <3>3 DEF BlocksInv
  <2>6. \A d \in Sliced : next'[d] = next[d]
    BY <2>2, <2>3, SlicedIs
  <2> QED
    BY <1>3, <2>2, <2>5, <2>6 DEF Untouched, OtherUnlink, OtherTruncate, callvars
<1>4. ASSUME Untouched, pc' = "idle" PROVE BlocksInv' /\ ListInv'
  BY <1>4, UntouchedList DEF Untouched
<1> QED
  BY <1>1, <1>2, <1>3, <1>4

\* A call enters the file system or is served at once.
LEMMA CallList ==
    ASSUME TypeOK, BlocksInv, ListInv, ~TruncHarms, Call
    PROVE  BlocksInv' /\ ListInv'
<1>1. ASSUME NEW f \in Files, Create(f) \/ Unlink(f) \/ OpenTruncError(f) PROVE BlocksInv' /\ ListInv'
  BY <1>1, QuietSteps DEF Create, Unlink, OpenTruncError, sbvars, blockvars, callvars, vars
<1>2. ASSUME NEW f \in Files, NEW ki_pos \in Offsets, NEW count \in Counts,
             WriteRefused(f, ki_pos, count)
      PROVE  BlocksInv' /\ ListInv'
  BY <1>2, QuietSteps DEF WriteRefused, MayWrite, sbvars, blockvars, callvars, vars
<1>3. ASSUME NEW f \in Files, NEW ki_pos \in Offsets, NEW count \in Counts, NEW append \in Appends,
             \/ WriteNew(f, ki_pos, count, append)
             \/ WriteInPlace(f, ki_pos, count, append)
             \/ WriteInPlaceFault(f, ki_pos, count, append)
             \/ WriteMove(f, ki_pos, count, append)
             \/ WriteMoveLost(f, ki_pos, count, append)
      PROVE  BlocksInv' /\ ListInv'
  BY <1>3, QuietSteps DEF WriteNew, WriteInPlace, WriteInPlaceFault, WriteMove, WriteMoveLost,
     MayWrite, sbvars, blockvars, callvars
<1>4. ASSUME NEW f \in Files, OpenTrunc(f) PROVE BlocksInv' /\ ListInv'
  <2>1. BitmapWord(bitmap[IndexBlock(f)]) = 0
    BY <1>4 DEF TruncHarms, Misread
  <2> QED
    BY <1>4, <2>1, QuietSteps DEF OpenTrunc, callvars
<1> QED
  BY <1>1, <1>2, <1>3, <1>4, OtherSteps DEF Call

\* What the list tells about the block a handler looks at.
LEMMA ScanSees ==
    ASSUME TypeOK, ListInv, pc = "scan"
    PROVE  ~oops /\ cur \in Sliced /\ cur \in Block /\ next[cur] \in Sliced \cup {0}
<1>1. ~oops
  BY DEF ListInv, Stuck
<1>2. PICK n \in Nat : \E L \in [1..n -> Block] : Threaded(n, L)
  BY <1>1 DEF ListInv
<1>3. PICK L \in [1..n -> Block] : Threaded(n, L)
  BY <1>2
<1>4. cur \in Sliced /\ Threads(n, L, s_free_sliced_blocks, next, Sliced)
  BY <1>3 DEF Threaded
<1>5. PICK k \in 1..n : L[k] = cur
  BY <1>4 DEF Threads
<1>6. next[cur] = At(n, L, k + 1)
  BY <1>4, <1>5 DEF Threads
<1>7. At(n, L, k + 1) \in Sliced \cup {0}
  BY <1>4 DEF At, Threads
<1> QED
  BY <1>1, <1>4, <1>6, <1>7, SlicedIs

LEMMA WalkSees ==
    ASSUME TypeOK, ListInv, pc = "walk", cur # 0, Readable(cur)
    PROVE  /\ ~oops
           /\ \E n \in Nat : \E L \in [1..n -> Block] : \E i \in 1..n :
                /\ Threaded(n, L) /\ WalkAt(n, L, i) /\ cur = L[i]
                /\ prev = 0 <=> i = 1
                /\ i # 1 => prev = L[i - 1]
<1>1. ~oops
  BY BlockNat DEF ListInv, Stuck, Readable, ErrBlock
<1>2. PICK n \in Nat : \E L \in [1..n -> Block] : Threaded(n, L)
  BY <1>1 DEF ListInv
<1>3. PICK L \in [1..n -> Block] : Threaded(n, L)
  BY <1>2
<1>4. PICK i \in Nat : WalkAt(n, L, i)
  BY <1>3 DEF Threaded
<1>5. i \in 1..(n + 1) /\ cur = At(n, L, i) /\ prev = At(n, L, i - 1)
  BY <1>4 DEF WalkAt
<1>6. i \in 1..n /\ cur = L[i]
  BY <1>5, AtBlock
<1>7. (prev = 0 <=> i - 1 \notin 1..n) /\ (i - 1 \in 1..n => prev = L[i - 1])
  BY <1>5, AtBlock
<1>8. (prev = 0 <=> i = 1) /\ (i # 1 => prev = L[i - 1])
  BY <1>6, <1>7
<1> QED
  BY <1>1, <1>3, <1>4, <1>6, <1>8

\* While there are sliced blocks, the head is not 0: no allocation starts a
\* second list.
LEMMA HeadLeads ==
    ASSUME ListInv, Sliced # {}
    PROVE  s_free_sliced_blocks # 0
<1>1. CASE oops
  BY <1>1, BlockNat DEF ListInv, Stuck
<1>2. CASE ~oops
  <2>2. PICK n \in Nat : \E L \in [1..n -> Block] : Threaded(n, L)
    BY <1>2 DEF ListInv
  <2>3. PICK L \in [1..n -> Block] : Threaded(n, L)
    BY <2>2
  <2>4. Threads(n, L, s_free_sliced_blocks, next, Sliced)
    BY <2>3 DEF Threaded
  <2>5. n # 0
    BY <2>4 DEF Threads
  <2>6. 1 \in 1..n
    BY <2>5
  <2> QED
    BY <2>4, <2>6, AtBlock DEF Threads
<1> QED
  BY <1>1, <1>2

LEMMA ListStartAtHead ==
    ASSUME TypeOK, BlocksInv, ListInv, StartAtHead
    PROVE  BlocksInv' /\ ListInv'
<1>1. /\ UNCHANGED <<bfree_bitmap, other, next, s_free_sliced_blocks, nr_sliced_blocks, oops>>
      /\ pc' = "scan" /\ cur' = s_free_sliced_blocks
      /\ s_free_sliced_blocks # 0 /\ s_free_sliced_blocks < NrBlocks
  BY DEF StartAtHead, sbvars, blockvars, Readable
<1>2. ~oops
  BY <1>1, BlockNat DEF ListInv, Stuck, ErrBlock
<1>3. PICK n \in Nat : \E L \in [1..n -> Block] : Threaded(n, L)
  BY <1>2 DEF ListInv
<1>4. PICK L \in [1..n -> Block] : Threaded(n, L)
  BY <1>3
<1>5. BlocksInv' /\ Sliced' = Sliced
  BY <1>1, SameBlocks
<1>6. s_free_sliced_blocks = At(n, L, 1) /\ 1 \in 1..n
  BY <1>1, <1>4, AtBlock DEF Threaded, Threads
<1>7. s_free_sliced_blocks \in Sliced
  BY <1>4, <1>6 DEF Threaded, Threads, At
<1>8. Threaded(n, L)'
  BY <1>1, <1>4, <1>5, <1>7 DEF Threaded
<1> QED
  BY <1>1, <1>2, <1>5, <1>8 DEF ListInv

LEMMA ListStartAlloc ==
    ASSUME TypeOK, BlocksInv, ListInv, StartAlloc
    PROVE  BlocksInv' /\ ListInv'
<1>1. PICK b \in Block : TakeSliceBlock(b) /\ s_free_sliced_blocks' = b /\ cur' = b
  BY DEF StartAlloc
<1>2. /\ bfree_bitmap' = bfree_bitmap \ {b} /\ nr_sliced_blocks' = nr_sliced_blocks + 1
      /\ UNCHANGED <<other, next, oops>> /\ pc' = "scan" /\ s_free_sliced_blocks = 0
  BY <1>1 DEF StartAlloc, TakeSliceBlock
<1>3. b \in bfree_bitmap /\ b \notin other /\ b \notin Sliced /\ next[b] = 0
  BY <1>1, FreshBlock DEF TakeSliceBlock
<1>4. ~oops
  BY <1>2, BlockNat DEF ListInv, Stuck
<1>5. PICK n \in Nat : \E L \in [1..n -> Block] : Threaded(n, L)
  BY <1>4 DEF ListInv
<1>6. PICK L \in [1..n -> Block] : Threaded(n, L)
  BY <1>5
<1>7. Sliced' = Sliced \cup {b}
  BY <1>2, <1>3 DEF Sliced
<1>8. BlocksInv'
  BY <1>2 DEF BlocksInv
<1> DEFINE M == [k \in 1..1 |-> b]
<1>9. n = 0 /\ Threads(1, M, b, next, Sliced \cup {b})
  <2>1. Threads(n, L, 0, next, Sliced)
    BY <1>2, <1>6 DEF Threaded
  <2> QED
    BY <1>3, <2>1, ThreadsFirst
<1>10. M \in [1..1 -> Block]
  OBVIOUS
<1> HIDE DEF M
<1>11. Threaded(1, M)'
  <2>1. nr_sliced_blocks' = 1
    BY <1>2, <1>6, <1>9 DEF Threaded
  <2> QED
    BY <1>1, <1>2, <1>7, <1>9, <2>1 DEF Threaded
<1> QED
  BY <1>2, <1>4, <1>8, <1>10, <1>11 DEF ListInv

LEMMA ListOops ==
    ASSUME TypeOK, BlocksInv, ListInv, StartNoSpace \/ StartInitError
    PROVE  BlocksInv' /\ ListInv'
<1>1. oops' /\ s_free_sliced_blocks' = ErrBlock /\ pc' = "idle"
  BY DEF StartNoSpace, StartInitError, Oops, Return
<1>2. BlocksInv'
  <2>1. CASE StartNoSpace
    BY <2>1, PutZeroKeeps DEF StartNoSpace, PutBlockZero, blockvars
  <2>2. CASE StartInitError
    BY <2>2, SameBlocks DEF StartInitError, blockvars
  <2> QED
    BY <2>1, <2>2
<1> QED
  BY <1>1, <1>2 DEF ListInv, Stuck

LEMMA ListScanNext ==
    ASSUME TypeOK, BlocksInv, ListInv, ScanNext
    PROVE  BlocksInv' /\ ListInv'
<1>1. /\ UNCHANGED <<bfree_bitmap, other, next, s_free_sliced_blocks, nr_sliced_blocks, oops>>
      /\ pc = "scan" /\ pc' = "scan" /\ cur' = next[cur] /\ next[cur] # 0
  BY DEF ScanNext, NoRoom, sbvars, blockvars
<1>2. ~oops /\ next[cur] \in Sliced
  BY <1>1, ScanSees
<1>3. PICK n \in Nat : \E L \in [1..n -> Block] : Threaded(n, L)
  BY <1>2 DEF ListInv
<1>4. PICK L \in [1..n -> Block] : Threaded(n, L)
  BY <1>3
<1>5. BlocksInv' /\ Sliced' = Sliced
  BY <1>1, SameBlocks
<1>6. Threaded(n, L)'
  BY <1>1, <1>2, <1>4, <1>5 DEF Threaded
<1> QED
  BY <1>1, <1>2, <1>5, <1>6 DEF ListInv

LEMMA ListScanAlloc ==
    ASSUME TypeOK, BlocksInv, ListInv, ScanAlloc
    PROVE  BlocksInv' /\ ListInv'
<1>1. PICK b \in Block : TakeSliceBlock(b) /\ next' = [next EXCEPT ![cur] = b] /\ cur' = b
  BY DEF ScanAlloc
<1>2. /\ bfree_bitmap' = bfree_bitmap \ {b} /\ nr_sliced_blocks' = nr_sliced_blocks + 1
      /\ UNCHANGED <<other, s_free_sliced_blocks, oops>> /\ pc' = "scan" /\ pc = "scan"
      /\ next[cur] = 0
  BY <1>1 DEF ScanAlloc, TakeSliceBlock, NoRoom
<1>3. b \in bfree_bitmap /\ b \notin other /\ b \notin Sliced /\ next[b] = 0
  BY <1>1, FreshBlock DEF TakeSliceBlock
<1>4. ~oops /\ cur \in Sliced /\ cur \in Block
  BY <1>2, ScanSees
<1>5. PICK n \in Nat : \E L \in [1..n -> Block] : Threaded(n, L)
  BY <1>4 DEF ListInv
<1>6. PICK L \in [1..n -> Block] : Threaded(n, L)
  BY <1>5
<1>7. Sliced' = Sliced \cup {b}
  BY <1>2, <1>3 DEF Sliced
<1>8. next \in [Block -> Nat]
  <2>1. next \in [Block -> 0..(NrBlocks - 1)]
    BY DEF TypeOK, BlockTypeOK
  <2> QED
    BY <2>1, BlockNat
<1>9. BlocksInv'
  <2>1. \A d \in Block \cap bfree_bitmap' : next'[d] = next[d]
    BY <1>1, <1>2, <1>4, <1>8, SlicedIs
  <2> QED
    BY <1>2, <2>1 DEF BlocksInv
<1>10. PICK M \in [1..(n + 1) -> Block] :
         Threads(n + 1, M, s_free_sliced_blocks, next', Sliced \cup {b})
  <2>1. Threads(n, L, s_free_sliced_blocks, next, Sliced)
    BY <1>6 DEF Threaded
  <2> QED
    BY <1>1, <1>2, <1>3, <1>4, <1>8, <2>1, ThreadsAppend
<1>11. Threaded(n + 1, M)'
  <2>1. nr_sliced_blocks' = n + 1
    BY <1>2, <1>6 DEF Threaded
  <2>2. b \in Sliced'
    BY <1>7
  <2> QED
    BY <1>1, <1>2, <1>7, <1>10, <2>1, <2>2 DEF Threaded
<1>12. n + 1 \in Nat
  OBVIOUS
<1> QED
  BY <1>2, <1>4, <1>9, <1>10, <1>11, <1>12 DEF ListInv

LEMMA ListFreeSlices ==
    ASSUME TypeOK, BlocksInv, ListInv, FreeSlices
    PROVE  BlocksInv' /\ ListInv'
<1>1. /\ UNCHANGED <<bfree_bitmap, other, next, s_free_sliced_blocks, nr_sliced_blocks, oops>>
      /\ pc' = "walk" /\ cur' = s_free_sliced_blocks /\ prev' = 0
  BY DEF FreeSlices, WalkFrom
<1>2. BlocksInv' /\ Sliced' = Sliced
  BY <1>1, SameBlocks
<1>3. CASE oops
  BY <1>1, <1>2, <1>3 DEF ListInv, Stuck
<1>4. CASE ~oops
  <2>1. PICK n \in Nat : \E L \in [1..n -> Block] : Threaded(n, L)
    BY <1>4 DEF ListInv
  <2>2. PICK L \in [1..n -> Block] : Threaded(n, L)
    BY <2>1
  <2>3. WalkAt(n, L, 1)'
    <3>1. s_free_sliced_blocks = At(n, L, 1)
      BY <2>2 DEF Threaded, Threads
    <3>2. At(n, L, 1 - 1) = 0 /\ 1 \in 1..(n + 1) /\ \A k : k \notin 1..(1 - 1)
      BY DEF At
    <3> QED
      BY <1>1, <3>1, <3>2 DEF WalkAt
  <2>4. Threaded(n, L)'
    BY <1>1, <1>2, <2>2, <2>3 DEF Threaded
  <2> QED
    BY <1>1, <1>2, <1>4, <2>4 DEF ListInv
<1> QED
  BY <1>3, <1>4

LEMMA ListWalkKeep ==
    ASSUME TypeOK, BlocksInv, ListInv, WalkKeep
    PROVE  BlocksInv' /\ ListInv'
<1>1. /\ UNCHANGED <<bfree_bitmap, other, next, s_free_sliced_blocks, nr_sliced_blocks, oops, bitmap>>
      /\ pc = "walk" /\ pc' = "walk" /\ cur' = next[cur] /\ prev' = cur
      /\ cur # 0 /\ Readable(cur) /\ bitmap[cur] # AllFree
  BY DEF WalkKeep, sbvars, blockvars
<1>2. BlocksInv' /\ Sliced' = Sliced
  BY <1>1, SameBlocks
<1>3. ~oops
  BY <1>1, WalkSees
<1>4. PICK n \in Nat : \E L \in [1..n -> Block] : \E i \in 1..n :
                         Threaded(n, L) /\ WalkAt(n, L, i) /\ cur = L[i]
  BY <1>1, WalkSees
<1>5. PICK L \in [1..n -> Block] : \E i \in 1..n :
                         Threaded(n, L) /\ WalkAt(n, L, i) /\ cur = L[i]
  BY <1>4
<1>6. PICK i \in 1..n : Threaded(n, L) /\ WalkAt(n, L, i) /\ cur = L[i]
  BY <1>5
<1>7. WalkAt(n, L, i + 1)'
  <2>1. next[cur] = At(n, L, i + 1)
    BY <1>6 DEF Threaded, Threads
  <2>2. cur = At(n, L, (i + 1) - 1) /\ i + 1 \in 1..(n + 1)
    BY <1>6, AtBlock
  <2>3. \A k \in 1..((i + 1) - 1) : k \in 1..(i - 1) \/ k = i
    OBVIOUS
  <2>4. \A k \in 1..((i + 1) - 1) : bitmap[L[k]] # AllFree
    BY <1>1, <1>6, <2>3 DEF WalkAt
  <2> QED
    BY <1>1, <2>1, <2>2, <2>4 DEF WalkAt
<1>8. Threaded(n, L)' /\ i + 1 \in Nat
  BY <1>1, <1>2, <1>6, <1>7 DEF Threaded
<1> QED
  BY <1>1, <1>2, <1>3, <1>8 DEF ListInv

LEMMA ListWalkFree ==
    ASSUME TypeOK, BlocksInv, ListInv, WalkFree
    PROVE  /\ BlocksInv' /\ ListInv' /\ cur \in Sliced /\ Sliced' = Sliced \ {cur}
           /\ \E n \in Nat : \E L \in [1..n -> Block] : \E i \in 1..n :
                /\ Threaded(n, L) /\ cur = L[i]
                /\ n - 1 \in Nat
                /\ \E M \in [1..(n - 1) -> Block] :
                     Threaded(n - 1, M)' /\ cur' = At(n - 1, M, i)
<1>1. /\ pc = "walk" /\ pc' = "walk" /\ cur' = next[cur] /\ prev' = prev
      /\ cur # 0 /\ Readable(cur) /\ bitmap[cur] = AllFree
      /\ bitmap' = [bitmap EXCEPT ![cur] = {}] /\ Unchain /\ PutBlock(cur)
      /\ nr_sliced_blocks' = nr_sliced_blocks - 1 /\ UNCHANGED <<other, oops>>
  BY DEF WalkFree
<1>3. ~oops
  BY <1>1, WalkSees
<1>4. PICK n \in Nat : \E L \in [1..n -> Block] : \E i \in 1..n :
                         /\ Threaded(n, L) /\ WalkAt(n, L, i) /\ cur = L[i]
                         /\ prev = 0 <=> i = 1
                         /\ i # 1 => prev = L[i - 1]
  BY <1>1, WalkSees
<1>5. PICK L \in [1..n -> Block] : \E i \in 1..n :
                         /\ Threaded(n, L) /\ WalkAt(n, L, i) /\ cur = L[i]
                         /\ prev = 0 <=> i = 1
                         /\ i # 1 => prev = L[i - 1]
  BY <1>4
<1>6. PICK i \in 1..n : /\ Threaded(n, L) /\ WalkAt(n, L, i) /\ cur = L[i]
                        /\ prev = 0 <=> i = 1
                        /\ i # 1 => prev = L[i - 1]
  BY <1>5
<1> DEFINE M == Without(n, L, i)
           h == IF i = 1 THEN next[cur] ELSE s_free_sliced_blocks
<1>7. next \in [Block -> Nat] /\ bitmap \in [Block -> SUBSET Slice] /\ cur \in Block
  <2>1. next \in [Block -> 0..(NrBlocks - 1)] /\ bitmap \in [Block -> SUBSET Slice]
    BY DEF TypeOK, BlockTypeOK
  <2> QED
    BY <1>6, <2>1, BlockNat
<1>8. Threads(n, L, s_free_sliced_blocks, next, Sliced)
  BY <1>6 DEF Threaded
<1>9. cur \in Sliced /\ (i # 1 => prev \in Sliced)
  <2>1. i # 1 => i - 1 \in 1..n
    OBVIOUS
  <2> QED
    BY <1>6, <1>8, <2>1 DEF Threads
<1>10. next' = Unlinked(n, L, next, i) /\ s_free_sliced_blocks' = h
  <2>1. CASE i = 1
    BY <1>1, <1>6, <2>1 DEF Unchain, Unlinked
  <2>2. CASE i # 1
    BY <1>1, <1>6, <2>2 DEF Unchain, Unlinked
  <2> QED
    BY <2>1, <2>2
<1>11. bfree_bitmap' = bfree_bitmap \cup {cur}
  BY <1>1, <1>7, BlockNat DEF PutBlock, Puts
<1>12. Sliced' = Sliced \ {cur}
  BY <1>1, <1>11 DEF Sliced
<1>13. BlocksInv'
  <2>1. cur \notin other /\ cur \notin bfree_bitmap /\ (i # 1 => prev \notin bfree_bitmap /\ prev \in Block)
    BY <1>9, SlicedIs
  <2>2. next'[cur] = 0
    <3>1. CASE i = 1
      BY <1>6, <1>7, <1>10, <3>1 DEF Unlinked
    <3>2. CASE i # 1
      BY <1>6, <1>7, <1>10, <3>2 DEF Unlinked
    <3> QED
      BY <3>1, <3>2
  <2>3. \A d \in Block \cap bfree_bitmap : next'[d] = next[d]
    <3>1. CASE i = 1
      BY <1>6, <1>7, <1>10, <2>1, <3>1 DEF Unlinked
    <3>2. CASE i # 1
      BY <1>6, <1>7, <1>10, <2>1, <3>2 DEF Unlinked
    <3> QED
      BY <3>1, <3>2
  <2> QED
    BY <1>1, <1>11, <2>1, <2>2, <2>3 DEF BlocksInv
<1>14. /\ n - 1 \in Nat /\ M \in [1..(n - 1) -> Block]
       /\ Threads(n - 1, M, s_free_sliced_blocks', next', Sliced')
       /\ At(n - 1, M, i) = next[cur] /\ At(n - 1, M, i - 1) = At(n, L, i - 1)
       /\ \A k \in 1..(i - 1) : M[k] = L[k]
  <2>1. Dropped(n, L, s_free_sliced_blocks, next, Sliced, i)
    BY <1>7, <1>8, ThreadsDrop
  <2>2. cur = L[i]
    BY <1>6
  <2> QED
    BY <1>10, <1>12, <2>1, <2>2 DEF Dropped, HeadWithout
<1> HIDE DEF M, h
<1>15. WalkAt(n - 1, M, i)'
  <2>1. i \in 1..((n - 1) + 1)
    OBVIOUS
  <2>2. prev = At(n, L, i - 1)
    BY <1>6 DEF WalkAt
  <2>3. ASSUME NEW k \in 1..(i - 1) PROVE bitmap'[M[k]] # AllFree
    <3>1. M[k] = L[k] /\ k \in 1..n /\ k # i
      BY <1>14
    <3>2. L[k] # cur /\ L[k] \in Block
      BY <1>6, <1>8, <3>1 DEF Threads
    <3>3. bitmap[L[k]] # AllFree
      BY <1>6 DEF WalkAt
    <3> QED
      BY <1>1, <1>7, <3>1, <3>2, <3>3
  <2> QED
    BY <1>1, <1>14, <2>1, <2>2, <2>3 DEF WalkAt
<1>16. nr_sliced_blocks' = n - 1
  BY <1>1, <1>6 DEF Threaded
<1>17. Threaded(n - 1, M)'
  BY <1>1, <1>14, <1>15, <1>16 DEF Threaded
<1>18. BlocksInv' /\ ListInv' /\ cur \in Sliced /\ Sliced' = Sliced \ {cur}
  BY <1>1, <1>3, <1>9, <1>12, <1>13, <1>14, <1>17 DEF ListInv
<1>19. Threaded(n, L) /\ cur = L[i] /\ cur' = At(n - 1, M, i)
  BY <1>1, <1>6, <1>14
<1> QED
  BY <1>14, <1>17, <1>18, <1>19

LEMMA ListStutter ==
    ASSUME BlocksInv, ListInv, UNCHANGED vars
    PROVE  BlocksInv' /\ ListInv'
<1>1. UNCHANGED <<bfree_bitmap, other, next, s_free_sliced_blocks, nr_sliced_blocks, oops,
                  pc, cur, prev, bitmap>>
  BY DEF vars, sbvars, blockvars, callvars
<1>2. BlocksInv' /\ Sliced' = Sliced
  BY <1>1, SameBlocks
<1>3. ASSUME NEW n \in Nat, NEW L \in [1..n -> Block], Threaded(n, L) PROVE Threaded(n, L)'
  <2>1. /\ Threads(n, L, s_free_sliced_blocks, next, Sliced) /\ nr_sliced_blocks = n
        /\ pc = "scan" => cur \in Sliced
        /\ pc = "walk" => \E i \in Nat : WalkAt(n, L, i)
    BY <1>3 DEF Threaded
  <2>2. ASSUME NEW i \in Nat, WalkAt(n, L, i) PROVE WalkAt(n, L, i)'
    BY <1>1, <2>2 DEF WalkAt
  <2>3. pc' = "walk" => \E i \in Nat : WalkAt(n, L, i)'
    BY <1>1, <2>1, <2>2
  <2> QED
    BY <1>1, <1>2, <2>1, <2>3 DEF Threaded
<1>5. CASE oops
  BY <1>1, <1>2, <1>5 DEF ListInv, Stuck
<1>6. CASE ~oops
  <2>1. \E n \in Nat : \E L \in [1..n -> Block] : Threaded(n, L)'
    BY <1>3, <1>6 DEF ListInv
  <2> QED
    BY <1>1, <1>2, <1>6, <2>1 DEF ListInv
<1> QED
  BY <1>5, <1>6

LEMMA ListInvNext ==
    ASSUME TypeOK, BlocksInv, ListInv, ~TruncHarms, Next
    PROVE  BlocksInv' /\ ListInv'
<1>1. CASE Call
  BY <1>1, CallList
<1>2. CASE HandlerStep
  <2>1. CASE \/ StartReadError \/ ScanReadError \/ ScanInitError
             \/ FreeNothing \/ WalkEnd \/ WalkReadError
    BY <2>1, QuietSteps DEF StartReadError, ScanReadError, ScanInitError, FreeNothing, WalkEnd,
       WalkReadError, FailWrite, DeleteReturns, Return, sbvars, blockvars
  <2>2. ASSUME NEW i \in Slice, ScanHit(i) \/ ScanHitNothing(i) \/ ScanFault(i)
        PROVE  BlocksInv' /\ ListInv'
    <3>1. /\ UNCHANGED <<bfree_bitmap, other, next, s_free_sliced_blocks, nr_sliced_blocks, oops>>
          /\ pc' \in {"idle", "free"}
      BY <2>2 DEF ScanHit, ScanHitNothing, ScanFault, FailWrite, Return, sbvars
    <3> QED
      BY <3>1, QuietSteps
  <2>3. CASE ScanNoSpace
    <3>1. BlocksInv' /\ Sliced' = Sliced
      BY <2>3, PutZeroKeeps DEF ScanNoSpace, PutBlockZero, blockvars
    <3>2. Untouched /\ pc' = "idle"
      BY <2>3, <3>1 DEF Untouched, ScanNoSpace, FailWrite, Return, blockvars
    <3> QED
      BY <3>1, <3>2, UntouchedList
  <2> QED
    BY <1>2, <2>1, <2>2, <2>3, ListStartAtHead, ListStartAlloc, ListOops, ListScanNext,
       ListScanAlloc, ListFreeSlices, ListWalkKeep, ListWalkFree DEF HandlerStep
<1> QED
  BY <1>1, <1>2 DEF Next

\* The invariant says what ListThreadsSliced says.
LEMMA ListInvThreads == ListInv => ListThreadsSliced
<1> SUFFICES ASSUME ListInv, ~oops
             PROVE  /\ {ListAt[k] : k \in 0..NrBlocks} \ {0} = Sliced
                    /\ ListAt[Cardinality(Sliced)] = 0
                    /\ nr_sliced_blocks = Cardinality(Sliced)
  BY DEF ListThreadsSliced
<1>1. PICK n \in Nat : \E L \in [1..n -> Block] : Threaded(n, L)
  BY DEF ListInv
<1>2. PICK L \in [1..n -> Block] : Threaded(n, L)
  BY <1>1
<1>3. Threads(n, L, s_free_sliced_blocks, next, Sliced) /\ nr_sliced_blocks = n
  BY <1>2 DEF Threaded
<1>4. \A k \in Nat : ListAt[k] = At(n, L, k + 1)
  BY <1>3, ListAtIs
<1>5. Cardinality(Sliced) = n /\ n <= NrBlocks /\ NrBlocks \in Nat
  BY <1>3, ThreadsCount, BlockNat
<1>6. ASSUME NEW k \in 0..NrBlocks, ListAt[k] # 0 PROVE ListAt[k] \in Sliced
  <2>1. k \in Nat /\ ListAt[k] = At(n, L, k + 1)
    BY <1>4
  <2>2. k + 1 \in 1..n /\ ListAt[k] = L[k + 1]
    BY <1>6, <2>1 DEF At
  <2> QED
    BY <1>3, <2>2 DEF Threads
<1>7. ASSUME NEW b \in Sliced PROVE b # 0 /\ \E k \in 0..NrBlocks : ListAt[k] = b
  <2>1. PICK j \in 1..n : L[j] = b
    BY <1>3 DEF Threads
  <2>2. j - 1 \in Nat /\ j - 1 \in 0..NrBlocks /\ (j - 1) + 1 = j
    BY <1>5
  <2>3. ListAt[j - 1] = At(n, L, j)
    BY <1>4, <2>2
  <2>4. ListAt[j - 1] = b
    BY <2>1, <2>3 DEF At
  <2> QED
    BY <2>2, <2>4, SlicedIs, BlockNat
<1>8. ListAt[n] = 0
  BY <1>4 DEF At
<1> QED
  BY <1>3, <1>5, <1>6, <1>7, <1>8

(* As long as O_TRUNC neither misreads a small file nor frees a block with  *)
(* content in it, the list of sliced blocks threads exactly the blocks that *)
(* are neither free nor used otherwise, each once, at every step of         *)
(* write_small_file's search and delete_slice's walk, whatever device       *)
(* faults, failed copies and full disks the calls meet.                     *)
THEOREM ListStaysThreaded == Spec /\ [][~TruncHarms]_vars => []ListThreadsSliced
<1>1. Init => BlocksInv /\ ListInv
  BY ListInvInit
<1>2. TypeOK /\ (BlocksInv /\ ListInv) /\ [Next]_vars /\ [~TruncHarms]_vars
        => (BlocksInv /\ ListInv)'
  BY ListInvNext, ListStutter
<1>3. ListInv => ListThreadsSliced
  BY ListInvThreads
<1> QED
  BY <1>1, <1>2, <1>3, TypeCorrect, PTL DEF Spec

\* At the end of its walk, delete_slice has seen every sliced block.
LEMMA EndOfWalk ==
    ASSUME ListInv, pc = "walk", cur = 0
    PROVE  \A b \in Sliced : bitmap[b] # AllFree
<1> SUFFICES ASSUME NEW b \in Sliced PROVE bitmap[b] # AllFree
  OBVIOUS
<1>1. ~oops
  BY BlockNat DEF ListInv, Stuck
<1>2. PICK n \in Nat : \E L \in [1..n -> Block] : Threaded(n, L)
  BY <1>1 DEF ListInv
<1>3. PICK L \in [1..n -> Block] : Threaded(n, L)
  BY <1>2
<1>4. PICK i \in Nat : WalkAt(n, L, i)
  BY <1>3 DEF Threaded
<1>5. i \in 1..(n + 1) /\ i \notin 1..n
  BY <1>4, AtBlock DEF WalkAt
<1>6. PICK k \in 1..n : L[k] = b
  BY <1>3 DEF Threaded, Threads
<1>7. k \in 1..(i - 1)
  BY <1>5
<1> QED
  BY <1>4, <1>6, <1>7 DEF WalkAt

(* A walk of delete_slice that reaches the end of the list, none of its     *)
(* reads having failed, leaves no vacant sliced block behind.               *)
THEOREM WalkFreesVacant == Spec /\ [][~TruncHarms]_vars => []VacantBlocksFreed
<1>1. ListInv => VacantBlocksFreed
  BY EndOfWalk DEF VacantBlocksFreed
<1>2. TypeOK /\ (BlocksInv /\ ListInv) /\ [Next]_vars /\ [~TruncHarms]_vars
        => (BlocksInv /\ ListInv)'
  BY ListInvNext, ListStutter
<1> QED
  BY <1>1, <1>2, ListInvInit, TypeCorrect, PTL DEF Spec
-----------------------------------------------------------------------------
(* How long a call can take *)

CountsNat ==
    /\ Cardinality(Ahead) \in Nat
    /\ Cardinality(Sliced) \in Nat
    /\ IsFiniteSet(bfree_bitmap \cap Block) /\ Cardinality(bfree_bitmap \cap Block) \in Nat

LEMMA CountsAreNat == CountsNat
<1>1. IsFiniteSet(0..NrBlocks) /\ IsFiniteSet(Block)
  <2>1. NrBlocks \in Nat /\ NrBlocks - 1 \in Int
    BY BlockNat
  <2>2. IsFiniteSet(0..NrBlocks) /\ IsFiniteSet(1..(NrBlocks - 1))
    BY <2>1, FS_Interval
  <2> QED
    BY <2>2, BlockNat
<1>2. Ahead \subseteq 0..NrBlocks /\ Sliced \subseteq Block /\ bfree_bitmap \cap Block \subseteq Block
  BY SlicedIs DEF Ahead
<1>3. IsFiniteSet(Ahead) /\ IsFiniteSet(Sliced) /\ IsFiniteSet(bfree_bitmap \cap Block)
  BY <1>1, <1>2, FS_Subset
<1> QED
  BY <1>3, FS_CardinalityType DEF CountsNat

LEMMA CountsStayNat == CountsNat'
BY CountsAreNat, PTL

\* At position i of a list of n blocks, n - i + 1 are still to come.
AheadIs ==
    \A n \in Nat : \A L \in [1..n -> Block] : \A i \in 1..(n + 1) :
      Threads(n, L, s_free_sliced_blocks, next, Sliced) /\ cur = At(n, L, i)
        => Cardinality(Ahead) = n - i + 1 /\ Cardinality(Sliced) = n

LEMMA AheadCounts == AheadIs
<1> SUFFICES ASSUME NEW n \in Nat, NEW L \in [1..n -> Block], NEW i \in 1..(n + 1),
                    Threads(n, L, s_free_sliced_blocks, next, Sliced), cur = At(n, L, i)
             PROVE  Cardinality(Ahead) = n - i + 1 /\ Cardinality(Sliced) = n
  BY DEF AheadIs
<1>1. Cardinality(Sliced) = n /\ n <= NrBlocks
  BY ThreadsCount
<1>2. CASE i = n + 1
  <2>1. cur = 0
    BY <1>2, AtBlock
  <2>2. Ahead = {}
    BY <2>1, BlockNat DEF Ahead
  <2>3. Cardinality({}) = 0
    BY FS_EmptySet
  <2> QED
    BY <1>1, <1>2, <2>2, <2>3
<1>3. CASE i \in 1..n
  <2>1. cur = L[i] /\ cur \in Block
    BY <1>3, AtBlock
  <2>2. ASSUME NEW k \in Nat
        PROVE  /\ ListAt[k] # 0 <=> k < n
               /\ ListAt[k] = cur <=> k = i - 1
    <3>1. ListAt[k] = At(n, L, k + 1)
      BY ListAtIs
    <3>2. k + 1 \in 1..n <=> k < n
      OBVIOUS
    <3>3. ListAt[k] # 0 <=> k < n
      BY <3>1, <3>2, AtBlock
    <3>4. ASSUME k < n PROVE ListAt[k] = cur <=> k = i - 1
      <4>1. ListAt[k] = L[k + 1] /\ k + 1 \in 1..n
        BY <3>1, <3>2, <3>4, AtBlock
      <4>2. L[k + 1] = L[i] <=> k + 1 = i
        BY <1>3, <4>1 DEF Threads
      <4> QED
        BY <1>3, <2>1, <4>1, <4>2
    <3>5. ASSUME ~(k < n) PROVE ListAt[k] # cur /\ k # i - 1
      BY <1>3, <2>1, <3>3, <3>5, BlockNat
    <3> QED
      BY <3>3, <3>4, <3>5
  <2>3. Ahead = (i - 1)..(n - 1)
    <3>1. NrBlocks \in Nat
      BY BlockNat
    <3>2. ASSUME NEW k \in 0..NrBlocks
          PROVE  (ListAt[k] # 0 /\ \E j \in 0..k : ListAt[j] = cur) <=> k \in (i - 1)..(n - 1)
      <4>1. k \in Nat /\ (ListAt[k] # 0 <=> k < n)
        BY <2>2, <3>1
      <4>2. \A j \in 0..k : ListAt[j] = cur <=> j = i - 1
        BY <2>2, <4>1
      <4>3. (\E j \in 0..k : ListAt[j] = cur) <=> i - 1 <= k
        BY <1>3, <4>1, <4>2
      <4> QED
        BY <1>3, <4>1, <4>3
    <3>3. (i - 1)..(n - 1) \subseteq 0..NrBlocks
      BY <1>1, <1>3, <3>1
    <3>4. Ahead = {k \in 0..NrBlocks : ListAt[k] # 0 /\ \E j \in 0..k : ListAt[j] = cur}
      BY <2>1 DEF Ahead
    <3> QED
      BY <3>2, <3>3, <3>4
  <2>4. Cardinality((i - 1)..(n - 1)) = n - i + 1
    <3>1. i - 1 \in Int /\ n - 1 \in Int /\ ~(i - 1 > n - 1)
      BY <1>3
    <3>2. Cardinality((i - 1)..(n - 1)) = (n - 1) - (i - 1) + 1
      BY <3>1, FS_Interval
    <3> QED
      BY <1>3, <3>2
  <2> QED
    BY <1>1, <2>3, <2>4
<1> QED
  BY <1>2, <1>3

LEMMA AheadWillCount == AheadIs'
BY AheadCounts, PTL

\* The bound while a call is at work, and once it has returned.
LEMMA StepsLeftIs ==
    /\ pc = "walk" => StepsLeft = 1 + Cardinality(Ahead)
    /\ pc = "free" => StepsLeft = 2 + Cardinality(Sliced)
    /\ pc = "scan" => StepsLeft = 3 + Cardinality(Sliced) + 2 * Cardinality(bfree_bitmap \cap Block)
                                    + Cardinality(Ahead)
    /\ pc = "start" => StepsLeft = 4 + 2 * Cardinality(Sliced) + 2 * Cardinality(bfree_bitmap \cap Block)
    /\ pc' = "idle" => StepsLeft' = 0
    /\ pc' = "walk" => StepsLeft' = 1 + Cardinality(Ahead')
    /\ pc' = "free" => StepsLeft' = 2 + Cardinality(Sliced')
    /\ pc' = "scan" => StepsLeft' = 3 + Cardinality(Sliced') + 2 * Cardinality(bfree_bitmap' \cap Block)
                                      + Cardinality(Ahead')
BY DEF StepsLeft

\* A call that returns has no steps left.
LEMMA ProgressReturn ==
    ASSUME TypeOK, pc # "idle", pc' = "idle"
    PROVE  StepsLeft' < StepsLeft
<1>1. pc \in {"walk", "free", "scan", "start"}
  BY DEF TypeOK, CallTypeOK
<1> QED
  BY <1>1, CountsAreNat, StepsLeftIs DEF CountsNat

\* The search starts: the whole list is ahead.
LEMMA ProgressStartAtHead ==
    ASSUME TypeOK, BlocksInv, ListInv, StartAtHead
    PROVE  StepsLeft' < StepsLeft
<1>1. /\ UNCHANGED <<bfree_bitmap, other, next, s_free_sliced_blocks, nr_sliced_blocks, oops>>
      /\ pc = "start" /\ pc' = "scan" /\ cur' = s_free_sliced_blocks
      /\ s_free_sliced_blocks # 0 /\ s_free_sliced_blocks < NrBlocks
  BY DEF StartAtHead, sbvars, blockvars, Readable
<1>2. ~oops
  BY <1>1, BlockNat DEF ListInv, Stuck, ErrBlock
<1>3. PICK n \in Nat : \E L \in [1..n -> Block] : Threaded(n, L)
  BY <1>2 DEF ListInv
<1>4. PICK L \in [1..n -> Block] : Threaded(n, L)
  BY <1>3
<1>5. Sliced' = Sliced
  BY <1>1, SameBlocks
<1>6. Threads(n, L, s_free_sliced_blocks, next, Sliced)
  BY <1>4 DEF Threaded
<1>7. s_free_sliced_blocks = At(n, L, 1) /\ 1 \in 1..(n + 1)
  BY <1>6 DEF Threads
<1>8. Cardinality(Ahead') = n - 1 + 1 /\ Cardinality(Sliced') = n
  BY <1>1, <1>5, <1>6, <1>7, AheadWillCount DEF AheadIs
<1> QED
  BY <1>1, <1>5, <1>8, CountsAreNat, StepsLeftIs DEF CountsNat

\* A block taken from the bitmap is one free block less.
LEMMA TakenCounts ==
    ASSUME NEW b \in Block, b \in bfree_bitmap, bfree_bitmap' = bfree_bitmap \ {b}
    PROVE  Cardinality(bfree_bitmap' \cap Block) = Cardinality(bfree_bitmap \cap Block) - 1
<1>1. bfree_bitmap' \cap Block = (bfree_bitmap \cap Block) \ {b}
  OBVIOUS
<1>2. b \in bfree_bitmap \cap Block /\ IsFiniteSet(bfree_bitmap \cap Block)
  BY CountsAreNat DEF CountsNat
<1> QED
  BY <1>1, <1>2, FS_RemoveElement

\* A block that ends the list is all that is ahead.
EndOfList ==
    ~oops /\ pc = "scan" /\ ListInv /\ next[cur] = 0 => Cardinality(Ahead) = 1

LEMMA EndCounts == EndOfList
<1> SUFFICES ASSUME ~oops, pc = "scan", ListInv, next[cur] = 0 PROVE Cardinality(Ahead) = 1
  BY DEF EndOfList
<1>1. PICK n \in Nat : \E L \in [1..n -> Block] : Threaded(n, L)
  BY DEF ListInv
<1>2. PICK L \in [1..n -> Block] : Threaded(n, L)
  BY <1>1
<1>3. cur \in Sliced /\ Threads(n, L, s_free_sliced_blocks, next, Sliced)
  BY <1>2 DEF Threaded
<1>4. PICK k \in 1..n : L[k] = cur
  BY <1>3 DEF Threads
<1>5. At(n, L, k + 1) = 0
  BY <1>3, <1>4 DEF Threads
<1>6. k = n /\ k \in 1..(n + 1)
  BY <1>5, AtBlock
<1>7. cur = At(n, L, k)
  BY <1>4, AtBlock
<1>8. Cardinality(Ahead) = n - k + 1
  BY <1>3, <1>6, <1>7, AheadCounts DEF AheadIs
<1> QED
  BY <1>6, <1>8

LEMMA EndWillCount == EndOfList'
BY EndCounts, PTL

\* A fresh block at the end of the list: one sliced block more, a free one less.
LEMMA FreshCounts ==
    ASSUME TypeOK, BlocksInv, ListInv, ListInv', ~oops, NEW b \in Block, TakeSliceBlock(b),
           UNCHANGED <<other, oops>>, pc' = "scan", cur' = b, next'[b] = 0
    PROVE  /\ Cardinality(Ahead') = 1 /\ Cardinality(Sliced') = Cardinality(Sliced) + 1
           /\ Cardinality(bfree_bitmap' \cap Block) = Cardinality(bfree_bitmap \cap Block) - 1
<1>1. bfree_bitmap' = bfree_bitmap \ {b}
  BY DEF TakeSliceBlock
<1>2. b \in bfree_bitmap /\ b \notin other /\ b \notin Sliced
  BY FreshBlock DEF TakeSliceBlock
<1>3. Sliced' = Sliced \cup {b}
  BY <1>1, <1>2 DEF Sliced
<1>4. IsFiniteSet(Sliced)
  <2>1. IsFiniteSet(1..(NrBlocks - 1)) /\ Sliced \subseteq 1..(NrBlocks - 1)
    BY FS_Interval, BlockNat, SlicedIs
  <2> QED
    BY <2>1, FS_Subset
<1>5. Cardinality(Sliced \cup {b}) = Cardinality(Sliced) + 1
  BY <1>2, <1>4, FS_AddElement
<1>6. Cardinality(Ahead') = 1
  BY EndWillCount DEF EndOfList
<1> QED
  BY <1>1, <1>2, <1>3, <1>5, <1>6, TakenCounts

LEMMA ProgressStartAlloc ==
    ASSUME TypeOK, BlocksInv, ListInv, StartAlloc
    PROVE  StepsLeft' < StepsLeft
<1>1. PICK b \in Block : TakeSliceBlock(b) /\ s_free_sliced_blocks' = b /\ cur' = b
  BY DEF StartAlloc
<1>2. UNCHANGED <<other, next, oops>> /\ pc = "start" /\ pc' = "scan" /\ s_free_sliced_blocks = 0
  BY DEF StartAlloc
<1>3. ~oops
  BY <1>2, BlockNat DEF ListInv, Stuck
<1>4. ListInv'
  BY ListStartAlloc
<1>5. next'[b] = 0
  BY <1>1, <1>2, FreshBlock DEF TakeSliceBlock
<1>6. /\ Cardinality(Ahead') = 1 /\ Cardinality(Sliced') = Cardinality(Sliced) + 1
      /\ Cardinality(bfree_bitmap' \cap Block) = Cardinality(bfree_bitmap \cap Block) - 1
  BY <1>1, <1>2, <1>3, <1>4, <1>5, FreshCounts
<1>7. Sliced = {}
  BY <1>2, HeadLeads
<1>8. Cardinality(Sliced) = 0
  BY <1>7, FS_EmptySet
<1> QED
  BY <1>2, <1>6, <1>8, CountsAreNat, StepsLeftIs DEF CountsNat

\* The next block of the list: one less ahead.
LEMMA ProgressScanNext ==
    ASSUME TypeOK, BlocksInv, ListInv, ScanNext
    PROVE  StepsLeft' < StepsLeft
<1>1. /\ UNCHANGED <<bfree_bitmap, other, next, s_free_sliced_blocks, nr_sliced_blocks, oops>>
      /\ pc = "scan" /\ pc' = "scan" /\ cur' = next[cur]
  BY DEF ScanNext, NoRoom, sbvars, blockvars
<1>2. ~oops
  BY <1>1, ScanSees
<1>3. PICK n \in Nat : \E L \in [1..n -> Block] : Threaded(n, L)
  BY <1>2 DEF ListInv
<1>4. PICK L \in [1..n -> Block] : Threaded(n, L)
  BY <1>3
<1>5. Sliced' = Sliced
  BY <1>1, SameBlocks
<1>6. Threads(n, L, s_free_sliced_blocks, next, Sliced) /\ cur \in Sliced
  BY <1>1, <1>4 DEF Threaded
<1>7. PICK i \in 1..n : L[i] = cur
  BY <1>6 DEF Threads
<1>8. cur = At(n, L, i) /\ cur' = At(n, L, i + 1) /\ i \in 1..(n + 1) /\ i + 1 \in 1..(n + 1)
  BY <1>1, <1>6, <1>7, AtBlock DEF Threads
<1>9. Cardinality(Ahead) = n - i + 1
  BY <1>6, <1>8, AheadCounts DEF AheadIs
<1>10. Cardinality(Ahead') = n - (i + 1) + 1
  BY <1>1, <1>5, <1>6, <1>8, AheadWillCount DEF AheadIs
<1> QED
  BY <1>1, <1>5, <1>9, <1>10, CountsAreNat, StepsLeftIs DEF CountsNat

\* The list grows under the search, but a free block is gone for it.
LEMMA ProgressScanAlloc ==
    ASSUME TypeOK, BlocksInv, ListInv, ScanAlloc
    PROVE  StepsLeft' < StepsLeft
<1>1. PICK b \in Block : TakeSliceBlock(b) /\ next' = [next EXCEPT ![cur] = b] /\ cur' = b
  BY DEF ScanAlloc
<1>2. UNCHANGED <<other, oops>> /\ pc' = "scan" /\ pc = "scan" /\ next[cur] = 0
  BY DEF ScanAlloc, NoRoom
<1>3. ~oops /\ cur \in Sliced
  BY <1>2, ScanSees
<1>4. ListInv'
  BY ListScanAlloc
<1>5. b \notin Sliced /\ next[b] = 0
  BY <1>1, FreshBlock DEF TakeSliceBlock
<1>6. next'[b] = 0
  <2>1. next \in [Block -> 0..(NrBlocks - 1)]
    BY DEF TypeOK, BlockTypeOK
  <2> QED
    BY <1>1, <1>3, <1>5, <2>1
<1>7. /\ Cardinality(Ahead') = 1 /\ Cardinality(Sliced') = Cardinality(Sliced) + 1
      /\ Cardinality(bfree_bitmap' \cap Block) = Cardinality(bfree_bitmap \cap Block) - 1
  BY <1>1, <1>2, <1>3, <1>4, <1>6, FreshCounts
<1>8. Cardinality(Ahead) = 1
  BY <1>2, <1>3, EndCounts DEF EndOfList
<1> QED
  BY <1>2, <1>7, <1>8, CountsAreNat, StepsLeftIs DEF CountsNat

\* A move goes on to free the old slices.
LEMMA ProgressHit ==
    ASSUME TypeOK, pc = "scan", pc' = "free", UNCHANGED <<bfree_bitmap, other>>
    PROVE  StepsLeft' < StepsLeft
<1>1. Sliced' = Sliced
  BY DEF Sliced
<1> QED
  BY <1>1, CountsAreNat, StepsLeftIs DEF CountsNat

\* The walk starts at the head of the list, or at the number after an Oops.
LEMMA ProgressFreeSlices ==
    ASSUME TypeOK, BlocksInv, ListInv, FreeSlices
    PROVE  StepsLeft' < StepsLeft
<1>1. /\ UNCHANGED <<bfree_bitmap, other, next, s_free_sliced_blocks, oops>>
      /\ pc = "free" /\ pc' = "walk" /\ cur' = s_free_sliced_blocks
  BY DEF FreeSlices, WalkFrom
<1>2. Sliced' = Sliced
  BY <1>1 DEF Sliced
<1>3. CASE oops
  <2>1. cur' \notin Block
    BY <1>1, <1>3, BlockNat DEF ListInv, Stuck
  <2>2. Ahead' = {}
    BY <2>1 DEF Ahead
  <2>3. Cardinality(Ahead') = 0
    BY <2>2, FS_EmptySet
  <2> QED
    BY <1>1, <2>3, CountsAreNat, StepsLeftIs DEF CountsNat
<1>4. CASE ~oops
  <2>1. PICK n \in Nat : \E L \in [1..n -> Block] : Threaded(n, L)
    BY <1>4 DEF ListInv
  <2>2. PICK L \in [1..n -> Block] : Threaded(n, L)
    BY <2>1
  <2>3. Threads(n, L, s_free_sliced_blocks, next, Sliced)
    BY <2>2 DEF Threaded
  <2>4. cur' = At(n, L, 1) /\ 1 \in 1..(n + 1)
    BY <1>1, <2>3 DEF Threads
  <2>5. Cardinality(Ahead') = n - 1 + 1 /\ Cardinality(Sliced') = n
    BY <1>1, <1>2, <2>3, <2>4, AheadWillCount DEF AheadIs
  <2> QED
    BY <1>1, <1>2, <2>5, CountsAreNat, StepsLeftIs DEF CountsNat
<1> QED
  BY <1>3, <1>4

LEMMA ProgressWalkKeep ==
    ASSUME TypeOK, BlocksInv, ListInv, WalkKeep
    PROVE  StepsLeft' < StepsLeft
<1>1. /\ UNCHANGED <<bfree_bitmap, other, next, s_free_sliced_blocks, oops>>
      /\ pc = "walk" /\ pc' = "walk" /\ cur' = next[cur]
      /\ cur # 0 /\ Readable(cur)
  BY DEF WalkKeep, sbvars, blockvars
<1>2. Sliced' = Sliced
  BY <1>1 DEF Sliced
<1>3. PICK n \in Nat : \E L \in [1..n -> Block] : \E i \in 1..n : Threaded(n, L) /\ cur = L[i]
  BY <1>1, WalkSees
<1>4. PICK L \in [1..n -> Block] : \E i \in 1..n : Threaded(n, L) /\ cur = L[i]
  BY <1>3
<1>5. PICK i \in 1..n : Threaded(n, L) /\ cur = L[i]
  BY <1>4
<1>6. Threads(n, L, s_free_sliced_blocks, next, Sliced)
  BY <1>5 DEF Threaded
<1>7. cur = At(n, L, i) /\ cur' = At(n, L, i + 1) /\ i \in 1..(n + 1) /\ i + 1 \in 1..(n + 1)
  BY <1>1, <1>5, <1>6, AtBlock DEF Threads
<1>8. Cardinality(Ahead) = n - i + 1
  BY <1>6, <1>7, AheadCounts DEF AheadIs
<1>9. Cardinality(Ahead') = n - (i + 1) + 1
  BY <1>1, <1>2, <1>6, <1>7, AheadWillCount DEF AheadIs
<1> QED
  BY <1>1, <1>8, <1>9, StepsLeftIs

\* The block leaves the list: the ones after it are as many as before.
LEMMA ProgressWalkFree ==
    ASSUME TypeOK, BlocksInv, ListInv, WalkFree
    PROVE  StepsLeft' < StepsLeft
<1>1. pc = "walk" /\ pc' = "walk"
  BY DEF WalkFree
<1>2. PICK n \in Nat : \E L \in [1..n -> Block] : \E i \in 1..n :
                /\ Threaded(n, L) /\ cur = L[i]
                /\ n - 1 \in Nat
                /\ \E M \in [1..(n - 1) -> Block] :
                     Threaded(n - 1, M)' /\ cur' = At(n - 1, M, i)
  BY ListWalkFree
<1>3. PICK L \in [1..n -> Block] : \E i \in 1..n :
                /\ Threaded(n, L) /\ cur = L[i]
                /\ n - 1 \in Nat
                /\ \E M \in [1..(n - 1) -> Block] :
                     Threaded(n - 1, M)' /\ cur' = At(n - 1, M, i)
  BY <1>2
<1>4. PICK i \in 1..n :
                /\ Threaded(n, L) /\ cur = L[i]
                /\ n - 1 \in Nat
                /\ \E M \in [1..(n - 1) -> Block] :
                     Threaded(n - 1, M)' /\ cur' = At(n - 1, M, i)
  BY <1>3
<1>5. PICK M \in [1..(n - 1) -> Block] : Threaded(n - 1, M)' /\ cur' = At(n - 1, M, i)
  BY <1>4
<1>6. Threads(n, L, s_free_sliced_blocks, next, Sliced)
  BY <1>4 DEF Threaded
<1>7. Threads(n - 1, M, s_free_sliced_blocks', next', Sliced')
  BY <1>5 DEF Threaded
<1>8. cur = At(n, L, i) /\ i \in 1..(n + 1) /\ i \in 1..((n - 1) + 1) /\ n - 1 \in Nat
  BY <1>4, AtBlock
<1>9. Cardinality(Ahead) = n - i + 1
  BY <1>6, <1>8, AheadCounts DEF AheadIs
<1>10. Cardinality(Ahead') = (n - 1) - i + 1
  BY <1>5, <1>7, <1>8, AheadWillCount DEF AheadIs
<1> QED
  BY <1>1, <1>9, <1>10, StepsLeftIs

LEMMA ProgressHandler ==
    ASSUME TypeOK, BlocksInv, ListInv, HandlerStep
    PROVE  StepsLeft' < StepsLeft
<1>1. CASE StartReadError \/ StartNoSpace \/ StartInitError
  <2>1. pc # "idle" /\ pc' = "idle"
    BY <1>1 DEF StartReadError, StartNoSpace, StartInitError, FailWrite, Oops, Return
  <2> QED
    BY <2>1, ProgressReturn
<1>2. CASE ScanReadError \/ ScanNoSpace \/ ScanInitError
  <2>1. pc # "idle" /\ pc' = "idle"
    BY <1>2 DEF ScanReadError, ScanNoSpace, ScanInitError, NoRoom, FailWrite, Return
  <2> QED
    BY <2>1, ProgressReturn
<1>3. CASE \E i \in Slice : ScanHitNothing(i) \/ ScanFault(i)
  <2>1. pc # "idle" /\ pc' = "idle"
    BY <1>3 DEF ScanHitNothing, ScanFault, FoundAt, FailWrite, Return
  <2> QED
    BY <2>1, ProgressReturn
<1>4. CASE \E i \in Slice : ScanHit(i)
  <2>1. /\ pc = "scan" /\ pc' \in {"free", "idle"}
        /\ UNCHANGED <<bfree_bitmap, other>>
    BY <1>4 DEF ScanHit, FoundAt, Return
  <2> QED
    BY <2>1, ProgressHit, ProgressReturn
<1>5. CASE FreeNothing \/ WalkEnd \/ WalkReadError
  <2>1. pc # "idle" /\ pc' = "idle"
    BY <1>5 DEF FreeNothing, WalkEnd, WalkReadError, DeleteReturns, Return
  <2> QED
    BY <2>1, ProgressReturn
<1> QED
  BY <1>1, <1>2, <1>3, <1>4, <1>5, ProgressStartAtHead, ProgressStartAlloc, ProgressScanNext,
     ProgressScanAlloc, ProgressFreeSlices, ProgressWalkKeep, ProgressWalkFree DEF HandlerStep

LEMMA CallsWhenIdle == Call => pc = "idle"
<1>1. ASSUME NEW f \in Files, Create(f) \/ Unlink(f) \/ OpenTrunc(f) \/ OpenTruncError(f)
      PROVE  pc = "idle"
  BY <1>1 DEF Create, Unlink, OpenTrunc, OpenTruncError
<1>2. ASSUME NEW f \in Files, NEW ki_pos \in Offsets, NEW count \in Counts,
             WriteRefused(f, ki_pos, count)
      PROVE  pc = "idle"
  BY <1>2 DEF WriteRefused, MayWrite
<1>3. ASSUME NEW f \in Files, NEW ki_pos \in Offsets, NEW count \in Counts, NEW append \in Appends,
             \/ WriteNew(f, ki_pos, count, append)
             \/ WriteInPlace(f, ki_pos, count, append)
             \/ WriteInPlaceFault(f, ki_pos, count, append)
             \/ WriteMove(f, ki_pos, count, append)
             \/ WriteMoveLost(f, ki_pos, count, append)
      PROVE  pc = "idle"
  BY <1>3 DEF WriteNew, WriteInPlace, WriteInPlaceFault, WriteMove, WriteMoveLost, MayWrite
<1>4. ASSUME \/ \E b \in Block, c \in Contents \cup {ZeroContent} : OtherAlloc(b, c)
             \/ OtherAllocFails
             \/ \E b \in Block : OtherUnlink(b) \/ OtherTruncate(b)
      PROVE  pc = "idle"
  BY <1>4 DEF OtherAlloc, OtherAllocFails, OtherUnlink, OtherTruncate
<1> QED
  BY <1>1, <1>2, <1>3, <1>4 DEF Call

(* Every step of a call lowers a bound on the steps it has left, for lists  *)
(* of any length and through read errors, faults and full disks: the loops  *)
(* of write_small_file and delete_slice end, as long as O_TRUNC has freed   *)
(* neither blocks in use nor blocks with content, whose second word would   *)
(* become a NEXT.                                                           *)
THEOREM CallsMakeProgress == Spec /\ [][~TruncHarms]_vars => CallsProgress
<1>1. TypeOK /\ (BlocksInv /\ ListInv) /\ [Next]_vars /\ [~TruncHarms]_vars
        => (BlocksInv /\ ListInv)'
  BY ListInvNext, ListStutter
<1>2. TypeOK /\ (BlocksInv /\ ListInv) /\ [Next]_vars
        => [pc # "idle" => StepsLeft' < StepsLeft]_vars
  BY ProgressHandler, CallsWhenIdle DEF Next
<1> QED
  BY <1>1, <1>2, ListInvInit, TypeCorrect, PTL DEF Spec, CallsProgress
-----------------------------------------------------------------------------
(* Who holds which slices *)

\* The running handler's locals agree with the inode of its file.
WriteLocals ==
    /\ req.op = "write" /\ bno[req.f] = 0
    /\ req.move => num_slices[req.f] = req.old_num_slices

UnlinkLocals ==
    /\ ~req.move
    /\ req.old_bno = bno[req.f] /\ req.old_slice_no = slice_no[req.f]
    /\ req.old_num_slices = num_slices[req.f]

CallInv ==
    pc # "idle" =>
      /\ req.f \in linked
      /\ pc \in {"start", "scan"} => WriteLocals
      /\ req.op = "write" /\ pc \in {"free", "walk"} => req.move
      /\ req.op = "unlink" => pc \in {"free", "walk"} /\ UnlinkLocals
      /\ req.move => req.old_bno # 0 /\ req.old_num_slices # 0 /\ req.size = req.count

LEMMA CallInvInit == Init => CallInv
BY DEF Init, CallInv

LEMMA CallInvNext ==
    ASSUME TypeOK, CallInv, [Next]_vars
    PROVE  CallInv'
<1>a. /\ bno \in [Files -> 0..(NrBlocks - 1)] /\ slice_no \in [Files -> 0..(NrSlices - 1)]
      /\ num_slices \in [Files -> Nat] /\ i_size \in [Files -> Nat]
      /\ pc \in {"idle", "start", "scan", "free", "walk"}
  BY DEF TypeOK, InodeTypeOK, CallTypeOK
<1>b. pc # "idle" => req \in Req /\ req.f \in Files /\ req.op \in {"write", "unlink"}
  <2>1. pc # "idle" => req \in Req
    BY DEF TypeOK, CallTypeOK
  <2> QED
    BY <2>1 DEF Req
<1>1. CASE pc' = "idle"
  BY <1>1 DEF CallInv
<1>2. CASE pc' = pc /\ UNCHANGED <<req, linked, bno, slice_no, num_slices>>
  BY <1>2 DEF CallInv, WriteLocals, UnlinkLocals
<1>3. ASSUME NEW f \in Files, Unlink(f) PROVE CallInv'
  <2>1. pc' = "free" /\ f \in linked /\ UNCHANGED <<linked, bno, slice_no, num_slices>>
    BY <1>3 DEF Unlink, inodevars
  <2>2. /\ req'.f = f /\ req'.op = "unlink" /\ ~req'.move /\ req'.old_bno = bno[f]
        /\ req'.old_slice_no = slice_no[f] /\ req'.old_num_slices = num_slices[f]
    <3>1. req' = [WriteReq(f, 0, 0, 0, FALSE, {}, FALSE) EXCEPT !.op = "unlink"]
      BY <1>3 DEF Unlink
    <3> QED
      BY <3>1 DEF WriteReq
  <2>3. UnlinkLocals'
    BY <2>1, <2>2 DEF UnlinkLocals
  <2>4. req'.f \in linked' /\ pc' \notin {"start", "scan"} /\ pc' \in {"free", "walk"} /\ req'.op # "write"
    BY <2>1, <2>2
  <2> QED
    BY <2>2, <2>3, <2>4, Zenon DEF CallInv
<1>4. ASSUME NEW f \in Files, NEW ki_pos \in Offsets, NEW count \in Counts, NEW append \in Appends,
             WriteNew(f, ki_pos, count, append)
      PROVE  CallInv'
  <2>1. /\ req'.f = f /\ req'.op = "write" /\ req'.move = FALSE /\ f \in linked /\ bno[f] = 0
        /\ pc' = "start" /\ UNCHANGED <<linked, bno, slice_no, num_slices>>
    BY <1>4 DEF WriteNew, MayWrite, WriteReq, inodevars
  <2> QED
    BY <2>1 DEF CallInv, WriteLocals
<1>5. ASSUME NEW f \in Files, NEW ki_pos \in Offsets, NEW count \in Counts, NEW append \in Appends,
             WriteMove(f, ki_pos, count, append)
      PROVE  CallInv'
  <2>1. /\ req'.f = f /\ req'.op = "write" /\ f \in linked /\ bno' = [bno EXCEPT ![f] = 0]
        /\ req'.old_bno = bno[f] /\ req'.old_num_slices = num_slices[f] /\ req'.size = req'.count
        /\ bno[f] # 0 /\ num_slices[f] # 0
        /\ pc' = "start" /\ UNCHANGED <<linked, num_slices>>
    <3>1. /\ f \in linked /\ bno' = [bno EXCEPT ![f] = 0] /\ bno[f] # 0 /\ num_slices[f] # 0
          /\ pc' = "start" /\ UNCHANGED <<linked, num_slices>>
      BY <1>5 DEF WriteMove, MayWrite
    <3>2. \E size, user, tags : req' = WriteReq(f, size, 0, size, user, tags, TRUE)
      BY <1>5, Zenon DEF WriteMove
    <3>3. PICK size, user, tags : req' = WriteReq(f, size, 0, size, user, tags, TRUE)
      BY <3>2
    <3> QED
      BY <3>1, <3>3 DEF WriteReq
  <2>2. bno'[f] = 0
    BY <1>a, <2>1
  <2> QED
    BY <2>1, <2>2 DEF CallInv, WriteLocals
<1>6. ASSUME NEW i \in Slice, ScanHit(i), pc' # "idle" PROVE CallInv'
  <2>1. pc = "scan" /\ pc' = "free" /\ req.move /\ UNCHANGED <<req, linked>>
    BY <1>6 DEF ScanHit, FoundAt, Return
  <2> QED
    BY <2>1 DEF CallInv, WriteLocals
<1>7. CASE StartAtHead \/ StartAlloc
  BY <1>7 DEF StartAtHead, StartAlloc, CallInv, WriteLocals, inodevars
<1>8. CASE FreeSlices
  BY <1>8 DEF FreeSlices, CallInv, UnlinkLocals, inodevars
<1>9. CASE Call
  <2>1. ASSUME NEW f \in Files, Create(f) PROVE CallInv'
    BY <1>1, <2>1 DEF Create, callvars
  <2>2. ASSUME NEW f \in Files, OpenTrunc(f) \/ OpenTruncError(f) PROVE CallInv'
    BY <1>1, <2>2 DEF OpenTrunc, OpenTruncError, callvars, vars
  <2>3. ASSUME NEW f \in Files, NEW ki_pos \in Offsets, NEW count \in Counts,
               WriteRefused(f, ki_pos, count)
        PROVE  CallInv'
    BY <1>1, <2>3 DEF WriteRefused, MayWrite, vars, callvars
  <2>4. ASSUME NEW f \in Files, NEW ki_pos \in Offsets, NEW count \in Counts, NEW append \in Appends,
               \/ WriteInPlace(f, ki_pos, count, append)
               \/ WriteInPlaceFault(f, ki_pos, count, append)
               \/ WriteMoveLost(f, ki_pos, count, append)
        PROVE  CallInv'
    BY <1>1, <2>4 DEF WriteInPlace, WriteInPlaceFault, WriteMoveLost, MayWrite, callvars
  <2>5. CASE \/ \E b \in Block, c \in Contents \cup {ZeroContent} : OtherAlloc(b, c)
             \/ OtherAllocFails
             \/ \E b \in Block : OtherUnlink(b) \/ OtherTruncate(b)
    BY <1>1, <2>5 DEF OtherAlloc, OtherAllocFails, OtherUnlink, OtherTruncate, callvars
  <2> QED
    BY <1>3, <1>4, <1>5, <1>9, <2>1, <2>2, <2>3, <2>4, <2>5 DEF Call
<1>10. CASE HandlerStep
  <2>1. CASE \/ StartReadError \/ StartNoSpace \/ StartInitError \/ ScanReadError \/ ScanNoSpace
             \/ ScanInitError \/ FreeNothing \/ WalkEnd \/ WalkReadError
    BY <1>1, <2>1 DEF StartReadError, StartNoSpace, StartInitError, ScanReadError, ScanNoSpace,
       ScanInitError, FreeNothing, WalkEnd, WalkReadError, FailWrite, DeleteReturns, Oops, Return
  <2>2. ASSUME NEW i \in Slice, ScanHitNothing(i) \/ ScanFault(i) PROVE CallInv'
    BY <1>1, <2>2 DEF ScanHitNothing, ScanFault, FailWrite, Return
  <2>3. CASE ScanNext \/ ScanAlloc \/ WalkFree \/ WalkKeep
    BY <1>2, <2>3 DEF ScanNext, ScanAlloc, WalkFree, WalkKeep, inodevars
  <2>4. ASSUME NEW i \in Slice, ScanHit(i) PROVE CallInv'
    BY <1>1, <1>6, <2>4
  <2> QED
    BY <1>7, <1>8, <1>10, <2>1, <2>2, <2>3, <2>4 DEF HandlerStep
<1>11. CASE UNCHANGED vars
  BY <1>2, <1>11 DEF vars, inodevars, callvars
<1> QED
  BY <1>9, <1>10, <1>11 DEF Next

\* File f holds slice s of block b; a move still holds it as old slice; it is
\* marked as taken.
Has(f, b, s) == bno[f] = b /\ s \in Holds(f)
OldHas(b, s) == OldExtent # {} /\ req.old_bno = b /\ s \in OldExtent
IsTaken(b, s) == b \in Sliced /\ s \in Slice /\ s \notin bitmap[b]

\* ExtentsDisjoint, slice by slice.
SpotInv ==
    /\ \A f \in linked : \A b, s : Has(f, b, s) => IsTaken(b, s)
    /\ \A f, g \in linked : \A b, s : Has(f, b, s) /\ Has(g, b, s) => f = g
    /\ \A b, s : OldHas(b, s) => IsTaken(b, s)
    /\ \A f \in linked : \A b, s : ~(OldHas(b, s) /\ Has(f, b, s))

LEMMA SpotInvDisjoint == SpotInv => ExtentsDisjoint
<1> SUFFICES ASSUME SpotInv PROVE ExtentsDisjoint
  OBVIOUS
<1>1. ASSUME NEW f \in linked, Holds(f) # {}
      PROVE  /\ bno[f] \in Sliced /\ Holds(f) \subseteq Slice \ bitmap[bno[f]]
             /\ \A g \in linked \ {f} : bno[g] = bno[f] => Holds(f) \cap Holds(g) = {}
  <2>1. \A s \in Holds(f) : Has(f, bno[f], s)
    BY DEF Has
  <2>2. \A s \in Holds(f) : IsTaken(bno[f], s)
    BY <2>1 DEF SpotInv
  <2>3. ASSUME NEW g \in linked \ {f}, bno[g] = bno[f], NEW s \in Holds(f) \cap Holds(g) PROVE FALSE
    <3>1. Has(g, bno[f], s) /\ Has(f, bno[f], s)
      BY <2>1, <2>3 DEF Has
    <3> QED
      BY <3>1 DEF SpotInv
  <2> QED
    BY <1>1, <2>2, <2>3 DEF IsTaken
<1>2. ASSUME OldExtent # {}
      PROVE  /\ req.old_bno \in Sliced /\ OldExtent \subseteq Slice \ bitmap[req.old_bno]
             /\ \A g \in linked : bno[g] = req.old_bno => OldExtent \cap Holds(g) = {}
  <2>1. \A s \in OldExtent : OldHas(req.old_bno, s)
    BY <1>2 DEF OldHas
  <2>2. \A s \in OldExtent : IsTaken(req.old_bno, s)
    BY <2>1 DEF SpotInv
  <2>3. ASSUME NEW g \in linked, bno[g] = req.old_bno, NEW s \in OldExtent \cap Holds(g) PROVE FALSE
    <3>1. Has(g, req.old_bno, s) /\ OldHas(req.old_bno, s)
      BY <2>1, <2>3 DEF Has
    <3> QED
      BY <3>1 DEF SpotInv
  <2> QED
    BY <1>2, <2>2, <2>3 DEF IsTaken
<1> QED
  BY <1>1, <1>2 DEF ExtentsDisjoint

\* Which slices are taken changes only when a write claims some and when
\* delete_slice clears some: a new sliced block starts, and a freed one ends,
\* with none.
SameTaken == \A b, s : IsTaken(b, s)' <=> IsTaken(b, s)

LEMMA TakenKept ==
    ASSUME Sliced' = Sliced, \A b \in Sliced : bitmap'[b] = bitmap[b]
    PROVE  SameTaken
BY DEF SameTaken, IsTaken

LEMMA TakenQuiet ==
    ASSUME UNCHANGED <<bfree_bitmap, other, bitmap>>
    PROVE  SameTaken
BY DEF SameTaken, IsTaken, Sliced

LEMMA TakenCall ==
    ASSUME TypeOK, BlocksInv, ~TruncHarms, Call
    PROVE  SameTaken
<1>a. bitmap \in [Block -> SUBSET Slice]
  BY DEF TypeOK, BlockTypeOK
<1>1. ASSUME NEW f \in Files, Create(f) \/ Unlink(f) \/ OpenTruncError(f) PROVE SameTaken
  BY <1>1, TakenQuiet DEF Create, Unlink, OpenTruncError, sbvars, blockvars, vars
<1>2. ASSUME NEW f \in Files, NEW ki_pos \in Offsets, NEW count \in Counts,
             WriteRefused(f, ki_pos, count)
      PROVE  SameTaken
  BY <1>2, TakenQuiet DEF WriteRefused, sbvars, blockvars, vars
<1>3. ASSUME NEW f \in Files, NEW ki_pos \in Offsets, NEW count \in Counts, NEW append \in Appends,
             \/ WriteNew(f, ki_pos, count, append)
             \/ WriteInPlace(f, ki_pos, count, append)
             \/ WriteInPlaceFault(f, ki_pos, count, append)
             \/ WriteMove(f, ki_pos, count, append)
             \/ WriteMoveLost(f, ki_pos, count, append)
      PROVE  SameTaken
  BY <1>3, TakenQuiet DEF WriteNew, WriteInPlace, WriteInPlaceFault, WriteMove, WriteMoveLost,
     sbvars, blockvars
<1>4. ASSUME NEW f \in Files, OpenTrunc(f) PROVE SameTaken
  <2>1. BitmapWord(bitmap[IndexBlock(f)]) = 0
    BY <1>4 DEF TruncHarms, Misread
  <2> QED
    BY <1>4, <2>1, TakenQuiet DEF OpenTrunc
<1>5. ASSUME NEW b \in Block, NEW c \in Contents \cup {ZeroContent}, OtherAlloc(b, c)
      PROVE  SameTaken
  <2>1. b \in bfree_bitmap /\ b \notin Sliced
    BY <1>5, FreshBlock DEF OtherAlloc
  <2>2. Sliced' = Sliced
    BY <1>5, <2>1 DEF OtherAlloc, Sliced
  <2>3. \A d \in Sliced : bitmap'[d] = bitmap[d]
    BY <1>a, <1>5, <2>1, SlicedIs DEF OtherAlloc, SetContent
  <2> QED
    BY <2>2, <2>3, TakenKept
<1>6. CASE OtherAllocFails
  <2>1. Sliced' = Sliced /\ bitmap' = bitmap
    BY <1>6, BlockNat DEF OtherAllocFails, Sliced, blockvars
  <2> QED
    BY <2>1, TakenKept
<1>7. ASSUME NEW b \in Block, OtherUnlink(b) \/ OtherTruncate(b) PROVE SameTaken
  <2>1. bfree_bitmap' = bfree_bitmap \cup {b} /\ other' = other \ {b} /\ b \in other
    BY <1>7, BlockNat DEF OtherUnlink, OtherTruncate, PutBlock, Puts
  <2>2. b \notin Sliced /\ Sliced' = Sliced
    BY <2>1 DEF Sliced
  <2>3. \A d \in Sliced : bitmap'[d] = bitmap[d]
    BY <1>a, <1>7, <2>2, SlicedIs DEF OtherUnlink, OtherTruncate, SetContent, blockvars
  <2> QED
    BY <2>2, <2>3, TakenKept
<1> QED
  BY <1>1, <1>2, <1>3, <1>4, <1>5, <1>6, <1>7 DEF Call

LEMMA TakenAlloc ==
    ASSUME TypeOK, BlocksInv, NEW b \in Block, TakeSliceBlock(b), UNCHANGED other
    PROVE  SameTaken
<1>1. bitmap \in [Block -> SUBSET Slice]
  BY DEF TypeOK, BlockTypeOK
<1>2. b \in bfree_bitmap /\ b \notin other /\ b \notin Sliced
  BY FreshBlock DEF TakeSliceBlock
<1>3. Sliced' = Sliced \cup {b}
  BY <1>2 DEF TakeSliceBlock, Sliced
<1>4. bitmap'[b] = Slice /\ \A d \in Sliced : bitmap'[d] = bitmap[d]
  BY <1>1, <1>2, SlicedIs DEF TakeSliceBlock, AllFree
<1> QED
  BY <1>2, <1>3, <1>4 DEF SameTaken, IsTaken

LEMMA TakenHandler ==
    ASSUME TypeOK, BlocksInv, ListInv,
           \/ StartAtHead \/ StartReadError \/ StartAlloc \/ StartNoSpace \/ StartInitError
           \/ ScanNext \/ ScanReadError \/ ScanAlloc \/ ScanNoSpace \/ ScanInitError
           \/ FreeNothing \/ WalkEnd \/ WalkReadError \/ WalkFree \/ WalkKeep
    PROVE  SameTaken
<1>1. CASE \/ StartAtHead \/ StartReadError \/ StartInitError \/ ScanNext \/ ScanReadError
           \/ ScanInitError \/ FreeNothing \/ WalkEnd \/ WalkReadError \/ WalkKeep
  BY <1>1, TakenQuiet DEF StartAtHead, StartReadError, StartInitError, ScanNext, ScanReadError,
     ScanInitError, FreeNothing, WalkEnd, WalkReadError, WalkKeep, sbvars, blockvars
<1>2. CASE StartAlloc \/ ScanAlloc
  BY <1>2, TakenAlloc DEF StartAlloc, ScanAlloc
<1>3. CASE StartNoSpace \/ ScanNoSpace
  <2>1. PutBlock(0) /\ UNCHANGED <<other, next, bitmap>>
    BY <1>3 DEF StartNoSpace, ScanNoSpace, PutBlockZero, blockvars
  <2>2. Sliced' = Sliced
    BY <2>1, PutZeroKeeps
  <2> QED
    BY <2>1, <2>2, TakenKept
<1>4. CASE WalkFree
  <2>1. cur \in Sliced /\ Sliced' = Sliced \ {cur}
    BY <1>4, ListWalkFree
  <2>2. bitmap \in [Block -> SUBSET Slice]
    BY DEF TypeOK, BlockTypeOK
  <2>3. bitmap[cur] = Slice /\ \A d \in Sliced : d # cur => bitmap'[d] = bitmap[d]
    BY <1>4, <2>1, <2>2, SlicedIs DEF WalkFree, AllFree
  <2> QED
    BY <2>1, <2>3 DEF SameTaken, IsTaken
<1> QED
  BY <1>1, <1>2, <1>3, <1>4

\* Who holds slices, over the files that exist.
HasL(f, b, s) == f \in linked /\ Has(f, b, s)

KeepHolders ==
    /\ \A f \in Files : \A b, s : HasL(f, b, s)' <=> HasL(f, b, s)
    /\ \A b, s : OldHas(b, s)' <=> OldHas(b, s)

\* A move begins: the slices of the file become its old slices.
MoveOut(w) ==
    /\ \A f \in Files : \A b, s : HasL(f, b, s)' <=> f # w /\ HasL(f, b, s)
    /\ \A b, s : (OldHas(b, s)' <=> HasL(w, b, s)) /\ ~OldHas(b, s)

\* A move fails: the file has its old slices back.
MoveBack(w) ==
    /\ \A f \in Files : \A b, s :
         HasL(f, b, s)' <=> HasL(f, b, s) \/ (f = w /\ w \in linked /\ OldHas(b, s))
    /\ \A b, s : ~OldHas(b, s)' /\ ~HasL(w, b, s)

\* The old slices, or the slices of one file, have no holder any more.
DropOld ==
    /\ \A f \in Files : \A b, s : HasL(f, b, s)' <=> HasL(f, b, s)
    /\ \A b, s : ~OldHas(b, s)'
DropFile(w) ==
    /\ \A f \in Files : \A b, s : HasL(f, b, s)' <=> f # w /\ HasL(f, b, s)
    /\ \A b, s : ~OldHas(b, s)' /\ ~OldHas(b, s)

LEMMA SpotSteps ==
    ASSUME TypeOK, SpotInv, \A b, s : IsTaken(b, s) => IsTaken(b, s)', linked' \subseteq Files,
           \/ KeepHolders \/ DropOld
           \/ \E w \in Files : MoveOut(w) \/ MoveBack(w) \/ DropFile(w)
    PROVE  SpotInv'
<1>a. linked \subseteq Files
  BY DEF TypeOK, InodeTypeOK
<1>b. /\ \A f \in Files : \A b, s : HasL(f, b, s) => IsTaken(b, s)
      /\ \A f, g \in Files : \A b, s : HasL(f, b, s) /\ HasL(g, b, s) => f = g
      /\ \A b, s : OldHas(b, s) => IsTaken(b, s)
      /\ \A f \in Files : \A b, s : ~(OldHas(b, s) /\ HasL(f, b, s))
  BY DEF SpotInv, HasL
<1>c. SUFFICES /\ \A f \in Files : \A b, s : HasL(f, b, s)' => IsTaken(b, s)'
               /\ \A f, g \in Files : \A b, s : HasL(f, b, s)' /\ HasL(g, b, s)' => f = g
               /\ \A b, s : OldHas(b, s)' => IsTaken(b, s)'
               /\ \A f \in Files : \A b, s : ~(OldHas(b, s)' /\ HasL(f, b, s)')
  <2>1. \A f \in linked' : f \in Files /\ \A b, s : Has(f, b, s)' => HasL(f, b, s)'
    BY DEF HasL
  <2> QED
    BY <1>c, <2>1 DEF SpotInv
<1>1. CASE KeepHolders
  BY <1>b, <1>1 DEF KeepHolders
<1>2. CASE DropOld
  BY <1>b, <1>2 DEF DropOld
<1>3. ASSUME NEW w \in Files, MoveOut(w)
      PROVE  /\ \A f \in Files : \A b, s : HasL(f, b, s)' => IsTaken(b, s)'
             /\ \A f, g \in Files : \A b, s : HasL(f, b, s)' /\ HasL(g, b, s)' => f = g
             /\ \A b, s : OldHas(b, s)' => IsTaken(b, s)'
             /\ \A f \in Files : \A b, s : ~(OldHas(b, s)' /\ HasL(f, b, s)')
  BY <1>b, <1>3 DEF MoveOut
<1>4. ASSUME NEW w \in Files, MoveBack(w)
      PROVE  /\ \A f \in Files : \A b, s : HasL(f, b, s)' => IsTaken(b, s)'
             /\ \A f, g \in Files : \A b, s : HasL(f, b, s)' /\ HasL(g, b, s)' => f = g
             /\ \A b, s : OldHas(b, s)' => IsTaken(b, s)'
             /\ \A f \in Files : \A b, s : ~(OldHas(b, s)' /\ HasL(f, b, s)')
  BY <1>b, <1>4 DEF MoveBack
<1>5. ASSUME NEW w \in Files, DropFile(w)
      PROVE  /\ \A f \in Files : \A b, s : HasL(f, b, s)' => IsTaken(b, s)'
             /\ \A f, g \in Files : \A b, s : HasL(f, b, s)' /\ HasL(g, b, s)' => f = g
             /\ \A b, s : OldHas(b, s)' => IsTaken(b, s)'
             /\ \A f \in Files : \A b, s : ~(OldHas(b, s)' /\ HasL(f, b, s)')
  BY <1>b, <1>5 DEF DropFile
<1> QED
  BY <1>1, <1>2, <1>3, <1>4, <1>5

\* No old slices outside a move.
LEMMA NoOld ==
    ASSUME pc \notin {"start", "scan", "free"} \/ ~req.move
    PROVE  \A b, s : ~OldHas(b, s)
BY DEF OldHas, OldExtent

LEMMA NoOldNext ==
    ASSUME pc' \notin {"start", "scan", "free"} \/ ~req'.move
    PROVE  \A b, s : ~OldHas(b, s)'
BY DEF OldHas, OldExtent

LEMMA HoldsOutsideWalk ==
    /\ pc # "walk" => \A f : Holds(f) = ExtentOf(f)
    /\ pc' # "walk" => \A f : Holds(f)' = ExtentOf(f)'
BY DEF Holds

LEMMA SameHas ==
    ASSUME UNCHANGED <<linked, bno, slice_no, num_slices>>, pc # "walk", pc' # "walk"
    PROVE  \A f, b, s : HasL(f, b, s)' <=> HasL(f, b, s)
BY DEF HasL, Has, Holds, ExtentOf

LEMMA ExtentNone ==
    ASSUME NEW f, bno[f] = 0 \/ (pc = "walk" /\ req.op = "unlink" /\ req.f = f)
    PROVE  \A b, s : ~HasL(f, b, s)
BY DEF HasL, Has, Holds, ExtentOf

LEMMA ExtentNoneNext ==
    ASSUME NEW f, bno'[f] = 0 \/ f \notin linked'
    PROVE  \A b, s : ~HasL(f, b, s)'
BY DEF HasL, Has, Holds, ExtentOf

\* A call takes no slices from anyone, but for the move that loses them.
LEMMA HoldersCall ==
    ASSUME TypeOK, Call
    PROVE  \/ KeepHolders
           \/ \E w \in Files : MoveOut(w) /\ pc' = "start" /\ req'.f = w
           \/ \E w \in Files, ki_pos \in Offsets, count \in Counts, append \in Appends :
                DropFile(w) /\ WriteMoveLost(w, ki_pos, count, append)
<1>a. /\ bno \in [Files -> 0..(NrBlocks - 1)] /\ slice_no \in [Files -> 0..(NrSlices - 1)]
      /\ num_slices \in [Files -> Nat] /\ linked \subseteq Files
  BY DEF TypeOK, InodeTypeOK
<1>1. ASSUME NEW f \in Files, Create(f) PROVE KeepHolders
  <2>1. /\ pc = "idle" /\ pc' = "idle" /\ f \notin linked /\ linked' = linked \cup {f}
        /\ bno' = [bno EXCEPT ![f] = 0] /\ slice_no' = [slice_no EXCEPT ![f] = 0]
        /\ num_slices' = [num_slices EXCEPT ![f] = 0]
    BY <1>1 DEF Create, callvars
  <2>2. \A b, s : ~HasL(f, b, s) /\ ~HasL(f, b, s)'
    BY <1>a, <2>1, ExtentNoneNext DEF HasL
  <2>3. ASSUME NEW g \in Files, g # f PROVE \A b, s : HasL(g, b, s)' <=> HasL(g, b, s)
    <3>1. bno'[g] = bno[g] /\ slice_no'[g] = slice_no[g] /\ num_slices'[g] = num_slices[g]
          /\ (g \in linked' <=> g \in linked)
      BY <1>a, <2>1, <2>3
    <3>2. Holds(g)' = Holds(g)
      BY <2>1, <3>1 DEF Holds, ExtentOf
    <3> QED
      BY <3>1, <3>2 DEF HasL, Has
  <2>4. \A b, s : ~OldHas(b, s) /\ ~OldHas(b, s)'
    BY <2>1, NoOld, NoOldNext
  <2> QED
    BY <2>2, <2>3, <2>4 DEF KeepHolders
<1>2. ASSUME UNCHANGED <<linked, bno, slice_no, num_slices>>, pc = "idle",
             pc' = "idle" \/ (pc' \in {"start", "free"} /\ ~req'.move)
      PROVE  KeepHolders
  BY <1>2, SameHas, NoOld, NoOldNext DEF KeepHolders
<1>3. ASSUME NEW f \in Files, Unlink(f) PROVE KeepHolders
  BY <1>2, <1>3 DEF Unlink, WriteReq, inodevars
<1>4. ASSUME NEW f \in Files, OpenTrunc(f) \/ OpenTruncError(f) PROVE KeepHolders
  BY <1>2, <1>4 DEF OpenTrunc, OpenTruncError, callvars, inodevars, vars
<1>5. ASSUME NEW f \in Files, NEW ki_pos \in Offsets, NEW count \in Counts,
             WriteRefused(f, ki_pos, count)
      PROVE  KeepHolders
  BY <1>2, <1>5 DEF WriteRefused, MayWrite, callvars, inodevars, vars
<1>6. ASSUME NEW f \in Files, NEW ki_pos \in Offsets, NEW count \in Counts, NEW append \in Appends,
             \/ WriteInPlace(f, ki_pos, count, append)
             \/ WriteInPlaceFault(f, ki_pos, count, append)
      PROVE  KeepHolders
  BY <1>2, <1>6 DEF WriteInPlace, WriteInPlaceFault, MayWrite, callvars, inodevars
<1>7. ASSUME NEW f \in Files, NEW ki_pos \in Offsets, NEW count \in Counts, NEW append \in Appends,
             WriteNew(f, ki_pos, count, append)
      PROVE  KeepHolders
  BY <1>2, <1>7 DEF WriteNew, MayWrite, WriteReq, inodevars
<1>8. CASE \/ \E b \in Block, c \in Contents \cup {ZeroContent} : OtherAlloc(b, c)
           \/ OtherAllocFails
           \/ \E b \in Block : OtherUnlink(b) \/ OtherTruncate(b)
  <2>1. KeepHolders
    BY <1>2, <1>8 DEF OtherAlloc, OtherAllocFails, OtherUnlink, OtherTruncate, callvars, inodevars
  <2> QED
    BY <2>1
<1>9. ASSUME NEW f \in Files, f \in linked, bno' = [bno EXCEPT ![f] = 0],
             slice_no' = [slice_no EXCEPT ![f] = 0], UNCHANGED <<linked, num_slices>>,
             pc = "idle", pc' # "walk"
      PROVE  \A g \in Files : \A b, s : HasL(g, b, s)' <=> g # f /\ HasL(g, b, s)
  <2>1. \A b, s : ~HasL(f, b, s)'
    BY <1>a, <1>9, ExtentNoneNext
  <2>2. ASSUME NEW g \in Files, g # f PROVE \A b, s : HasL(g, b, s)' <=> HasL(g, b, s)
    <3>1. bno'[g] = bno[g] /\ slice_no'[g] = slice_no[g] /\ num_slices'[g] = num_slices[g]
      BY <1>a, <1>9, <2>2
    <3>2. Holds(g)' = Holds(g)
      BY <1>9, <3>1 DEF Holds, ExtentOf
    <3> QED
      BY <1>9, <3>1, <3>2 DEF HasL, Has
  <2> QED
    BY <2>1, <2>2
<1>10. ASSUME NEW f \in Files, NEW ki_pos \in Offsets, NEW count \in Counts, NEW append \in Appends,
             WriteMoveLost(f, ki_pos, count, append)
      PROVE  DropFile(f)
  <2>1. /\ f \in linked /\ bno' = [bno EXCEPT ![f] = 0] /\ slice_no' = [slice_no EXCEPT ![f] = 0]
        /\ UNCHANGED <<linked, num_slices>> /\ pc = "idle" /\ pc' = "idle"
    BY <1>10 DEF WriteMoveLost, MayWrite, callvars
  <2>2. \A b, s : ~OldHas(b, s) /\ ~OldHas(b, s)'
    BY <2>1, NoOld, NoOldNext
  <2> QED
    BY <1>9, <2>1, <2>2 DEF DropFile
<1>11. ASSUME NEW f \in Files, NEW ki_pos \in Offsets, NEW count \in Counts, NEW append \in Appends,
             WriteMove(f, ki_pos, count, append)
      PROVE  MoveOut(f) /\ pc' = "start" /\ req'.f = f
  <2>1. /\ f \in linked /\ bno' = [bno EXCEPT ![f] = 0] /\ slice_no' = [slice_no EXCEPT ![f] = 0]
        /\ UNCHANGED <<linked, num_slices>> /\ pc = "idle" /\ pc' = "start"
        /\ bno[f] # 0 /\ num_slices[f] # 0
    BY <1>11 DEF WriteMove, MayWrite
  <2>2. \E size, user, tags : req' = WriteReq(f, size, 0, size, user, tags, TRUE)
    BY <1>11, Zenon DEF WriteMove
  <2>3. /\ req'.f = f /\ req'.move /\ req'.old_bno = bno[f] /\ req'.old_slice_no = slice_no[f]
        /\ req'.old_num_slices = num_slices[f]
    BY <2>2 DEF WriteReq
  <2>4. \A b, s : ~OldHas(b, s)
    BY <2>1, NoOld
  <2>5. OldExtent' = ExtentOf(f) /\ Holds(f) = ExtentOf(f)
    BY <2>1, <2>3 DEF OldExtent, ExtentOf, Holds
  <2>6. \A b, s : OldHas(b, s)' <=> HasL(f, b, s)
    BY <2>1, <2>3, <2>5 DEF OldHas, HasL, Has
  <2>7. \A g \in Files : \A b, s : HasL(g, b, s)' <=> g # f /\ HasL(g, b, s)
    BY <1>9, <2>1
  <2> QED
    BY <2>1, <2>3, <2>4, <2>6, <2>7 DEF MoveOut
<1> QED
  BY <1>1, <1>3, <1>4, <1>5, <1>6, <1>7, <1>8, <1>10, <1>11 DEF Call

\* A failed write gives a moved file its old slices back.
LEMMA HoldersFail ==
    ASSUME TypeOK, CallInv, pc \in {"start", "scan"}, FailWrite, UNCHANGED <<linked, num_slices>>
    PROVE  req.f \in Files /\ MoveBack(req.f)
<1>a. /\ bno \in [Files -> 0..(NrBlocks - 1)] /\ slice_no \in [Files -> 0..(NrSlices - 1)]
      /\ num_slices \in [Files -> Nat] /\ linked \subseteq Files
  BY DEF TypeOK, InodeTypeOK
<1>b. req.f \in Files /\ req.f \in linked /\ pc' = "idle"
  BY <1>a DEF CallInv, FailWrite, Return
<1>c. PICK w \in Files : w = req.f
  BY <1>b
<1>d. bno[w] = 0 /\ (req.move => num_slices[w] = req.old_num_slices)
  BY <1>c DEF CallInv, WriteLocals
<1>1. \A b, s : ~OldHas(b, s)' /\ ~HasL(w, b, s)
  BY <1>b, <1>d, NoOldNext, ExtentNone
<1>2. CASE req.move
  <2>1. /\ bno' = [bno EXCEPT ![w] = req.old_bno] /\ slice_no' = [slice_no EXCEPT ![w] = req.old_slice_no]
        /\ req.old_bno # 0
    BY <1>2, <1>c DEF FailWrite, CallInv
  <2>2. ASSUME NEW g \in Files, g # w PROVE \A b, s : HasL(g, b, s)' <=> HasL(g, b, s)
    <3>1. bno'[g] = bno[g] /\ slice_no'[g] = slice_no[g] /\ num_slices'[g] = num_slices[g]
      BY <1>a, <2>1, <2>2
    <3>2. Holds(g)' = Holds(g)
      BY <1>b, <3>1 DEF Holds, ExtentOf
    <3> QED
      BY <3>1, <3>2 DEF HasL, Has
  <2>3. bno'[w] = req.old_bno /\ slice_no'[w] = req.old_slice_no /\ num_slices'[w] = req.old_num_slices
    BY <1>a, <1>d, <1>2, <2>1
  <2>4. Holds(w)' = OldExtent
    BY <1>b, <1>2, <2>1, <2>3 DEF Holds, ExtentOf, OldExtent
  <2>5. \A b, s : HasL(w, b, s)' <=> OldHas(b, s)
    BY <1>b, <1>c, <2>3, <2>4 DEF HasL, Has, OldHas
  <2>6. MoveBack(w)
    BY <1>1, <1>b, <1>c, <2>2, <2>5 DEF MoveBack
  <2> QED
    BY <1>b, <1>c, <2>6
<1>3. CASE ~req.move
  <2>1. UNCHANGED <<bno, slice_no>>
    BY <1>3 DEF FailWrite
  <2>2. \A f, b, s : HasL(f, b, s)' <=> HasL(f, b, s)
    BY <1>b, <2>1, SameHas
  <2>3. \A b, s : ~OldHas(b, s)
    BY <1>3, NoOld
  <2>4. MoveBack(w)
    BY <1>1, <2>2, <2>3 DEF MoveBack
  <2> QED
    BY <1>b, <1>c, <2>4
<1> QED
  BY <1>2, <1>3

LEMMA HoldersHandler ==
    ASSUME TypeOK, CallInv
    PROVE  /\ StartAtHead \/ StartAlloc \/ ScanNext \/ ScanAlloc \/ WalkFree \/ WalkKeep
                \/ WalkEnd \/ WalkReadError
                => KeepHolders
           /\ StartReadError \/ ScanReadError \/ ScanNoSpace \/ ScanInitError
                => req.f \in Files /\ MoveBack(req.f)
           /\ StartNoSpace \/ StartInitError => DropOld
           /\ FreeNothing => IF req.op = "unlink" THEN req.f \in Files /\ DropFile(req.f) ELSE DropOld
<1>a. /\ bno \in [Files -> 0..(NrBlocks - 1)] /\ slice_no \in [Files -> 0..(NrSlices - 1)]
      /\ num_slices \in [Files -> Nat] /\ linked \subseteq Files
  BY DEF TypeOK, InodeTypeOK
<1>1. ASSUME StartAtHead \/ StartAlloc \/ ScanNext \/ ScanAlloc PROVE KeepHolders
  <2>1. /\ UNCHANGED <<linked, bno, slice_no, num_slices, req>>
        /\ pc \in {"start", "scan"} /\ pc' = "scan"
    BY <1>1 DEF StartAtHead, StartAlloc, ScanNext, ScanAlloc, NoRoom, inodevars
  <2>2. OldExtent' = OldExtent
    BY <2>1 DEF OldExtent
  <2> QED
    BY <2>1, <2>2, SameHas DEF KeepHolders, OldHas
<1>2. ASSUME WalkFree \/ WalkKeep PROVE KeepHolders
  <2>1. UNCHANGED <<linked, bno, slice_no, num_slices, req, pc>> /\ pc = "walk"
    BY <1>2 DEF WalkFree, WalkKeep, inodevars
  <2>2. \A f : Holds(f)' = Holds(f)
    BY <2>1 DEF Holds, ExtentOf
  <2>3. OldExtent' = OldExtent
    BY <2>1 DEF OldExtent
  <2> QED
    BY <2>1, <2>2, <2>3 DEF KeepHolders, OldHas, HasL, Has
<1>3. ASSUME DeleteReturns, req.op = "unlink", pc \in {"free", "walk"}
      PROVE  /\ req.f \in Files
             /\ \A f \in Files : \A b, s : HasL(f, b, s)' <=> f # req.f /\ HasL(f, b, s)
  <2>1. PICK w \in Files : w = req.f
    BY <1>3, <1>a DEF CallInv
  <2>2. /\ linked' = linked \ {w} /\ bno' = [bno EXCEPT ![w] = 0]
        /\ slice_no' = [slice_no EXCEPT ![w] = 0] /\ UNCHANGED num_slices /\ pc' = "idle"
    BY <1>3, <2>1 DEF DeleteReturns, Return
  <2>3. \A b, s : ~HasL(w, b, s)'
    BY <2>2, ExtentNoneNext
  <2>4. ASSUME NEW g \in Files, g # w PROVE \A b, s : HasL(g, b, s)' <=> HasL(g, b, s)
    <3>1. bno'[g] = bno[g] /\ slice_no'[g] = slice_no[g] /\ num_slices'[g] = num_slices[g]
          /\ (g \in linked' <=> g \in linked)
      BY <1>a, <2>2, <2>4
    <3>2. Holds(g)' = Holds(g)
      BY <2>1, <2>2, <2>4, <3>1 DEF Holds, ExtentOf
    <3> QED
      BY <3>1, <3>2 DEF HasL, Has
  <2> QED
    BY <2>1, <2>3, <2>4
<1>4. ASSUME DeleteReturns, req.op # "unlink", pc \in {"free", "walk"}
      PROVE  \A f, b, s : HasL(f, b, s)' <=> HasL(f, b, s)
  <2>1. UNCHANGED <<linked, bno, slice_no, num_slices>> /\ pc' = "idle"
    BY <1>4 DEF DeleteReturns, Return
  <2>2. \A f : Holds(f)' = Holds(f)
    BY <1>4, <2>1 DEF Holds, ExtentOf
  <2> QED
    BY <2>1, <2>2 DEF HasL, Has
<1>5. ASSUME WalkEnd \/ WalkReadError PROVE KeepHolders
  <2>1. DeleteReturns /\ pc = "walk" /\ pc' = "idle"
    BY <1>5 DEF WalkEnd, WalkReadError, DeleteReturns, Return
  <2>2. \A b, s : ~OldHas(b, s) /\ ~OldHas(b, s)'
    BY <2>1, NoOld, NoOldNext
  <2>3. CASE req.op = "unlink"
    <3>1. \A b, s : ~HasL(req.f, b, s)
      BY <2>1, <2>3, ExtentNone
    <3> QED
      BY <1>3, <2>1, <2>2, <2>3, <3>1 DEF KeepHolders
  <2>4. CASE req.op # "unlink"
    BY <1>4, <2>1, <2>2, <2>4 DEF KeepHolders
  <2> QED
    BY <2>3, <2>4
<1>6. ASSUME StartReadError \/ ScanReadError \/ ScanNoSpace \/ ScanInitError
      PROVE  req.f \in Files /\ MoveBack(req.f)
  <2>1. pc \in {"start", "scan"} /\ FailWrite /\ UNCHANGED <<linked, num_slices>>
    BY <1>6 DEF StartReadError, ScanReadError, ScanNoSpace, ScanInitError, NoRoom
  <2> QED
    BY <2>1, HoldersFail
<1>7. ASSUME StartNoSpace \/ StartInitError PROVE DropOld
  <2>1. UNCHANGED <<linked, bno, slice_no, num_slices>> /\ pc = "start" /\ pc' = "idle"
    BY <1>7 DEF StartNoSpace, StartInitError, Oops, Return, inodevars
  <2> QED
    BY <2>1, SameHas, NoOldNext DEF DropOld
<1>8. ASSUME FreeNothing
      PROVE IF req.op = "unlink" THEN req.f \in Files /\ DropFile(req.f) ELSE DropOld
  <2>1. DeleteReturns /\ pc = "free" /\ pc' = "idle"
    BY <1>8 DEF FreeNothing, DeleteReturns, Return
  <2>2. \A b, s : ~OldHas(b, s)'
    BY <2>1, NoOldNext
  <2>3. CASE req.op = "unlink"
    <3>1. \A b, s : ~OldHas(b, s)
      BY <2>1, <2>3, NoOld DEF CallInv, UnlinkLocals
    <3> QED
      BY <1>3, <2>1, <2>2, <2>3, <3>1 DEF DropFile
  <2>4. CASE req.op # "unlink"
    BY <1>4, <2>1, <2>2, <2>4 DEF DropOld
  <2> QED
    BY <2>3, <2>4
<1> QED
  BY <1>1, <1>2, <1>5, <1>6, <1>7, <1>8

-----------------------------------------------------------------------------
(* Claiming and freeing slices *)

\* File w is given the slices N of block c, which nobody had.
Claims(w, c, N) ==
    /\ w \in linked /\ \A s \in N : c \in Sliced /\ s \in Slice /\ ~IsTaken(c, s)
    /\ \A b, s : ~HasL(w, b, s)
    /\ \A f \in Files : \A b, s : HasL(f, b, s)' <=> HasL(f, b, s) \/ (f = w /\ b = c /\ s \in N)
    /\ \A b, s : OldHas(b, s)' <=> OldHas(b, s)
    /\ \A b, s : IsTaken(b, s)' <=> IsTaken(b, s) \/ (b = c /\ s \in N)

NewSlices(i) == i..(i + NumSlices(req.size) - 1)

LEMMA NewSlicesFree ==
    ASSUME TypeOK, NEW i \in Slice, FoundAt(i)
    PROVE  /\ NewSlices(i) \subseteq bitmap[cur] /\ NewSlices(i) \subseteq Slice
           /\ NumSlices(req.size) \in Nat /\ req.size \in Nat /\ req.f \in Files
<1>1. req \in Req
  BY DEF FoundAt, TypeOK, CallTypeOK
<1>2. req.size \in Nat /\ req.f \in Files
  BY <1>1 DEF Req
<1>3. NewSlices(i) \subseteq bitmap[cur]
  BY DEF FoundAt, IsSlot, Fits, NewSlices
<1>4. bitmap \in [Block -> SUBSET Slice] /\ cur \in Block
  BY DEF TypeOK, BlockTypeOK, FoundAt, CallTypeOK
<1> QED
  BY <1>2, <1>3, <1>4, NumSlicesNat

LEMMA TakenClaim ==
    ASSUME TypeOK, ListInv, NEW i \in Slice, FoundAt(i), ClaimSlices(i), UNCHANGED <<bfree_bitmap, other>>
    PROVE  /\ cur \in Sliced /\ \A s \in NewSlices(i) : s \in Slice /\ ~IsTaken(cur, s)
           /\ \A b, s : IsTaken(b, s)' <=> IsTaken(b, s) \/ (b = cur /\ s \in NewSlices(i))
<1>1. cur \in Sliced /\ cur \in Block
  BY ScanSees DEF FoundAt
<1>2. bitmap \in [Block -> SUBSET Slice]
  BY DEF TypeOK, BlockTypeOK
<1>3. NewSlices(i) \subseteq bitmap[cur] /\ NewSlices(i) \subseteq Slice
  BY NewSlicesFree
<1>4. bitmap' = [bitmap EXCEPT ![cur] = bitmap[cur] \ NewSlices(i)]
  BY DEF ClaimSlices, NewSlices
<1>5. bitmap'[cur] = bitmap[cur] \ NewSlices(i) /\ \A b \in Sliced : b # cur => bitmap'[b] = bitmap[b]
  BY <1>1, <1>2, <1>4, SlicedIs
<1>6. Sliced' = Sliced
  BY DEF Sliced
<1> QED
  BY <1>1, <1>3, <1>5, <1>6 DEF IsTaken

LEMMA HoldersHit ==
    ASSUME TypeOK, CallInv, ListInv, NEW i \in Slice, ScanHit(i)
    PROVE  req.f \in Files /\ Claims(req.f, cur, NewSlices(i))
<1>a. /\ bno \in [Files -> 0..(NrBlocks - 1)] /\ slice_no \in [Files -> 0..(NrSlices - 1)]
      /\ num_slices \in [Files -> Nat] /\ linked \subseteq Files
  BY DEF TypeOK, InodeTypeOK
<1>b. pc = "scan" /\ FoundAt(i) /\ ClaimSlices(i) /\ UNCHANGED <<bfree_bitmap, other, linked>>
  BY DEF ScanHit, FoundAt
<1>c. PICK w \in Files : w = req.f /\ w \in linked /\ bno[w] = 0
  BY <1>a, <1>b DEF CallInv, WriteLocals
<1> DEFINE N == NewSlices(i)
<1>1. /\ cur \in Sliced /\ \A s \in N : s \in Slice /\ ~IsTaken(cur, s)
      /\ \A b, s : IsTaken(b, s)' <=> IsTaken(b, s) \/ (b = cur /\ s \in N)
  BY <1>b, TakenClaim
<1>2. /\ bno' = [bno EXCEPT ![w] = cur] /\ slice_no' = [slice_no EXCEPT ![w] = i]
      /\ num_slices' = [num_slices EXCEPT ![w] = NumSlices(req.size)]
      /\ pc' \in {"idle", "free"} /\ (req.move => pc' = "free" /\ req' = req)
      /\ (~req.move => pc' = "idle")
  BY <1>c DEF ScanHit, ClaimSlices, Return
<1>3. \A b, s : ~HasL(w, b, s)
  BY <1>c, ExtentNone
<1>4. \A b, s : HasL(w, b, s)' <=> b = cur /\ s \in N
  <2>1. bno'[w] = cur /\ slice_no'[w] = i /\ num_slices'[w] = NumSlices(req.size) /\ cur # 0
    BY <1>a, <1>1, <1>2, SlicedIs, BlockNat
  <2>2. Holds(w)' = N
    BY <1>2, <2>1 DEF Holds, ExtentOf, NewSlices
  <2> QED
    BY <1>b, <1>c, <2>1, <2>2 DEF HasL, Has
<1>5. ASSUME NEW g \in Files, g # w PROVE \A b, s : HasL(g, b, s)' <=> HasL(g, b, s)
  <2>1. bno'[g] = bno[g] /\ slice_no'[g] = slice_no[g] /\ num_slices'[g] = num_slices[g]
    BY <1>a, <1>2, <1>5
  <2>2. Holds(g)' = Holds(g)
    BY <1>b, <1>2, <2>1 DEF Holds, ExtentOf
  <2> QED
    BY <1>b, <2>1, <2>2 DEF HasL, Has
<1>6. \A b, s : OldHas(b, s)' <=> OldHas(b, s)
  <2>1. CASE req.move
    BY <1>b, <1>2, <2>1 DEF OldHas, OldExtent
  <2>2. CASE ~req.move
    BY <1>2, <2>2, NoOld, NoOldNext
  <2> QED
    BY <2>1, <2>2
<1>7. \A f \in Files : \A b, s : HasL(f, b, s)' <=> HasL(f, b, s) \/ (f = w /\ b = cur /\ s \in N)
  BY <1>3, <1>4, <1>5
<1> HIDE DEF N
<1>8. Claims(w, cur, N)
  BY <1>1, <1>3, <1>6, <1>7, <1>c DEF Claims
<1> QED
  BY <1>8, <1>c DEF N

\* A copy from user space faults in the middle of a move: num_slices is the
\* new number, index_block the old one.
MoveFaults == \E i \in Slice : ScanFault(i) /\ req.move

LEMMA HoldersFault ==
    ASSUME TypeOK, CallInv, ListInv, NEW i \in Slice, ScanFault(i), ~req.move
    PROVE  KeepHolders /\ \A b, s : IsTaken(b, s) => IsTaken(b, s)'
<1>a. /\ bno \in [Files -> 0..(NrBlocks - 1)] /\ slice_no \in [Files -> 0..(NrSlices - 1)]
      /\ num_slices \in [Files -> Nat] /\ linked \subseteq Files
  BY DEF TypeOK, InodeTypeOK
<1>b. pc = "scan" /\ FoundAt(i) /\ ClaimSlices(i) /\ FailWrite /\ UNCHANGED <<bfree_bitmap, other, linked>>
  BY DEF ScanFault, FoundAt, sbvars
<1>c. PICK w \in Files : w = req.f /\ w \in linked /\ bno[w] = 0
  BY <1>a, <1>b DEF CallInv, WriteLocals
<1>1. \A b, s : IsTaken(b, s) => IsTaken(b, s)'
  BY <1>b, TakenClaim
<1>2. /\ UNCHANGED <<bno, slice_no>> /\ pc' = "idle"
      /\ num_slices' = [num_slices EXCEPT ![w] = NumSlices(req.size)]
  BY <1>b, <1>c DEF FailWrite, Return, ClaimSlices
<1>3. \A b, s : ~HasL(w, b, s) /\ ~HasL(w, b, s)'
  BY <1>2, <1>c, ExtentNone, ExtentNoneNext
<1>4. ASSUME NEW g \in Files, g # w PROVE \A b, s : HasL(g, b, s)' <=> HasL(g, b, s)
  <2>1. bno'[g] = bno[g] /\ slice_no'[g] = slice_no[g] /\ num_slices'[g] = num_slices[g]
    BY <1>a, <1>2, <1>4
  <2>2. Holds(g)' = Holds(g)
    BY <1>b, <1>2, <2>1 DEF Holds, ExtentOf
  <2> QED
    BY <1>b, <2>1, <2>2 DEF HasL, Has
<1>5. \A b, s : ~OldHas(b, s) /\ ~OldHas(b, s)'
  BY <1>2, NoOld, NoOldNext
<1> QED
  BY <1>1, <1>3, <1>4, <1>5 DEF KeepHolders

LEMMA NoBytesNoSlices == NumSlices(0) = 0
<1>1. SliceSize \in Nat \ {0}
  BY GeometryAssumption
<1> DEFINE q == (SliceSize - 1) \div SliceSize
<1>2. q \in Nat /\ SliceSize * q <= SliceSize - 1
  BY <1>1
<1>3. q = 0
  <2>1. SUFFICES ASSUME q >= 1 PROVE FALSE
    BY <1>2
  <2> HIDE DEF q
  <2>2. SliceSize * q >= SliceSize
    BY <1>1, <1>2, <2>1
  <2> QED
    BY <1>1, <1>2, <2>2
<1> QED
  BY <1>1, <1>3 DEF NumSlices

LEMMA HoldersNothing ==
    ASSUME TypeOK, CallInv, ListInv, NEW i \in Slice, ScanHitNothing(i)
    PROVE  DropOld /\ SameTaken
<1>a. /\ bno \in [Files -> 0..(NrBlocks - 1)] /\ slice_no \in [Files -> 0..(NrSlices - 1)]
      /\ num_slices \in [Files -> Nat] /\ linked \subseteq Files
  BY DEF TypeOK, InodeTypeOK
<1>b. /\ pc = "scan" /\ FoundAt(i) /\ ClaimSlices(i) /\ FailWrite /\ UNCHANGED <<bfree_bitmap, other, linked>>
      /\ req.move /\ req.count = 0
  BY DEF ScanHitNothing, FoundAt
<1>c. PICK w \in Files : w = req.f /\ w \in linked /\ bno[w] = 0
  BY <1>a, <1>b DEF CallInv, WriteLocals
<1>1. req.size = 0 /\ NumSlices(req.size) = 0 /\ i \in Int
  BY <1>b, NoBytesNoSlices, GeometryAssumption DEF CallInv, Slice
<1>2. \A s : s \notin NewSlices(i)
  BY <1>1 DEF NewSlices
<1>3. SameTaken
  BY <1>b, <1>2, TakenClaim DEF SameTaken
<1>4. /\ bno' = [bno EXCEPT ![w] = req.old_bno] /\ slice_no' = [slice_no EXCEPT ![w] = req.old_slice_no]
      /\ num_slices' = [num_slices EXCEPT ![w] = 0] /\ pc' = "idle"
  BY <1>b, <1>c, <1>1 DEF FailWrite, Return, ClaimSlices
<1>5. \A b, s : ~HasL(w, b, s)
  BY <1>c, ExtentNone
<1>6. \A b, s : ~HasL(w, b, s)'
  <2>1. num_slices'[w] = 0 /\ slice_no'[w] \in Int
    <3>1. req.old_slice_no \in 0..(NrSlices - 1)
      BY <1>b DEF TypeOK, CallTypeOK, Req
    <3> QED
      BY <1>a, <1>4, <3>1
  <2>2. Holds(w)' = {}
    BY <1>4, <2>1 DEF Holds, ExtentOf
  <2> QED
    BY <2>2 DEF HasL, Has
<1>7. ASSUME NEW g \in Files, g # w PROVE \A b, s : HasL(g, b, s)' <=> HasL(g, b, s)
  <2>1. bno'[g] = bno[g] /\ slice_no'[g] = slice_no[g] /\ num_slices'[g] = num_slices[g]
    BY <1>a, <1>4, <1>7
  <2>2. Holds(g)' = Holds(g)
    BY <1>b, <1>4, <2>1 DEF Holds, ExtentOf
  <2> QED
    BY <1>b, <2>1, <2>2 DEF HasL, Has
<1>8. \A b, s : ~OldHas(b, s)'
  BY <1>4, NoOldNext
<1> QED
  BY <1>3, <1>5, <1>6, <1>7, <1>8 DEF DropOld

\* delete_slice clears the old slices of a moved file, or those of a file that
\* is being unlinked, and no others.
FreesOld ==
    /\ DropOld
    /\ \A b, s : IsTaken(b, s)' <=> IsTaken(b, s) /\ ~OldHas(b, s)
FreesFile(w) ==
    /\ DropFile(w)
    /\ \A b, s : IsTaken(b, s)' <=> IsTaken(b, s) /\ ~HasL(w, b, s)

LEMMA HoldersFree ==
    ASSUME TypeOK, CallInv, SpotInv, FreeSlices
    PROVE  /\ req.op = "unlink" => req.f \in Files /\ FreesFile(req.f)
           /\ req.op # "unlink" => FreesOld
           /\ req.old_bno \in Block /\ OldSlices = req.old_slice_no..(req.old_slice_no + req.old_num_slices - 1)
<1>a. /\ bno \in [Files -> 0..(NrBlocks - 1)] /\ slice_no \in [Files -> 0..(NrSlices - 1)]
      /\ num_slices \in [Files -> Nat] /\ linked \subseteq Files
      /\ bitmap \in [Block -> SUBSET Slice]
  BY DEF TypeOK, InodeTypeOK, BlockTypeOK
<1>b. /\ pc = "free" /\ pc' = "walk" /\ req' = req
      /\ UNCHANGED <<linked, bno, slice_no, num_slices, bfree_bitmap, other>>
      /\ req.old_bno # 0 /\ req.old_num_slices # 0
      /\ bitmap' = [bitmap EXCEPT ![req.old_bno] = bitmap[req.old_bno] \cup OldSlices]
  BY DEF FreeSlices, inodevars
<1>c. PICK w \in Files : w = req.f /\ w \in linked
  BY <1>a, <1>b DEF CallInv
<1>d. req.old_bno \in Block /\ req.op \in {"write", "unlink"}
  <2>1. req \in Req
    BY <1>b DEF TypeOK, CallTypeOK
  <2>2. req.old_bno \in 0..(NrBlocks - 1) /\ req.op \in {"write", "unlink"}
    BY <2>1 DEF Req
  <2> QED
    BY <1>b, <2>2, BlockNat
<1> DEFINE c == req.old_bno
           R == req.old_slice_no..(req.old_slice_no + req.old_num_slices - 1)
<1>1. Sliced' = Sliced
  BY <1>b DEF Sliced
<1>2. \A b, s : ~OldHas(b, s)'
  BY <1>b, NoOldNext
<1>3. CASE req.op = "unlink"
  <2>1. ~req.move /\ c = bno[w] /\ R = ExtentOf(w)
    BY <1>b, <1>c, <1>3 DEF CallInv, UnlinkLocals, ExtentOf
  <2>2. \A b, s : HasL(w, b, s) <=> b = c /\ s \in R
    BY <1>b, <1>c, <2>1 DEF HasL, Has, Holds
  <2>3. \A s \in R : IsTaken(c, s)
    BY <1>c, <2>2 DEF SpotInv, HasL
  <2>4. R \subseteq Slice
    BY <2>3 DEF IsTaken
  <2>5. OldSlices = R
    BY <2>4 DEF OldSlices
  <2>6. bitmap'[c] = bitmap[c] \cup R /\ \A b \in Block : b # c => bitmap'[b] = bitmap[b]
    BY <1>a, <1>b, <1>d, <2>5
  <2>7. \A b, s : IsTaken(b, s)' <=> IsTaken(b, s) /\ ~HasL(w, b, s)
    BY <1>1, <2>2, <2>6, SlicedIs DEF IsTaken
  <2>8. \A b, s : ~HasL(w, b, s)'
    BY <1>b, <1>c, <1>3 DEF HasL, Has, Holds
  <2>9. \A g \in Files : g # w => \A b, s : HasL(g, b, s)' <=> HasL(g, b, s)
    <3>1. \A g \in Files : g # w => Holds(g)' = Holds(g)
      BY <1>b, <1>c DEF Holds, ExtentOf
    <3> QED
      BY <1>b, <3>1 DEF HasL, Has
  <2>10. \A b, s : ~OldHas(b, s)
    BY <2>1, NoOld
  <2>11. FreesFile(w)
    BY <1>2, <2>7, <2>8, <2>9, <2>10 DEF FreesFile, DropFile
  <2> QED
    BY <1>3, <1>c, <1>d, <2>5, <2>11
<1>4. CASE req.op # "unlink"
  <2>1. req.move
    BY <1>b, <1>d, <1>4 DEF CallInv
  <2>2. \A b, s : OldHas(b, s) <=> b = c /\ s \in R
    BY <1>b, <2>1 DEF OldHas, OldExtent
  <2>3. \A s \in R : IsTaken(c, s)
    BY <2>2 DEF SpotInv
  <2>4. R \subseteq Slice
    BY <2>3 DEF IsTaken
  <2>5. OldSlices = R
    BY <2>4 DEF OldSlices
  <2>6. bitmap'[c] = bitmap[c] \cup R /\ \A b \in Block : b # c => bitmap'[b] = bitmap[b]
    BY <1>a, <1>b, <1>d, <2>5
  <2>7. \A b, s : IsTaken(b, s)' <=> IsTaken(b, s) /\ ~OldHas(b, s)
    BY <1>1, <2>2, <2>6, SlicedIs DEF IsTaken
  <2>8. \A f, b, s : HasL(f, b, s)' <=> HasL(f, b, s)
    <3>1. \A f : Holds(f)' = Holds(f)
      BY <1>b, <1>4 DEF Holds, ExtentOf
    <3> QED
      BY <1>b, <3>1 DEF HasL, Has
  <2>9. FreesOld
    BY <1>2, <2>7, <2>8 DEF FreesOld, DropOld
  <2> QED
    BY <1>4, <1>d, <2>5, <2>9
<1> QED
  BY <1>3, <1>4

LEMMA SpotClaim ==
    ASSUME TypeOK, SpotInv, NEW w \in Files, NEW c, NEW N, Claims(w, c, N), linked' \subseteq Files
    PROVE  SpotInv'
<1>a. /\ \A f \in Files : \A b, s : HasL(f, b, s) => IsTaken(b, s)
      /\ \A f, g \in Files : \A b, s : HasL(f, b, s) /\ HasL(g, b, s) => f = g
      /\ \A b, s : OldHas(b, s) => IsTaken(b, s)
      /\ \A f \in Files : \A b, s : ~(OldHas(b, s) /\ HasL(f, b, s))
  BY DEF SpotInv, HasL
<1>b. \A f \in linked' : f \in Files /\ \A b, s : Has(f, b, s)' => HasL(f, b, s)'
  BY DEF HasL
<1>1. \A f \in Files : \A b, s : HasL(f, b, s)' => IsTaken(b, s)'
  BY <1>a DEF Claims
<1>2. \A f, g \in Files : \A b, s : HasL(f, b, s)' /\ HasL(g, b, s)' => f = g
  BY <1>a DEF Claims
<1>3. \A b, s : OldHas(b, s)' => IsTaken(b, s)'
  BY <1>a DEF Claims
<1>4. \A f \in Files : \A b, s : ~(OldHas(b, s)' /\ HasL(f, b, s)')
  BY <1>a DEF Claims
<1> QED
  BY <1>b, <1>1, <1>2, <1>3, <1>4 DEF SpotInv

LEMMA SpotFree ==
    ASSUME TypeOK, SpotInv, linked' \subseteq Files,
           FreesOld \/ \E w \in Files : FreesFile(w)
    PROVE  SpotInv'
<1>a. /\ \A f \in Files : \A b, s : HasL(f, b, s) => IsTaken(b, s)
      /\ \A f, g \in Files : \A b, s : HasL(f, b, s) /\ HasL(g, b, s) => f = g
      /\ \A f \in Files : \A b, s : ~(OldHas(b, s) /\ HasL(f, b, s))
  BY DEF SpotInv, HasL
<1>b. \A f \in linked' : f \in Files /\ \A b, s : Has(f, b, s)' => HasL(f, b, s)'
  BY DEF HasL
<1>1. /\ \A f \in Files : \A b, s : HasL(f, b, s)' => IsTaken(b, s)'
      /\ \A f, g \in Files : \A b, s : HasL(f, b, s)' /\ HasL(g, b, s)' => f = g
      /\ \A b, s : ~OldHas(b, s)'
  <2>1. CASE FreesOld
    BY <1>a, <2>1 DEF FreesOld, DropOld
  <2>2. ASSUME NEW w \in Files, FreesFile(w)
        PROVE  /\ \A f \in Files : \A b, s : HasL(f, b, s)' => IsTaken(b, s)'
               /\ \A f, g \in Files : \A b, s : HasL(f, b, s)' /\ HasL(g, b, s)' => f = g
               /\ \A b, s : ~OldHas(b, s)'
    BY <1>a, <2>2 DEF FreesFile, DropFile
  <2> QED
    BY <2>1, <2>2
<1> QED
  BY <1>b, <1>1 DEF SpotInv

LEMMA SpotInvInit == Init => SpotInv
<1> SUFFICES ASSUME Init PROVE SpotInv
  OBVIOUS
<1>1. linked = {} /\ pc = "idle"
  BY DEF Init
<1>2. \A b, s : ~OldHas(b, s)
  BY <1>1, NoOld
<1> QED
  BY <1>1, <1>2 DEF SpotInv

LEMMA SpotInvNext ==
    ASSUME TypeOK, TypeOK', BlocksInv, ListInv, CallInv, SpotInv, Next, ~TruncHarms, ~MoveFaults
    PROVE  SpotInv'
<1>a. linked' \subseteq Files
  BY DEF TypeOK, InodeTypeOK
<1>b. ASSUME SameTaken PROVE \A b, s : IsTaken(b, s) => IsTaken(b, s)'
  BY <1>b DEF SameTaken
<1>1. CASE Call
  <2>1. \A b, s : IsTaken(b, s) => IsTaken(b, s)'
    BY <1>1, <1>b, TakenCall
  <2>2. \/ KeepHolders \/ \E w \in Files : MoveOut(w) \/ DropFile(w)
    BY <1>1, HoldersCall
  <2> QED
    BY <1>a, <2>1, <2>2, SpotSteps
<1>2. CASE \/ StartAtHead \/ StartReadError \/ StartAlloc \/ StartNoSpace \/ StartInitError
           \/ ScanNext \/ ScanReadError \/ ScanAlloc \/ ScanNoSpace \/ ScanInitError
           \/ FreeNothing \/ WalkEnd \/ WalkReadError \/ WalkFree \/ WalkKeep
  <2>1. \A b, s : IsTaken(b, s) => IsTaken(b, s)'
    BY <1>2, <1>b, TakenHandler
  <2>2. \/ KeepHolders \/ DropOld \/ \E w \in Files : MoveBack(w) \/ DropFile(w)
    BY <1>2, HoldersHandler
  <2> QED
    BY <1>a, <2>1, <2>2, SpotSteps
<1>3. ASSUME NEW i \in Slice, ScanHit(i) PROVE SpotInv'
  BY <1>3, <1>a, HoldersHit, SpotClaim
<1>4. ASSUME NEW i \in Slice, ScanHitNothing(i) PROVE SpotInv'
  <2>1. DropOld /\ \A b, s : IsTaken(b, s) => IsTaken(b, s)'
    BY <1>4, <1>b, HoldersNothing
  <2> QED
    BY <1>a, <2>1, SpotSteps
<1>5. ASSUME NEW i \in Slice, ScanFault(i) PROVE SpotInv'
  <2>1. ~req.move
    BY <1>5 DEF MoveFaults
  <2>2. KeepHolders /\ \A b, s : IsTaken(b, s) => IsTaken(b, s)'
    BY <1>5, <2>1, HoldersFault
  <2> QED
    BY <1>a, <2>2, SpotSteps
<1>6. CASE FreeSlices
  <2>1. FreesOld \/ \E w \in Files : FreesFile(w)
    BY <1>6, HoldersFree
  <2> QED
    BY <1>a, <2>1, SpotFree
<1> QED
  BY <1>1, <1>2, <1>3, <1>4, <1>5, <1>6 DEF Next, HandlerStep

LEMMA SpotStutter ==
    ASSUME TypeOK, CallInv, SpotInv, UNCHANGED vars
    PROVE  SpotInv'
<1>1. UNCHANGED <<bfree_bitmap, other, bitmap, linked, bno, slice_no, num_slices, pc, req>>
  BY DEF vars, sbvars, blockvars, inodevars, callvars
<1>2. \A f : Holds(f)' = Holds(f)
  BY <1>1 DEF Holds, ExtentOf
<1>3. OldExtent' = OldExtent /\ Sliced' = Sliced
  BY <1>1 DEF OldExtent, Sliced
<1>4. /\ \A f, b, s : Has(f, b, s)' <=> Has(f, b, s)
      /\ \A b, s : OldHas(b, s)' <=> OldHas(b, s)
      /\ \A b, s : IsTaken(b, s)' <=> IsTaken(b, s)
  BY <1>1, <1>2, <1>3 DEF Has, OldHas, IsTaken
<1> QED
  BY <1>1, <1>4 DEF SpotInv

StoreInv == BlocksInv /\ ListInv /\ CallInv /\ SpotInv

\* The steps the store's promises do not cover.
Harm == TruncHarms \/ MoveFaults

LEMMA StoreInvInit == Init => StoreInv
BY ListInvInit, CallInvInit, SpotInvInit DEF StoreInv

LEMMA StoreInvNext ==
    TypeOK /\ TypeOK' /\ StoreInv /\ [Next]_vars /\ [~Harm]_vars => StoreInv'
<1> SUFFICES ASSUME TypeOK, TypeOK', StoreInv, [Next]_vars, [~Harm]_vars PROVE StoreInv'
  OBVIOUS
<1>a. BlocksInv /\ ListInv /\ CallInv /\ SpotInv
  BY DEF StoreInv
<1>1. CallInv'
  BY <1>a, CallInvNext
<1>2. CASE UNCHANGED vars
  BY <1>a, <1>1, <1>2, ListStutter, SpotStutter DEF StoreInv
<1>3. CASE Next /\ ~Harm
  <2>1. ~TruncHarms /\ ~MoveFaults
    BY <1>3 DEF Harm
  <2> QED
    BY <1>a, <1>1, <1>3, <2>1, ListInvNext, SpotInvNext DEF StoreInv
<1> QED
  BY <1>2, <1>3

(* As long as O_TRUNC does no harm and no copy from user space faults in    *)
(* the middle of a move, the slices of a file lie in a sliced block, are    *)
(* not marked free and belong to no other file, neither now nor as the old  *)
(* slices of a move: what get_consequitive_free_slices claims and           *)
(* delete_slice frees never overlaps.  Read errors, failed allocations and  *)
(* full disks do not matter.                                                *)
THEOREM ExtentsStayDisjoint == Spec /\ [][~Harm]_vars => []ExtentsDisjoint
<1>1. StoreInv => ExtentsDisjoint
  BY SpotInvDisjoint DEF StoreInv
<1> QED
  BY <1>1, StoreInvInit, StoreInvNext, TypeCorrect, PTL DEF Spec
-----------------------------------------------------------------------------
(* Failed moves *)

\* A move of no bytes finds its place, and returns 0: the caller restores the
\* inode as after a failure, with num_slices = 0.
EmptyMove == \E i \in Slice : ScanHitNothing(i)

\* The old slices are in a sliced block, so the list is not empty.
LEMMA MoveHasHead ==
    ASSUME TypeOK, StoreInv, pc \in {"start", "scan"}, req.move
    PROVE  s_free_sliced_blocks # 0
<1>1. req \in Req
  BY DEF TypeOK, CallTypeOK
<1>2. req.old_num_slices \in Nat /\ req.old_num_slices # 0 /\ req.old_slice_no \in Nat
  BY <1>1, GeometryAssumption DEF StoreInv, CallInv, Req
<1>3. req.old_slice_no \in OldExtent
  BY <1>2 DEF OldExtent
<1>4. OldHas(req.old_bno, req.old_slice_no)
  BY <1>3 DEF OldHas
<1>5. req.old_bno \in Sliced
  BY <1>4 DEF StoreInv, SpotInv, IsTaken
<1> QED
  BY <1>5, HeadLeads DEF StoreInv

Restored ==
    /\ bno'[req.f] = req.old_bno /\ slice_no'[req.f] = req.old_slice_no
    /\ i_size'[req.f] = req.old_size
    /\ num_slices'[req.f] = req.old_num_slices

LEMMA RestoresNext ==
    ASSUME TypeOK, StoreInv, Next, ~Harm, ~EmptyMove, MoveFailed
    PROVE  Restored
<1>a. /\ bno \in [Files -> 0..(NrBlocks - 1)] /\ slice_no \in [Files -> 0..(NrSlices - 1)]
      /\ num_slices \in [Files -> Nat] /\ i_size \in [Files -> Nat] /\ linked \subseteq Files
  BY DEF TypeOK, InodeTypeOK
<1>b. pc \in {"start", "scan"} /\ req.move /\ pc' = "idle"
  BY DEF MoveFailed
<1>c. PICK w \in Files : w = req.f /\ num_slices[w] = req.old_num_slices
  BY <1>a, <1>b DEF StoreInv, CallInv, WriteLocals
<1>1. ASSUME FailWrite, UNCHANGED num_slices PROVE Restored
  <2>1. /\ bno' = [bno EXCEPT ![w] = req.old_bno] /\ slice_no' = [slice_no EXCEPT ![w] = req.old_slice_no]
        /\ i_size' = [i_size EXCEPT ![w] = req.old_size]
    BY <1>1, <1>b, <1>c DEF FailWrite
  <2>2. bno'[w] = req.old_bno /\ slice_no'[w] = req.old_slice_no /\ i_size'[w] = req.old_size
    BY <1>a, <2>1
  <2> QED
    BY <1>1, <1>c, <2>2 DEF Restored
<1>2. CASE StartReadError \/ ScanReadError \/ ScanNoSpace \/ ScanInitError
  BY <1>1, <1>2 DEF StartReadError, ScanReadError, ScanNoSpace, ScanInitError
<1>3. ~(StartNoSpace \/ StartInitError)
  BY <1>b, MoveHasHead DEF StartNoSpace, StartInitError
<1>4. \A i \in Slice : ~ScanHit(i) /\ ~ScanHitNothing(i) /\ ~ScanFault(i)
  BY <1>b DEF ScanHit, Harm, MoveFaults, EmptyMove
<1>5. ~(StartAtHead \/ StartAlloc \/ ScanNext \/ ScanAlloc)
  BY <1>b DEF StartAtHead, StartAlloc, ScanNext, ScanAlloc, NoRoom
<1>6. ~(FreeNothing \/ FreeSlices \/ WalkEnd \/ WalkReadError \/ WalkFree \/ WalkKeep)
  BY <1>b DEF FreeNothing, FreeSlices, WalkEnd, WalkReadError, WalkFree, WalkKeep
<1>7. ~Call
  BY <1>b, CallsWhenIdle
<1> QED
  BY <1>2, <1>3, <1>4, <1>5, <1>6, <1>7 DEF Next, HandlerStep

(* "Write failed, restore old inode": as long as O_TRUNC does no harm, a    *)
(* move that fails, but for a fault in its copy or for having nothing to    *)
(* copy, leaves index_block, i_size and num_slices as it found them.  The   *)
(* failure that would not, the NULL buffer head of an empty list, cannot    *)
(* happen in a move.                                                        *)
THEOREM FailedMovesRestore ==
    Spec /\ [][~Harm /\ ~EmptyMove]_vars => FailureRestores
<1>1. TypeOK /\ TypeOK' /\ StoreInv /\ [Next]_vars /\ [~Harm /\ ~EmptyMove]_vars => StoreInv'
  BY StoreInvNext
<1>2. TypeOK /\ StoreInv /\ [Next]_vars /\ [~Harm /\ ~EmptyMove]_vars => [MoveFailed => Restored]_vars
  BY RestoresNext
<1>3. [MoveFailed => Restored]_vars =>
        [MoveFailed =>
           /\ bno'[req.f] = req.old_bno /\ slice_no'[req.f] = req.old_slice_no
           /\ i_size'[req.f] = req.old_size
           /\ num_slices'[req.f] = req.old_num_slices]_vars
  BY DEF Restored
<1> QED
  BY <1>1, <1>2, <1>3, StoreInvInit, TypeCorrect, PTL DEF Spec, FailureRestores
-----------------------------------------------------------------------------
(* Nothing leaks when no read, copy or allocation of memory fails *)

\* The hypothesis: no device fault, no bad user buffer, and no write of no bytes.
NoFaults == Faults = {} /\ 0 \notin Counts

\* The bytes of a file fill its slices, the last one partly.
LEMMA SlicesHold ==
    ASSUME NEW size \in Nat
    PROVE  /\ NumSlices(size) \in Nat /\ size <= NumSlices(size) * SliceSize
           /\ \A n \in Nat : size <= n * SliceSize => NumSlices(size) <= n
           /\ size # 0 => NumSlices(size) # 0
<1> DEFINE a == size + SliceSize - 1
           q == a \div SliceSize
<1>1. SliceSize \in Nat \ {0} /\ a \in Nat
  BY GeometryAssumption
<1>2. q \in Nat /\ SliceSize * q <= a /\ a < SliceSize * q + SliceSize
  <2> HIDE DEF a
  <2> QED
    BY <1>1
<1>3. NumSlices(size) = q
  BY DEF NumSlices
<1> HIDE DEF q
<1>4. SliceSize * q = q * SliceSize /\ q * SliceSize \in Nat
  BY <1>1, <1>2
<1>5. size <= q * SliceSize
  BY <1>1, <1>2, <1>4
<1>6. ASSUME NEW n \in Nat, size <= n * SliceSize PROVE q <= n
  <2> SUFFICES ASSUME q >= n + 1 PROVE FALSE
    BY <1>2
  <2>1. q * SliceSize >= (n + 1) * SliceSize /\ (n + 1) * SliceSize = n * SliceSize + SliceSize
        /\ n * SliceSize \in Nat
    BY <1>1, <1>2
  <2> QED
    BY <1>1, <1>2, <1>4, <1>6, <2>1
<1>7. ASSUME size # 0, q = 0 PROVE FALSE
  BY <1>1, <1>5, <1>7
<1> QED
  BY <1>2, <1>3, <1>5, <1>6, <1>7

\* Every slice that is marked as taken has an owner.
OwnerInv == \A b, s : IsTaken(b, s) => (\E f \in Files : HasL(f, b, s)) \/ OldHas(b, s)

LEMMA OwnerInvInit == Init => OwnerInv
<1> SUFFICES ASSUME Init PROVE OwnerInv
  OBVIOUS
<1>1. Sliced = {}
  BY GeometryAssumption DEF Init, Sliced, Block
<1> QED
  BY <1>1 DEF OwnerInv, IsTaken

LEMMA OwnerSteps ==
    ASSUME OwnerInv, SameTaken,
           KeepHolders \/ \E w \in Files : MoveOut(w) \/ (MoveBack(w) /\ w \in linked)
    PROVE  OwnerInv'
<1>1. CASE KeepHolders
  BY <1>1 DEF OwnerInv, SameTaken, KeepHolders
<1>2. ASSUME NEW w \in Files, MoveOut(w) PROVE OwnerInv'
  BY <1>2 DEF OwnerInv, SameTaken, MoveOut
<1>3. ASSUME NEW w \in Files, MoveBack(w), w \in linked PROVE OwnerInv'
  BY <1>3 DEF OwnerInv, SameTaken, MoveBack
<1> QED
  BY <1>1, <1>2, <1>3

\* delete_slice is called for a file that has slices or that never had any.
LEMMA FreeNothingDrops ==
    ASSUME TypeOK, NoFaults, CallInv, FreeNothing
    PROVE  /\ req.op = "unlink" /\ req.f \in linked
           /\ bno[req.f] = 0 \/ num_slices[req.f] = 0
           /\ \A b, s : ~HasL(req.f, b, s) /\ ~OldHas(b, s)
<1>1. pc = "free" /\ (req.old_bno = 0 \/ req.old_num_slices = 0 \/ MayFail(req.old_bno))
  BY DEF FreeNothing
<1>2. req \in Req
  BY <1>1 DEF TypeOK, CallTypeOK
<1>3. ~MayFail(req.old_bno)
  <2>1. req.old_bno \in 0..(NrBlocks - 1)
    BY <1>2 DEF Req
  <2> QED
    BY <2>1, GeometryAssumption DEF NoFaults, MayFail
<1>4. req.op = "unlink"
  BY <1>1, <1>2, <1>3 DEF CallInv, Req
<1>5. UnlinkLocals /\ req.f \in linked
  BY <1>1, <1>4 DEF CallInv
<1>6. bno[req.f] = 0 \/ num_slices[req.f] = 0
  BY <1>1, <1>3, <1>5 DEF UnlinkLocals
<1>7. \A b, s : ~HasL(req.f, b, s)
  <2>1. slice_no[req.f] \in Int
    BY <1>5, GeometryAssumption DEF TypeOK, InodeTypeOK
  <2>2. ExtentOf(req.f) = {}
    BY <1>6, <2>1 DEF ExtentOf
  <2> QED
    BY <1>1, <2>2 DEF HasL, Has, Holds
<1>8. \A b, s : ~OldHas(b, s)
  BY <1>5, NoOld DEF UnlinkLocals
<1> QED
  BY <1>4, <1>5, <1>6, <1>7, <1>8

LEMMA NoFaultSteps ==
    ASSUME NoFaults, TypeOK, StoreInv, Next, pc \in {"start", "scan"} => req.count # 0
    PROVE  /\ ~MoveFaults
           /\ \A i \in Slice : ~ScanHitNothing(i) /\ ~ScanFault(i)
           /\ \A f \in Files, ki_pos \in Offsets, count \in Counts, append \in Appends :
                ~WriteMoveLost(f, ki_pos, count, append)
BY DEF NoFaults, MoveFaults, ScanFault, ScanHitNothing, FoundAt, WriteMoveLost

LEMMA OwnerInvNext ==
    ASSUME NoFaults, TypeOK, StoreInv, OwnerInv, Next, ~TruncHarms,
           pc \in {"start", "scan"} => req.count # 0
    PROVE  OwnerInv'
<1>a. BlocksInv /\ ListInv /\ CallInv /\ SpotInv
  BY DEF StoreInv
<1>b. linked \subseteq Files
  BY DEF TypeOK, InodeTypeOK
<1>1. CASE Call
  <2>1. KeepHolders \/ \E w \in Files : MoveOut(w)
    BY <1>1, NoFaultSteps, HoldersCall
  <2> QED
    BY <1>1, <1>a, <2>1, TakenCall, OwnerSteps
<1>2. CASE StartAtHead \/ StartAlloc \/ ScanNext \/ ScanAlloc \/ WalkFree \/ WalkKeep
           \/ WalkEnd \/ WalkReadError
  BY <1>2, <1>a, HoldersHandler, TakenHandler, OwnerSteps
<1>3. CASE StartReadError \/ ScanReadError \/ ScanNoSpace \/ ScanInitError
  <2>1. pc \in {"start", "scan"}
    BY <1>3 DEF StartReadError, ScanReadError, ScanNoSpace, ScanInitError, NoRoom
  <2>2. req.f \in linked
    BY <1>a, <2>1 DEF CallInv
  <2>3. req.f \in Files /\ MoveBack(req.f)
    BY <1>3, <1>a, HoldersHandler
  <2> QED
    BY <1>3, <1>a, <2>2, <2>3, TakenHandler, OwnerSteps
<1>4. CASE StartNoSpace \/ StartInitError
  <2>1. Sliced = {}
    BY <1>4, <1>a, HeadLeads DEF StartNoSpace, StartInitError
  <2>2. SameTaken
    BY <1>4, <1>a, TakenHandler
  <2> QED
    BY <2>1, <2>2 DEF SameTaken, OwnerInv, IsTaken
<1>5. CASE FreeNothing
  <2>1. req.op = "unlink" /\ \A b, s : ~HasL(req.f, b, s) /\ ~OldHas(b, s)
    BY <1>5, <1>a, FreeNothingDrops
  <2>2. DropFile(req.f) /\ req.f \in Files
    BY <1>5, <1>a, <2>1, HoldersHandler
  <2>3. KeepHolders
    BY <2>1, <2>2 DEF DropFile, KeepHolders
  <2> QED
    BY <1>5, <1>a, <2>3, TakenHandler, OwnerSteps
<1>6. ASSUME NEW i \in Slice, ScanHit(i) PROVE OwnerInv'
  <2>1. PICK w \in Files : Claims(w, cur, NewSlices(i))
    BY <1>6, <1>a, HoldersHit
  <2> QED
    BY <2>1 DEF OwnerInv, Claims
<1>7. CASE FreeSlices
  <2>1. FreesOld \/ \E w \in Files : FreesFile(w)
    BY <1>7, <1>a, HoldersFree
  <2>2. CASE FreesOld
    BY <2>2 DEF OwnerInv, FreesOld, DropOld
  <2>3. ASSUME NEW w \in Files, FreesFile(w) PROVE OwnerInv'
    BY <2>3 DEF OwnerInv, FreesFile, DropFile
  <2> QED
    BY <2>1, <2>2, <2>3
<1> QED
  BY <1>1, <1>2, <1>3, <1>4, <1>5, <1>6, <1>7, NoFaultSteps DEF Next, HandlerStep

-----------------------------------------------------------------------------
(* What the inodes and the running write say about space *)

\* An inode has bytes only with an index_block, and an index_block only with slices.
InodesAgree ==
    \A f \in Files : (bno[f] = 0 => i_size[f] = 0) /\ (bno[f] # 0 => num_slices[f] # 0)

\* A search is for at least one slice and, if the file is new, for room that an
\* empty block has.
WriteFits ==
    pc \in {"start", "scan"} =>
      /\ req.count # 0 /\ req.size # 0
      /\ ~req.move => will_be_small(req.size)

\* There are sliced blocks only while a handler is at work on them or a file
\* has slices.
Owned == \E f \in linked : bno[f] # 0
BlocksOwned ==
    (~oops /\ Sliced # {}) => pc \in {"scan", "walk"} \/ (pc # "idle" /\ req.move) \/ Owned

LEMMA WriteFitsNext ==
    ASSUME NoFaults, TypeOK, InodesAgree, WriteFits, [Next]_vars
    PROVE  WriteFits'
<1>a. i_size \in [Files -> Nat] /\ Offsets \subseteq Nat /\ Counts \subseteq Nat /\ 0 \notin Counts
  BY InputAssumption DEF TypeOK, InodeTypeOK, NoFaults
<1>1. CASE pc' \notin {"start", "scan"}
  BY <1>1 DEF WriteFits
<1>2. CASE pc \in {"start", "scan"} /\ req' = req
  BY <1>2 DEF WriteFits
<1>3. ASSUME NEW f \in Files, NEW ki_pos \in Offsets, NEW count \in Counts, NEW append \in Appends,
             WriteNew(f, ki_pos, count, append)
      PROVE  WriteFits'
  <2> DEFINE pos == StartsAt(f, ki_pos, append)
             size == NewSize(f, pos, count)
  <2>1. bno[f] = 0 /\ will_be_small(NewSize(f, ki_pos, count)) /\ pc' = "start"
        /\ req' = WriteReq(f, size, pos, count, TRUE, {f}, FALSE)
    BY <1>3 DEF WriteNew, MayWrite
  <2>2. req'.count = count /\ req'.size = size
    BY <2>1 DEF WriteReq
  <2>3. i_size[f] = 0 /\ ki_pos \in Nat /\ count \in Nat \ {0}
    BY <1>a, <2>1 DEF InodesAgree
  <2>4. pos \in Nat /\ pos <= ki_pos
    BY <2>3 DEF StartsAt
  <2> HIDE DEF pos
  <2>5. size = pos + count /\ NewSize(f, ki_pos, count) = ki_pos + count
    BY <2>3, <2>4 DEF NewSize, MaxOf
  <2>6. size # 0
    BY <2>3, <2>4, <2>5
  <2>7. will_be_small(size)
    <3>1. BlockSize - SliceSize \in Int
      BY GeometryAssumption DEF BlockSize
    <3>2. ki_pos + count <= BlockSize - SliceSize
      BY <2>1, <2>5 DEF will_be_small
    <3>3. size <= BlockSize - SliceSize
      BY <2>3, <2>4, <2>5, <3>1, <3>2
    <3> QED
      BY <3>3 DEF will_be_small
  <2> HIDE DEF size
  <2> QED
    BY <2>2, <2>3, <2>6, <2>7 DEF WriteFits, will_be_small, BlockSize
<1>4. ASSUME NEW f \in Files, NEW ki_pos \in Offsets, NEW count \in Counts, NEW append \in Appends,
             WriteMove(f, ki_pos, count, append)
      PROVE  WriteFits'
  <2> DEFINE pos == StartsAt(f, ki_pos, append)
             size == NewSize(f, pos, count)
  <2>1. count \in Nat \ {0} /\ pos \in Nat /\ i_size[f] \in Nat
    BY <1>a DEF StartsAt
  <2>2. size # 0
    BY <2>1 DEF NewSize, MaxOf
  <2>3. \/ req' = WriteReq(f, count, 0, count, TRUE, {f}, TRUE)
        \/ req' = WriteReq(f, size, 0, size, FALSE, {f} \cup TagsOf(f, i_size[f]), TRUE)
    BY <1>4, Zenon DEF WriteMove
  <2> HIDE DEF size
  <2>4. req'.count # 0 /\ req'.size # 0 /\ req'.move
    BY <2>1, <2>2, <2>3 DEF WriteReq
  <2> QED
    BY <2>4 DEF WriteFits
<1>5. CASE Call
  <2>1. ASSUME NEW f \in Files, Create(f) \/ Unlink(f) \/ OpenTrunc(f) \/ OpenTruncError(f)
        PROVE  WriteFits'
    BY <1>1, <2>1 DEF Create, Unlink, OpenTrunc, OpenTruncError, callvars, vars
  <2>2. ASSUME NEW f \in Files, NEW ki_pos \in Offsets, NEW count \in Counts,
               WriteRefused(f, ki_pos, count)
        PROVE  WriteFits'
    BY <1>1, <2>2 DEF WriteRefused, MayWrite, callvars, vars
  <2>3. ASSUME NEW f \in Files, NEW ki_pos \in Offsets, NEW count \in Counts, NEW append \in Appends,
               \/ WriteInPlace(f, ki_pos, count, append)
               \/ WriteInPlaceFault(f, ki_pos, count, append)
               \/ WriteMoveLost(f, ki_pos, count, append)
        PROVE  WriteFits'
    BY <1>1, <2>3 DEF WriteInPlace, WriteInPlaceFault, WriteMoveLost, MayWrite, callvars
  <2>4. CASE \/ \E b \in Block, c \in Contents \cup {ZeroContent} : OtherAlloc(b, c)
             \/ OtherAllocFails
             \/ \E b \in Block : OtherUnlink(b) \/ OtherTruncate(b)
    BY <1>1, <2>4 DEF OtherAlloc, OtherAllocFails, OtherUnlink, OtherTruncate, callvars
  <2> QED
    BY <1>3, <1>4, <1>5, <2>1, <2>2, <2>3, <2>4 DEF Call
<1>6. CASE HandlerStep
  <2>1. CASE \/ StartReadError \/ StartNoSpace \/ StartInitError \/ ScanReadError \/ ScanNoSpace
             \/ ScanInitError \/ FreeNothing \/ WalkEnd \/ WalkReadError
    BY <1>1, <2>1 DEF StartReadError, StartNoSpace, StartInitError, ScanReadError, ScanNoSpace,
       ScanInitError, FreeNothing, WalkEnd, WalkReadError, FailWrite, DeleteReturns, Oops, Return
  <2>2. ASSUME NEW i \in Slice, ScanHit(i) \/ ScanHitNothing(i) \/ ScanFault(i) PROVE WriteFits'
    BY <1>1, <2>2 DEF ScanHit, ScanHitNothing, ScanFault, FailWrite, Return
  <2>3. CASE StartAtHead \/ StartAlloc \/ ScanNext \/ ScanAlloc
    BY <1>2, <2>3 DEF StartAtHead, StartAlloc, ScanNext, ScanAlloc, NoRoom
  <2>4. CASE FreeSlices \/ WalkFree \/ WalkKeep
    BY <1>1, <2>4 DEF FreeSlices, WalkFree, WalkKeep
  <2> QED
    BY <1>6, <2>1, <2>2, <2>3, <2>4 DEF HandlerStep
<1>7. CASE UNCHANGED vars
  BY <1>1, <1>2, <1>7 DEF vars, callvars
<1> QED
  BY <1>5, <1>6, <1>7 DEF Next

\* One inode is set, or i_size of one that keeps its index_block.
LEMMA InodesAgreeSet ==
    ASSUME TypeOK, InodesAgree, NEW w \in Files, NEW b \in 0..(NrBlocks - 1), NEW n \in Nat, NEW z \in Nat,
           bno' = [bno EXCEPT ![w] = b], num_slices' = [num_slices EXCEPT ![w] = n],
           i_size' = [i_size EXCEPT ![w] = z],
           b = 0 => z = 0, b # 0 => n # 0
    PROVE  InodesAgree'
<1>1. bno \in [Files -> 0..(NrBlocks - 1)] /\ num_slices \in [Files -> Nat] /\ i_size \in [Files -> Nat]
  BY DEF TypeOK, InodeTypeOK
<1>2. ASSUME NEW f \in Files PROVE (bno'[f] = 0 => i_size'[f] = 0) /\ (bno'[f] # 0 => num_slices'[f] # 0)
  <2>1. CASE f = w
    BY <1>1, <2>1
  <2>2. CASE f # w
    BY <1>1, <2>2 DEF InodesAgree
  <2> QED
    BY <2>1, <2>2
<1> QED
  BY <1>2 DEF InodesAgree

LEMMA InodesAgreeNext ==
    ASSUME NoFaults, TypeOK, StoreInv, InodesAgree, WriteFits, [Next]_vars
    PROVE  InodesAgree'
<1>a. /\ bno \in [Files -> 0..(NrBlocks - 1)] /\ num_slices \in [Files -> Nat]
      /\ i_size \in [Files -> Nat] /\ linked \subseteq Files /\ 0 \in 0..(NrBlocks - 1)
      /\ Offsets \subseteq Nat /\ Counts \subseteq Nat
  BY InputAssumption, GeometryAssumption DEF TypeOK, InodeTypeOK
<1>b. CallInv /\ ListInv
  BY DEF StoreInv
<1>1. CASE UNCHANGED <<bno, num_slices, i_size>>
  BY <1>1 DEF InodesAgree
<1>2. ASSUME NEW w \in Files, bno' = [bno EXCEPT ![w] = 0], i_size' = [i_size EXCEPT ![w] = 0],
             UNCHANGED num_slices
      PROVE  InodesAgree'
  <2>1. num_slices' = [num_slices EXCEPT ![w] = num_slices[w]] /\ num_slices[w] \in Nat
    BY <1>a, <1>2
  <2> QED
    BY <1>a, <1>2, <2>1, InodesAgreeSet
<1>3. ASSUME NEW w \in Files, NEW z \in Nat, i_size' = [i_size EXCEPT ![w] = z],
             UNCHANGED <<bno, num_slices>>, bno[w] = 0 => z = 0
      PROVE  InodesAgree'
  <2>1. /\ num_slices' = [num_slices EXCEPT ![w] = num_slices[w]] /\ num_slices[w] \in Nat
        /\ bno' = [bno EXCEPT ![w] = bno[w]] /\ bno[w] \in 0..(NrBlocks - 1)
        /\ bno[w] # 0 => num_slices[w] # 0
    BY <1>a, <1>3 DEF InodesAgree
  <2> QED
    BY <1>a, <1>3, <2>1, InodesAgreeSet
<1>4. CASE Call
  <2>1. ASSUME NEW f \in Files, Create(f) PROVE InodesAgree'
    BY <1>a, <2>1, InodesAgreeSet DEF Create
  <2>2. ASSUME NEW f \in Files, Unlink(f) \/ OpenTruncError(f) PROVE InodesAgree'
    BY <1>1, <2>2 DEF Unlink, OpenTruncError, inodevars, vars
  <2>3. ASSUME NEW f \in Files, OpenTrunc(f) PROVE InodesAgree'
    BY <1>3, <2>3 DEF OpenTrunc
  <2>4. ASSUME NEW f \in Files, NEW ki_pos \in Offsets, NEW count \in Counts,
               WriteRefused(f, ki_pos, count)
        PROVE  InodesAgree'
    BY <1>1, <2>4 DEF WriteRefused, inodevars, vars
  <2>5. ASSUME NEW f \in Files, NEW ki_pos \in Offsets, NEW count \in Counts, NEW append \in Appends,
               WriteNew(f, ki_pos, count, append) \/ WriteInPlaceFault(f, ki_pos, count, append)
        PROVE  InodesAgree'
    BY <1>1, <2>5 DEF WriteNew, WriteInPlaceFault, inodevars
  <2>6. ASSUME NEW f \in Files, NEW ki_pos \in Offsets, NEW count \in Counts, NEW append \in Appends,
               WriteInPlace(f, ki_pos, count, append)
        PROVE  InodesAgree'
    <3>1. PICK size \in Nat : i_size' = [i_size EXCEPT ![f] = size]
      <4>1. StartsAt(f, ki_pos, append) \in Nat
        BY <1>a DEF StartsAt
      <4>2. NewSize(f, StartsAt(f, ki_pos, append), count) \in Nat
        BY <1>a, <4>1, NewSizeNat
      <4> QED
        BY <2>6, <4>2 DEF WriteInPlace
    <3>2. UNCHANGED <<bno, num_slices>> /\ bno[f] # 0
      BY <2>6 DEF WriteInPlace
    <3> QED
      BY <1>3, <3>1, <3>2
  <2>7. ASSUME NEW f \in Files, NEW ki_pos \in Offsets, NEW count \in Counts, NEW append \in Appends,
               WriteMove(f, ki_pos, count, append) \/ WriteMoveLost(f, ki_pos, count, append)
        PROVE  InodesAgree'
    BY <1>2, <2>7 DEF WriteMove, WriteMoveLost
  <2>8. CASE \/ \E b \in Block, c \in Contents \cup {ZeroContent} : OtherAlloc(b, c)
             \/ OtherAllocFails
             \/ \E b \in Block : OtherUnlink(b) \/ OtherTruncate(b)
    BY <1>1, <2>8 DEF OtherAlloc, OtherAllocFails, OtherUnlink, OtherTruncate, inodevars
  <2> QED
    BY <1>4, <2>1, <2>2, <2>3, <2>4, <2>5, <2>6, <2>7, <2>8 DEF Call
<1>5. CASE HandlerStep
  <2>1. CASE \/ StartAtHead \/ StartAlloc \/ StartNoSpace \/ StartInitError \/ ScanNext \/ ScanAlloc
             \/ FreeSlices \/ WalkFree \/ WalkKeep
    BY <1>1, <2>1 DEF StartAtHead, StartAlloc, StartNoSpace, StartInitError, ScanNext, ScanAlloc,
       FreeSlices, WalkFree, WalkKeep, inodevars
  <2>2. CASE StartReadError \/ ScanReadError \/ ScanNoSpace \/ ScanInitError
    <3>1. FailWrite /\ UNCHANGED num_slices /\ pc \in {"start", "scan"}
      BY <2>2 DEF StartReadError, ScanReadError, ScanNoSpace, ScanInitError, NoRoom
    <3>2. CASE ~req.move
      BY <1>1, <3>1, <3>2 DEF FailWrite
    <3>3. CASE req.move
      <4>1. req \in Req
        BY <3>1 DEF TypeOK, CallTypeOK
      <4>2. PICK w \in Files, b \in 0..(NrBlocks - 1), z \in Nat :
                   w = req.f /\ b = req.old_bno /\ z = req.old_size
        BY <4>1 DEF Req
      <4>3. b # 0 /\ num_slices[w] # 0 /\ num_slices[w] \in Nat
        BY <1>a, <1>b, <3>1, <3>3, <4>2 DEF CallInv, WriteLocals
      <4>4. /\ bno' = [bno EXCEPT ![w] = b] /\ i_size' = [i_size EXCEPT ![w] = z]
            /\ num_slices' = [num_slices EXCEPT ![w] = num_slices[w]]
        BY <1>a, <3>1, <3>3, <4>2 DEF FailWrite
      <4> QED
        BY <4>3, <4>4, InodesAgreeSet
    <3> QED
      BY <3>2, <3>3
  <2>3. ASSUME NEW i \in Slice, ScanHit(i) PROVE InodesAgree'
    <3>1. FoundAt(i) /\ pc = "scan"
      BY <2>3 DEF ScanHit, FoundAt
    <3>2. req.size \in Nat /\ req.f \in Files /\ req.size # 0
      BY <3>1, NewSlicesFree DEF WriteFits
    <3>3. PICK w \in Files, z \in Nat, n \in Nat : w = req.f /\ z = req.size /\ n = NumSlices(z) /\ n # 0
      BY <3>2, SlicesHold
    <3>4. cur \in 0..(NrBlocks - 1) /\ cur # 0
      <4>1. cur \in Block
        BY <3>1, <1>b, ScanSees
      <4> QED
        BY <4>1 DEF Block
    <3>5. /\ bno' = [bno EXCEPT ![w] = cur] /\ i_size' = [i_size EXCEPT ![w] = z]
          /\ num_slices' = [num_slices EXCEPT ![w] = n]
      BY <2>3, <3>3 DEF ScanHit, ClaimSlices
    <3> QED
      BY <3>3, <3>4, <3>5, InodesAgreeSet
  <2>4. CASE FreeNothing \/ WalkEnd \/ WalkReadError
    <3>1. DeleteReturns /\ pc \in {"free", "walk"}
      BY <2>4 DEF FreeNothing, WalkEnd, WalkReadError
    <3>2. CASE req.op # "unlink"
      BY <1>1, <3>1, <3>2 DEF DeleteReturns
    <3>3. CASE req.op = "unlink"
      <4>1. PICK w \in Files : w = req.f
        BY <1>a, <1>b, <3>1 DEF CallInv
      <4> QED
        BY <1>2, <3>1, <3>3, <4>1 DEF DeleteReturns
    <3> QED
      BY <3>2, <3>3
  <2>5. \A i \in Slice : ~ScanHitNothing(i) /\ ~ScanFault(i)
    BY DEF NoFaults, ScanFault, ScanHitNothing, FoundAt, WriteFits
  <2> QED
    BY <1>5, <2>1, <2>2, <2>3, <2>4, <2>5 DEF HandlerStep
<1>6. CASE UNCHANGED vars
  BY <1>1, <1>6 DEF vars, inodevars
<1> QED
  BY <1>4, <1>5, <1>6 DEF Next

\* Calls neither add nor remove sliced blocks.
LEMMA CallKeepsSliced ==
    ASSUME TypeOK, BlocksInv, ~TruncHarms, Call
    PROVE  Sliced' = Sliced /\ oops' = oops
<1>1. ASSUME UNCHANGED <<bfree_bitmap, other, oops>> PROVE Sliced' = Sliced /\ oops' = oops
  BY <1>1 DEF Sliced
<1>2. ASSUME NEW f \in Files, Create(f) \/ Unlink(f) \/ OpenTruncError(f)
      PROVE  Sliced' = Sliced /\ oops' = oops
  BY <1>1, <1>2 DEF Create, Unlink, OpenTruncError, sbvars, vars
<1>3. ASSUME NEW f \in Files, NEW ki_pos \in Offsets, NEW count \in Counts,
             WriteRefused(f, ki_pos, count)
      PROVE  Sliced' = Sliced /\ oops' = oops
  BY <1>1, <1>3 DEF WriteRefused, sbvars, vars
<1>4. ASSUME NEW f \in Files, NEW ki_pos \in Offsets, NEW count \in Counts, NEW append \in Appends,
             \/ WriteNew(f, ki_pos, count, append)
             \/ WriteInPlace(f, ki_pos, count, append)
             \/ WriteInPlaceFault(f, ki_pos, count, append)
             \/ WriteMove(f, ki_pos, count, append)
             \/ WriteMoveLost(f, ki_pos, count, append)
      PROVE  Sliced' = Sliced /\ oops' = oops
  BY <1>1, <1>4 DEF WriteNew, WriteInPlace, WriteInPlaceFault, WriteMove, WriteMoveLost, sbvars
<1>5. ASSUME NEW f \in Files, OpenTrunc(f) PROVE Sliced' = Sliced /\ oops' = oops
  <2>1. BitmapWord(bitmap[IndexBlock(f)]) = 0
    BY <1>5 DEF TruncHarms, Misread
  <2> QED
    BY <1>1, <1>5, <2>1 DEF OpenTrunc
<1>6. ASSUME NEW b \in Block, NEW c \in Contents \cup {ZeroContent}, OtherAlloc(b, c)
      PROVE  Sliced' = Sliced /\ oops' = oops
  <2>1. b \in bfree_bitmap /\ b \notin Sliced
    BY <1>6, FreshBlock DEF OtherAlloc
  <2> QED
    BY <1>6, <2>1 DEF OtherAlloc, Sliced
<1>7. CASE OtherAllocFails
  BY <1>7, BlockNat DEF OtherAllocFails, Sliced
<1>8. ASSUME NEW b \in Block, OtherUnlink(b) \/ OtherTruncate(b)
      PROVE  Sliced' = Sliced /\ oops' = oops
  <2>1. bfree_bitmap' = bfree_bitmap \cup {b} /\ other' = other \ {b} /\ b \in other /\ oops' = oops
    BY <1>8, BlockNat DEF OtherUnlink, OtherTruncate, PutBlock, Puts
  <2> QED
    BY <2>1 DEF Sliced
<1> QED
  BY <1>2, <1>3, <1>4, <1>5, <1>6, <1>7, <1>8 DEF Call

\* An intact list has no unreadable number in it.
LEMMA ListReadable ==
    ASSUME TypeOK, ListInv, ~oops
    PROVE  /\ s_free_sliced_blocks \in Block \cup {0}
           /\ pc = "walk" => cur \in Block \cup {0}
<1>1. PICK n \in Nat : \E L \in [1..n -> Block] : Threaded(n, L)
  BY DEF ListInv
<1>2. PICK L \in [1..n -> Block] : Threaded(n, L)
  BY <1>1
<1>3. \A k : At(n, L, k) \in Block \cup {0}
  BY DEF At
<1>4. s_free_sliced_blocks \in Block \cup {0}
  BY <1>2, <1>3 DEF Threaded, Threads
<1>5. ASSUME pc = "walk" PROVE cur \in Block \cup {0}
  <2>1. PICK i \in Nat : WalkAt(n, L, i)
    BY <1>2, <1>5 DEF Threaded
  <2> QED
    BY <1>3, <2>1 DEF WalkAt
<1> QED
  BY <1>4, <1>5

\* An empty block has room for any small file.
LEMMA EmptyHasRoom ==
    ASSUME NEW size \in Nat, will_be_small(size)
    PROVE  ~NoSlot(AllFree, size)
<1>1. NrSlices \in Nat \ {0, 1} /\ SliceSize \in Nat \ {0}
  BY GeometryAssumption
<1>2. BlockSize \in Nat /\ BlockSize - SliceSize = (NrSlices - 1) * SliceSize
  BY <1>1 DEF BlockSize
<1>3. size <= BlockSize /\ size <= (NrSlices - 1) * SliceSize
  BY <1>1, <1>2 DEF will_be_small
<1>4. NumSlices(size) \in Nat /\ NumSlices(size) <= NrSlices - 1
  BY <1>1, <1>3, SlicesHold
<1>5. 1 \in Fits(AllFree, NumSlices(size))
  BY <1>1, <1>4 DEF Fits, AllFree, Slice
<1> QED
  BY <1>2, <1>3, <1>5 DEF NoSlot

\* A sliced block that is not vacant has an owner.
LEMMA OwnedBlock ==
    ASSUME TypeOK, OwnerInv, NEW b \in Sliced, bitmap[b] # AllFree, \A c, s : ~OldHas(c, s)
    PROVE  Owned
<1>1. bitmap[b] \subseteq Slice /\ b # 0
  BY SlicedIs, BlockNat DEF TypeOK, BlockTypeOK
<1>2. PICK s \in Slice : s \notin bitmap[b]
  BY <1>1 DEF AllFree
<1>3. PICK f \in Files : HasL(f, b, s)
  BY <1>2 DEF OwnerInv, IsTaken
<1> QED
  BY <1>1, <1>3 DEF HasL, Has, Owned

LEMMA BlocksOwnedNext ==
    ASSUME NoFaults, TypeOK, TypeOK', StoreInv, OwnerInv, OwnerInv', InodesAgree, WriteFits,
           BlocksOwned, Next, ~TruncHarms
    PROVE  BlocksOwned'
<1>a. BlocksInv /\ ListInv /\ CallInv /\ SpotInv
  BY DEF StoreInv
<1>b. bno \in [Files -> 0..(NrBlocks - 1)] /\ linked \subseteq Files
  BY DEF TypeOK, InodeTypeOK
<1>1. CASE pc' \in {"scan", "walk"} \/ (pc' # "idle" /\ req'.move) \/ Owned' \/ oops'
  BY <1>1 DEF BlocksOwned
<1>2. CASE Call
  <2>1. pc = "idle" /\ Sliced' = Sliced /\ oops' = oops
    BY <1>2, <1>a, CallsWhenIdle, CallKeepsSliced
  <2>2. CASE ~Owned
    BY <2>1, <2>2 DEF BlocksOwned
  <2>3. CASE Owned
    <3>1. PICK g \in linked : bno[g] # 0
      BY <2>3 DEF Owned
    <3>2. CASE linked \subseteq linked' /\ bno'[g] = bno[g]
      BY <1>1, <3>1, <3>2 DEF Owned
    <3>3. ASSUME NEW f \in Files, Create(f) PROVE BlocksOwned'
      BY <1>b, <3>1, <3>2, <3>3 DEF Create
    <3>4. ASSUME NEW f \in Files, Unlink(f) \/ OpenTrunc(f) \/ OpenTruncError(f) PROVE BlocksOwned'
      BY <3>2, <3>4 DEF Unlink, OpenTrunc, OpenTruncError, inodevars, vars
    <3>5. ASSUME NEW f \in Files, NEW ki_pos \in Offsets, NEW count \in Counts,
                 WriteRefused(f, ki_pos, count)
          PROVE  BlocksOwned'
      BY <3>2, <3>5 DEF WriteRefused, inodevars, vars
    <3>6. ASSUME NEW f \in Files, NEW ki_pos \in Offsets, NEW count \in Counts, NEW append \in Appends,
                 \/ WriteNew(f, ki_pos, count, append)
                 \/ WriteInPlace(f, ki_pos, count, append)
                 \/ WriteInPlaceFault(f, ki_pos, count, append)
          PROVE  BlocksOwned'
      BY <3>2, <3>6 DEF WriteNew, WriteInPlace, WriteInPlaceFault, inodevars
    <3>7. ASSUME NEW f \in Files, NEW ki_pos \in Offsets, NEW count \in Counts, NEW append \in Appends,
                 WriteMove(f, ki_pos, count, append)
          PROVE  BlocksOwned'
      <4>1. \E size, user, tags : req' = WriteReq(f, size, 0, size, user, tags, TRUE)
        BY <3>7, Zenon DEF WriteMove
      <4>2. pc' = "start" /\ req'.move
        BY <3>7, <4>1 DEF WriteMove, WriteReq
      <4> QED
        BY <1>1, <4>2
    <3>8. CASE \/ \E b \in Block, c \in Contents \cup {ZeroContent} : OtherAlloc(b, c)
               \/ OtherAllocFails
               \/ \E b \in Block : OtherUnlink(b) \/ OtherTruncate(b)
      BY <3>2, <3>8 DEF OtherAlloc, OtherAllocFails, OtherUnlink, OtherTruncate, inodevars
    <3>9. \A f \in Files, ki_pos \in Offsets, count \in Counts, append \in Appends :
                ~WriteMoveLost(f, ki_pos, count, append)
      BY DEF NoFaults, WriteMoveLost
    <3> QED
      BY <1>2, <3>3, <3>4, <3>5, <3>6, <3>7, <3>8, <3>9 DEF Call
  <2> QED
    BY <2>2, <2>3
<1>3. CASE StartAtHead \/ StartAlloc \/ ScanNext \/ ScanAlloc \/ FreeSlices \/ WalkFree \/ WalkKeep
  BY <1>1, <1>3 DEF StartAtHead, StartAlloc, ScanNext, ScanAlloc, NoRoom, FreeSlices, WalkFree, WalkKeep
<1>4. CASE StartNoSpace \/ StartInitError
  BY <1>1, <1>4 DEF StartNoSpace, StartInitError, Oops
<1>5. CASE StartReadError
  <2>1. s_free_sliced_blocks >= NrBlocks /\ oops' = oops
    BY <1>5 DEF StartReadError, MayFail, NoFaults
  <2>2. s_free_sliced_blocks \notin Block \cup {0}
    BY <2>1, GeometryAssumption DEF Block
  <2>3. oops
    BY <1>a, <2>2, ListReadable
  <2> QED
    BY <1>1, <2>1, <2>3
<1>6. ~ScanReadError /\ ~ScanInitError
  <2>1. ~ScanInitError
    BY DEF ScanInitError, NoFaults
  <2>2. ASSUME ScanReadError PROVE FALSE
    <3>1. next[cur] \in Block /\ next[cur] >= NrBlocks
      BY <2>2, <1>a, ScanSees, SlicedIs DEF ScanReadError, NoRoom, MayFail, NoFaults
    <3> QED
      BY <3>1, GeometryAssumption DEF Block
  <2> QED
    BY <2>1, <2>2
<1>7. CASE ScanNoSpace
  <2>1. pc = "scan" /\ FailWrite /\ UNCHANGED linked /\ NoRoom
    BY <1>7 DEF ScanNoSpace, NoRoom
  <2>2. PICK w \in Files : w = req.f /\ w \in linked
    BY <1>a, <1>b, <2>1 DEF CallInv
  <2>3. CASE req.move
    <3>1. bno' = [bno EXCEPT ![w] = req.old_bno] /\ req.old_bno # 0
      BY <1>a, <2>1, <2>2, <2>3 DEF FailWrite, CallInv
    <3>2. bno'[w] # 0 /\ w \in linked'
      BY <1>b, <2>1, <2>2, <3>1
    <3> QED
      BY <1>1, <3>2 DEF Owned
  <2>4. CASE ~req.move
    <3>1. UNCHANGED <<bno, linked>>
      BY <2>1, <2>4 DEF FailWrite
    <3>2. cur \in Sliced
      BY <1>a, <2>1, ScanSees
    <3>3. bitmap[cur] # AllFree
      <4>1. req.size \in Nat
        BY <2>1 DEF TypeOK, CallTypeOK, Req
      <4>2. will_be_small(req.size)
        BY <2>1, <2>4 DEF WriteFits
      <4> QED
        BY <2>1, <4>1, <4>2, EmptyHasRoom DEF NoRoom
    <3>4. Owned
      BY <2>4, <3>2, <3>3, NoOld, OwnedBlock
    <3> QED
      BY <1>1, <3>1, <3>4 DEF Owned
  <2> QED
    BY <2>3, <2>4
<1>8. ASSUME NEW i \in Slice, ScanHit(i) PROVE BlocksOwned'
  <2>1. pc = "scan" /\ UNCHANGED linked
    BY <1>8 DEF ScanHit, FoundAt
  <2>2. PICK w \in Files : w = req.f /\ w \in linked
    BY <1>a, <1>b, <2>1 DEF CallInv
  <2>3. bno' = [bno EXCEPT ![w] = cur] /\ cur # 0
    BY <1>8, <1>a, <2>1, <2>2, ScanSees, BlockNat DEF ScanHit
  <2> QED
    BY <1>1, <1>b, <2>1, <2>2, <2>3 DEF Owned
<1>9. CASE FreeNothing
  <2>1. req.op = "unlink" /\ (bno[req.f] = 0 \/ num_slices[req.f] = 0) /\ req.f \in linked
    BY <1>9, <1>a, FreeNothingDrops
  <2>2. PICK w \in Files : w = req.f /\ bno[w] = 0
    BY <1>b, <2>1 DEF InodesAgree
  <2>3. /\ pc = "free" /\ ~req.move /\ UNCHANGED <<bfree_bitmap, other, oops>>
        /\ linked' = linked \ {w} /\ bno' = [bno EXCEPT ![w] = 0]
    BY <1>9, <1>a, <2>1, <2>2 DEF FreeNothing, DeleteReturns, CallInv, UnlinkLocals, sbvars
  <2>4. Sliced' = Sliced
    BY <2>3 DEF Sliced
  <2>5. CASE Owned
    <3>1. PICK g \in linked : bno[g] # 0
      BY <2>5 DEF Owned
    <3>2. g # w /\ g \in linked' /\ bno'[g] # 0
      BY <1>b, <2>2, <2>3, <3>1
    <3> QED
      BY <1>1, <3>2 DEF Owned
  <2>6. CASE ~Owned
    BY <2>3, <2>4, <2>6 DEF BlocksOwned
  <2> QED
    BY <2>5, <2>6
<1>10. CASE WalkEnd
  <2>1. pc = "walk" /\ cur = 0 /\ pc' = "idle" /\ UNCHANGED <<bfree_bitmap, other, bitmap, oops>>
    BY <1>10 DEF WalkEnd, DeleteReturns, Return, sbvars, blockvars
  <2>2. Sliced' = Sliced
    BY <2>1 DEF Sliced
  <2>3. \A b \in Sliced : bitmap[b] # AllFree
    BY <1>a, <2>1, EndOfWalk
  <2>4. ASSUME NEW b \in Sliced' PROVE Owned'
    <3>1. bitmap'[b] # AllFree
      BY <2>1, <2>2, <2>3
    <3>2. \A c, s : ~OldHas(c, s)'
      BY <2>1, NoOldNext
    <3>3. PICK s \in Slice : s \notin bitmap'[b]
      <4>1. bitmap'[b] \subseteq Slice
        BY <2>2, SlicedIs DEF TypeOK, BlockTypeOK
      <4> QED
        BY <3>1, <4>1 DEF AllFree
    <3>4. PICK f \in Files : HasL(f, b, s)'
      BY <3>2, <3>3 DEF OwnerInv, IsTaken
    <3> QED
      BY <2>2, <3>4, SlicedIs, BlockNat DEF HasL, Has, Owned
  <2> QED
    BY <1>1, <2>4 DEF BlocksOwned
<1>11. CASE WalkReadError
  <2>1. pc = "walk" /\ cur # 0 /\ cur >= NrBlocks /\ oops' = oops
    BY <1>11 DEF WalkReadError, MayFail, NoFaults
  <2>2. cur \notin Block \cup {0}
    BY <2>1, GeometryAssumption DEF Block
  <2>3. oops
    BY <1>a, <2>1, <2>2, ListReadable
  <2> QED
    BY <1>1, <2>1, <2>3
<1>12. \A i \in Slice : ~ScanHitNothing(i) /\ ~ScanFault(i)
  BY DEF NoFaults, ScanFault, ScanHitNothing, FoundAt, WriteFits
<1> QED
  BY <1>2, <1>3, <1>4, <1>5, <1>6, <1>7, <1>8, <1>9, <1>10, <1>11, <1>12 DEF Next, HandlerStep

SpaceInv == OwnerInv /\ InodesAgree /\ WriteFits /\ BlocksOwned

LEMMA SpaceInvInit == Init => SpaceInv
<1> SUFFICES ASSUME Init PROVE SpaceInv
  OBVIOUS
<1>1. Sliced = {}
  BY GeometryAssumption DEF Init, Sliced, Block
<1>2. InodesAgree /\ WriteFits
  BY DEF Init, InodesAgree, WriteFits
<1> QED
  BY <1>1, <1>2, OwnerInvInit DEF SpaceInv, BlocksOwned

LEMMA SpaceStutter ==
    ASSUME TypeOK, UNCHANGED vars, OwnerInv, BlocksOwned
    PROVE  OwnerInv' /\ BlocksOwned'
<1>1. UNCHANGED <<bfree_bitmap, other, bitmap, linked, bno, slice_no, num_slices, pc, req, oops>>
  BY DEF vars, sbvars, blockvars, inodevars, callvars
<1>2. \A f : Holds(f)' = Holds(f)
  BY <1>1 DEF Holds, ExtentOf
<1>3. OldExtent' = OldExtent /\ Sliced' = Sliced
  BY <1>1 DEF OldExtent, Sliced
<1>4. /\ \A f, b, s : HasL(f, b, s)' <=> HasL(f, b, s)
      /\ \A b, s : OldHas(b, s)' <=> OldHas(b, s)
      /\ \A b, s : IsTaken(b, s)' <=> IsTaken(b, s)
  BY <1>1, <1>2, <1>3 DEF HasL, Has, OldHas, IsTaken
<1>5. OwnerInv'
  BY <1>4 DEF OwnerInv
<1>6. BlocksOwned'
  BY <1>1, <1>3 DEF BlocksOwned, Owned
<1> QED
  BY <1>5, <1>6

LEMMA SpaceInvNext ==
    ASSUME NoFaults
    PROVE  TypeOK /\ TypeOK' /\ StoreInv /\ SpaceInv /\ [Next]_vars /\ [~TruncHarms]_vars
             => StoreInv' /\ SpaceInv'
<1> SUFFICES ASSUME TypeOK, TypeOK', StoreInv, SpaceInv, [Next]_vars, [~TruncHarms]_vars
             PROVE  StoreInv' /\ SpaceInv'
  OBVIOUS
<1>a. OwnerInv /\ InodesAgree /\ WriteFits /\ BlocksOwned
  BY DEF SpaceInv
<1>1. InodesAgree' /\ WriteFits'
  BY <1>a, InodesAgreeNext, WriteFitsNext
<1>2. CASE UNCHANGED vars
  <2>1. StoreInv'
    BY <1>2, StoreInvNext
  <2> QED
    BY <1>2, <1>a, <1>1, <2>1, SpaceStutter DEF SpaceInv
<1>3. CASE Next /\ ~TruncHarms
  <2>1. pc \in {"start", "scan"} => req.count # 0
    BY <1>a DEF WriteFits
  <2>2. ~Harm
    BY <1>3, <2>1, NoFaultSteps DEF Harm
  <2>3. StoreInv'
    BY <1>3, <2>2, StoreInvNext
  <2>4. OwnerInv'
    BY <1>3, <1>a, <2>1, OwnerInvNext
  <2>5. BlocksOwned'
    BY <1>3, <1>a, <2>4, BlocksOwnedNext
  <2> QED
    BY <1>1, <2>3, <2>4, <2>5 DEF SpaceInv
<1> QED
  BY <1>2, <1>3

(* Without faults and with O_TRUNC doing no harm, between calls every slice *)
(* that is not marked free belongs to a file: neither a move, nor a write   *)
(* that finds the disk full, nor an unlink loses slices.                    *)
THEOREM SlicesDoNotLeak == NoFaults => (Spec /\ [][~TruncHarms]_vars => []NoSliceLeak)
<1> SUFFICES ASSUME NoFaults PROVE Spec /\ [][~TruncHarms]_vars => []NoSliceLeak
  OBVIOUS
<1>1. Init => StoreInv /\ SpaceInv
  BY StoreInvInit, SpaceInvInit
<1>2. TypeOK /\ TypeOK' /\ (StoreInv /\ SpaceInv) /\ [Next]_vars /\ [~TruncHarms]_vars
        => (StoreInv /\ SpaceInv)'
  BY SpaceInvNext
<1>3. StoreInv /\ SpaceInv => NoSliceLeak
  <2> SUFFICES ASSUME SpaceInv, pc = "idle", NEW b \in Sliced, NEW s \in Slice \ bitmap[b]
               PROVE  \E f \in linked : bno[f] = b /\ s \in ExtentOf(f)
    BY DEF NoSliceLeak
  <2>1. PICK f \in Files : HasL(f, b, s)
    BY NoOld DEF SpaceInv, OwnerInv, IsTaken
  <2> QED
    BY <2>1 DEF HasL, Has, Holds
<1> QED
  BY <1>1, <1>2, <1>3, TypeCorrect, PTL DEF Spec

(* Without faults and with O_TRUNC doing no harm, once no file has slices   *)
(* no sliced block is left: delete_slice's walk also gives back the blocks  *)
(* that a write added before it failed.                                     *)
THEOREM SpaceComesBack == NoFaults => (Spec /\ [][~TruncHarms]_vars => []SpaceReturned)
<1> SUFFICES ASSUME NoFaults PROVE Spec /\ [][~TruncHarms]_vars => []SpaceReturned
  OBVIOUS
<1>1. Init => StoreInv /\ SpaceInv
  BY StoreInvInit, SpaceInvInit
<1>2. TypeOK /\ TypeOK' /\ (StoreInv /\ SpaceInv) /\ [Next]_vars /\ [~TruncHarms]_vars
        => (StoreInv /\ SpaceInv)'
  BY SpaceInvNext
<1>3. StoreInv /\ SpaceInv => SpaceReturned
  BY DEF SpaceInv, BlocksOwned, Owned, SpaceReturned
<1> QED
  BY <1>1, <1>2, <1>3, TypeCorrect, PTL DEF Spec

-----------------------------------------------------------------------------
(* Whose bytes are where *)

\* Slices that are in use hold their file's bytes, slices that are not hold none.
ByteInv ==
    /\ \A f \in Files : \A b, s : HasL(f, b, s) => data[b][s] \subseteq {f}
    /\ \A b, s : OldHas(b, s) => data[b][s] \subseteq {req.f}
    /\ \A b \in Block, s \in Slice : b \in other \/ IsTaken(b, s) \/ data[b][s] = {}

\* The bytes of a file fit its slices.
SizesFit ==
    \A f \in Files : bno[f] # 0 /\ num_slices[f] # 0 => i_size[f] <= num_slices[f] * SliceSize

\* What a running write is about to copy is its file's, and fits the room it
\* looks for.
LocalsFit ==
    pc \in {"start", "scan"} =>
      /\ req.tags \subseteq {req.f} /\ req.pos + req.count <= req.size
      /\ req.move => req.old_size <= req.old_num_slices * SliceSize

\* Bytes below n * SliceSize are in the first n slices.
LEMMA TouchedIn ==
    ASSUME NEW s \in Nat, NEW pos \in Nat, NEW count \in Nat, NEW n \in Nat,
           pos + count <= n * SliceSize
    PROVE  Touched(s, pos, count) \subseteq s..(s + n - 1)
<1>1. CASE count = 0
  BY <1>1 DEF Touched
<1>2. CASE count # 0
  <2> DEFINE a == pos + count - 1
             p == pos \div SliceSize
             q == a \div SliceSize
  <2>1. SliceSize \in Nat \ {0} /\ a \in Nat /\ n * SliceSize \in Nat /\ a < n * SliceSize
    BY <1>2, GeometryAssumption
  <2>2. p \in Nat
    BY <2>1
  <2>3. q \in Nat /\ SliceSize * q <= a
    <3> HIDE DEF a
    <3> QED
      BY <2>1
  <2>4. Touched(s, pos, count) = (s + p)..(s + q)
    BY <1>2 DEF Touched
  <2> HIDE DEF a, p, q
  <2>5. q <= n - 1
    <3> SUFFICES ASSUME q >= n PROVE FALSE
      BY <2>3
    <3>1. SliceSize * q >= SliceSize * n /\ SliceSize * n = n * SliceSize
      BY <2>1, <2>3
    <3> QED
      BY <2>1, <2>3, <3>1
  <2> QED
    BY <2>2, <2>3, <2>4, <2>5
<1> QED
  BY <1>1, <1>2

\* A file's bytes are in the slices it holds, and they are its own.
LEMMA OwnBytes ==
    ASSUME TypeOK, ByteInv, SizesFit, NEW f \in linked, bno[f] # 0, Holds(f) # {},
           NEW s \in Touched(slice_no[f], 0, i_size[f]) \cap Slice
    PROVE  data[bno[f]][s] \subseteq {f}
<1>1. /\ f \in Files /\ slice_no[f] \in Nat /\ num_slices[f] \in Nat /\ i_size[f] \in Nat
  BY GeometryAssumption DEF TypeOK, InodeTypeOK
<1>2. Holds(f) = slice_no[f]..(slice_no[f] + num_slices[f] - 1)
  BY DEF Holds, ExtentOf
<1>3. num_slices[f] # 0
  BY <1>1, <1>2
<1>4. 0 + i_size[f] <= num_slices[f] * SliceSize
  BY <1>1, <1>3 DEF SizesFit
<1>5. s \in Holds(f)
  BY <1>1, <1>2, <1>4, TouchedIn
<1>6. HasL(f, bno[f], s)
  BY <1>5 DEF HasL, Has
<1> QED
  BY <1>1, <1>6 DEF ByteInv

\* Steps that copy and scrub nothing.
LEMMA BytesStay ==
    ASSUME ByteInv, UNCHANGED <<data, other>>, \A b, s : IsTaken(b, s) => IsTaken(b, s)',
           \/ KeepHolders /\ ((\E b, s : OldHas(b, s)) => req'.f = req.f)
           \/ DropOld
           \/ \E w \in Files : \/ MoveOut(w) /\ req'.f = w
                               \/ MoveBack(w) /\ req.f = w
                               \/ DropFile(w)
    PROVE  ByteInv'
<1>0. \A b \in Block, s \in Slice : b \in other' \/ IsTaken(b, s)' \/ data'[b][s] = {}
  BY DEF ByteInv
<1>1. CASE KeepHolders /\ ((\E b, s : OldHas(b, s)) => req'.f = req.f)
  <2>1. \A f \in Files : \A b, s : HasL(f, b, s)' => data'[b][s] \subseteq {f}
    BY <1>1 DEF ByteInv, KeepHolders
  <2>2. \A b, s : OldHas(b, s)' => data'[b][s] \subseteq {req'.f}
    BY <1>1 DEF ByteInv, KeepHolders
  <2> QED
    BY <1>0, <2>1, <2>2 DEF ByteInv
<1>2. CASE DropOld
  BY <1>0, <1>2 DEF ByteInv, DropOld
<1>3. ASSUME NEW w \in Files, MoveOut(w), req'.f = w PROVE ByteInv'
  <2>1. \A f \in Files : \A b, s : HasL(f, b, s)' => data'[b][s] \subseteq {f}
    BY <1>3 DEF ByteInv, MoveOut
  <2>2. \A b, s : OldHas(b, s)' => data'[b][s] \subseteq {req'.f}
    BY <1>3 DEF ByteInv, MoveOut
  <2> QED
    BY <1>0, <2>1, <2>2 DEF ByteInv
<1>4. ASSUME NEW w \in Files, MoveBack(w), req.f = w PROVE ByteInv'
  <2>1. \A f \in Files : \A b, s : HasL(f, b, s)' => data'[b][s] \subseteq {f}
    BY <1>4 DEF ByteInv, MoveBack
  <2> QED
    BY <1>0, <1>4, <2>1 DEF ByteInv, MoveBack
<1>5. ASSUME NEW w \in Files, DropFile(w) PROVE ByteInv'
  BY <1>0, <1>5 DEF ByteInv, DropFile
<1> QED
  BY <1>1, <1>2, <1>3, <1>4, <1>5

\* What a copy leaves in a slice.
LEMMA CopiedBytes ==
    ASSUME TypeOK, NEW c \in Block, NEW T, NEW tags, data' = CopyIn(c, T, tags)
    PROVE  /\ \A b \in Block, s \in Slice : ~(b = c /\ s \in T) => data'[b][s] = data[b][s]
           /\ \A s \in Slice : s \in T => data'[c][s] = data[c][s] \cup tags
<1>1. data \in [Block -> [Slice -> SUBSET (Files \cup {"stale"})]]
  BY DEF TypeOK, BlockTypeOK
<1>2. data' = [data EXCEPT ![c] = [s \in Slice |-> IF s \in T THEN data[c][s] \cup tags ELSE data[c][s]]]
  BY DEF CopyIn
<1>3. data'[c] = [s \in Slice |-> IF s \in T THEN data[c][s] \cup tags ELSE data[c][s]]
  BY <1>1, <1>2
<1>4. \A b \in Block : b # c => data'[b] = data[b]
  BY <1>1, <1>2
<1> QED
  BY <1>3, <1>4

\* A file is written where it is.
LEMMA BytesInPlace ==
    ASSUME TypeOK, SpotInv, ByteInv, KeepHolders, SameTaken, UNCHANGED other, NEW w \in Files,
           NEW c \in Block, NEW T, \A s \in T : HasL(w, c, s),
           data' = CopyIn(c, T, {w}), \A b, s : ~OldHas(b, s)
    PROVE  ByteInv'
<1>0. \A b, s : IsTaken(b, s) => b \in Block /\ s \in Slice
  BY SlicedIs DEF IsTaken
<1>1. /\ \A f \in Files : \A b, s : HasL(f, b, s) => IsTaken(b, s)
      /\ \A f, g \in Files : \A b, s : HasL(f, b, s) /\ HasL(g, b, s) => f = g
  BY DEF SpotInv, HasL
<1>2. /\ \A b \in Block, s \in Slice : ~(b = c /\ s \in T) => data'[b][s] = data[b][s]
      /\ \A s \in Slice : s \in T => data'[c][s] = data[c][s] \cup {w}
  BY CopiedBytes
<1>3. \A b, s : ~OldHas(b, s)'
  BY DEF KeepHolders
<1>4. ASSUME NEW f \in Files, NEW b, NEW s, HasL(f, b, s)' PROVE data'[b][s] \subseteq {f}
  <2>1. HasL(f, b, s) /\ b \in Block /\ s \in Slice
    BY <1>0, <1>1, <1>4 DEF KeepHolders
  <2>2. data[b][s] \subseteq {f}
    BY <2>1 DEF ByteInv
  <2>3. CASE b = c /\ s \in T
    <3>1. f = w
      BY <1>1, <2>1, <2>3
    <3> QED
      BY <1>2, <2>1, <2>2, <2>3, <3>1
  <2>4. CASE ~(b = c /\ s \in T)
    BY <1>2, <2>1, <2>2, <2>4
  <2> QED
    BY <2>3, <2>4
<1>5. ASSUME NEW b \in Block, NEW s \in Slice, b \notin other', ~IsTaken(b, s)' PROVE data'[b][s] = {}
  <2>1. ~IsTaken(b, s) /\ data[b][s] = {}
    BY <1>5 DEF SameTaken, ByteInv
  <2>2. ~(b = c /\ s \in T)
    BY <1>1, <2>1
  <2> QED
    BY <1>2, <2>1, <2>2
<1> QED
  BY <1>3, <1>4, <1>5 DEF ByteInv

\* A file is given new slices, which held nothing.
LEMMA BytesClaimed ==
    ASSUME TypeOK, SpotInv, ByteInv, UNCHANGED other, NEW w \in Files, NEW c \in Block, NEW N, NEW T,
           Claims(w, c, N), T \subseteq N, NEW tags, tags \subseteq {w}, data' = CopyIn(c, T, tags),
           c \notin other, (\E b, s : OldHas(b, s)) => req'.f = req.f
    PROVE  ByteInv'
<1>0. \A b, s : IsTaken(b, s) => b \in Block /\ s \in Slice
  BY SlicedIs DEF IsTaken
<1>1. /\ \A f \in Files : \A b, s : HasL(f, b, s) => IsTaken(b, s)
      /\ \A b, s : OldHas(b, s) => IsTaken(b, s)
      /\ \A s \in N : s \in Slice /\ ~IsTaken(c, s)
  BY DEF SpotInv, HasL, Claims
<1>2. /\ \A b \in Block, s \in Slice : ~(b = c /\ s \in T) => data'[b][s] = data[b][s]
      /\ \A s \in Slice : s \in T => data'[c][s] = data[c][s] \cup tags
  BY CopiedBytes
<1>3. ASSUME NEW b, NEW s, IsTaken(b, s) PROVE data'[b][s] = data[b][s]
  BY <1>0, <1>1, <1>2, <1>3
<1>4. \A s \in N : data'[c][s] \subseteq {w}
  <2>1. \A s \in N : data[c][s] = {}
    BY <1>1 DEF ByteInv
  <2> QED
    BY <1>1, <1>2, <2>1
<1>5. ASSUME NEW f \in Files, NEW b, NEW s, HasL(f, b, s)' PROVE data'[b][s] \subseteq {f}
  <2>1. CASE HasL(f, b, s)
    BY <1>1, <1>3, <2>1 DEF ByteInv
  <2>2. CASE f = w /\ b = c /\ s \in N
    BY <1>4, <2>2
  <2> QED
    BY <1>5, <2>1, <2>2 DEF Claims
<1>6. ASSUME NEW b, NEW s, OldHas(b, s)' PROVE data'[b][s] \subseteq {req'.f}
  <2>1. OldHas(b, s)
    BY <1>6 DEF Claims
  <2> QED
    BY <1>1, <1>3, <2>1 DEF ByteInv
<1>7. ASSUME NEW b \in Block, NEW s \in Slice, b \notin other', ~IsTaken(b, s)' PROVE data'[b][s] = {}
  <2>1. ~IsTaken(b, s) /\ ~(b = c /\ s \in N)
    BY <1>7 DEF Claims
  <2> QED
    BY <1>2, <1>7, <2>1 DEF ByteInv
<1> QED
  BY <1>5, <1>6, <1>7 DEF ByteInv

\* A first write faults: its slices stay taken and nobody's.
LEMMA BytesFaulted ==
    ASSUME TypeOK, SpotInv, ByteInv, UNCHANGED other, NEW c \in Block, NEW N, NEW T,
           KeepHolders, \A s \in N : ~IsTaken(c, s),
           \A b, s : IsTaken(b, s)' <=> IsTaken(b, s) \/ (b = c /\ s \in N),
           T \subseteq N, NEW tags, data' = CopyIn(c, T, tags), \A b, s : ~OldHas(b, s)'
    PROVE  ByteInv'
<1>0. \A b, s : IsTaken(b, s) => b \in Block /\ s \in Slice
  BY SlicedIs DEF IsTaken
<1>1. \A f \in Files : \A b, s : HasL(f, b, s) => IsTaken(b, s)
  BY DEF SpotInv, HasL
<1>2. \A b \in Block, s \in Slice : ~(b = c /\ s \in T) => data'[b][s] = data[b][s]
  BY CopiedBytes
<1>3. ASSUME NEW f \in Files, NEW b, NEW s, HasL(f, b, s)' PROVE data'[b][s] \subseteq {f}
  <2>1. HasL(f, b, s) /\ IsTaken(b, s)
    BY <1>1, <1>3 DEF KeepHolders
  <2> QED
    BY <1>0, <1>2, <2>1 DEF ByteInv
<1>4. ASSUME NEW b \in Block, NEW s \in Slice, b \notin other', ~IsTaken(b, s)' PROVE data'[b][s] = {}
  BY <1>2, <1>4 DEF ByteInv
<1> QED
  BY <1>3, <1>4 DEF ByteInv

\* Slices are zeroed: those given up, or a whole block that is not in use.
LEMMA BytesZeroed ==
    ASSUME TypeOK, ByteInv, \A b \in Block, s \in Slice : data'[b][s] \in {data[b][s], {}},
           SpotInv, \A f \in Files : \A b, s : HasL(f, b, s)' => HasL(f, b, s),
           \A b, s : ~OldHas(b, s)',
           \A b \in Block, s \in Slice :
              \/ b \in other' \/ IsTaken(b, s)' \/ data'[b][s] = {}
              \/ data'[b][s] = data[b][s] /\ ~IsTaken(b, s) /\ b \notin other
    PROVE  ByteInv'
<1>0. \A b, s : IsTaken(b, s) => b \in Block /\ s \in Slice
  BY SlicedIs DEF IsTaken
<1>1. \A f \in Files : \A b, s : HasL(f, b, s) => IsTaken(b, s)
  BY DEF SpotInv, HasL
<1>2. ASSUME NEW f \in Files, NEW b, NEW s, HasL(f, b, s)' PROVE data'[b][s] \subseteq {f}
  <2>1. HasL(f, b, s) /\ b \in Block /\ s \in Slice
    BY <1>0, <1>1, <1>2
  <2>2. data[b][s] \subseteq {f} /\ data'[b][s] \in {data[b][s], {}}
    BY <2>1 DEF ByteInv
  <2> QED
    BY <2>2
<1>3. \A b \in Block, s \in Slice : b \in other' \/ IsTaken(b, s)' \/ data'[b][s] = {}
  BY DEF ByteInv
<1> QED
  BY <1>2, <1>3 DEF ByteInv

\* The bytes a write in place touches are in the file's own slices.
LEMMA InPlaceTouches ==
    ASSUME TypeOK, pc = "idle", NEW f \in linked, bno[f] # 0, num_slices[f] # 0,
           NEW pos \in Nat, NEW count \in Nat, NEW size \in Nat, pos + count <= size,
           num_slices[f] = NumSlices(size), NEW copied \in Nat, copied <= count
    PROVE  \A s \in Touched(slice_no[f], pos, copied) : HasL(f, bno[f], s)
<1>1. f \in Files /\ slice_no[f] \in Nat /\ num_slices[f] \in Nat
  BY GeometryAssumption DEF TypeOK, InodeTypeOK
<1>2. size <= num_slices[f] * SliceSize
  BY SlicesHold
<1>3. num_slices[f] * SliceSize \in Nat
  BY <1>1, GeometryAssumption
<1>4. pos + copied <= num_slices[f] * SliceSize
  BY <1>2, <1>3
<1>5. Touched(slice_no[f], pos, copied) \subseteq slice_no[f]..(slice_no[f] + num_slices[f] - 1)
  BY <1>1, <1>4, TouchedIn
<1> QED
  BY <1>5 DEF HasL, Has, Holds, ExtentOf

LEMMA ByteInvOther ==
    ASSUME TypeOK, BlocksInv, SpotInv, ByteInv, ~TruncHarms, Call, KeepHolders, pc = "idle",
           \/ \E b \in Block, c \in Contents \cup {ZeroContent} : OtherAlloc(b, c)
           \/ \E b \in Block : OtherUnlink(b) \/ OtherTruncate(b)
    PROVE  ByteInv'
<1>a. data \in [Block -> [Slice -> SUBSET (Files \cup {"stale"})]]
  BY DEF TypeOK, BlockTypeOK
<1>b. SameTaken
  BY TakenCall
<1>c. \A b, s : ~OldHas(b, s) /\ ~OldHas(b, s)'
  BY NoOld DEF KeepHolders
<1>d. \A f \in Files : \A b, s : HasL(f, b, s) => b \in Sliced /\ b \in Block /\ s \in Slice
  BY SlicedIs DEF SpotInv, HasL, IsTaken
<1>1. ASSUME NEW b \in Block, NEW c \in Contents \cup {ZeroContent}, OtherAlloc(b, c) PROVE ByteInv'
  <2>1. b \notin Sliced
    BY <1>1, FreshBlock DEF OtherAlloc
  <2>2. other' = other \cup {b} /\ \A d \in Block : d # b => data'[d] = data[d]
    BY <1>1, <1>a DEF OtherAlloc, SetContent
  <2>3. ASSUME NEW f \in Files, NEW d, NEW s, HasL(f, d, s)' PROVE data'[d][s] \subseteq {f}
    <3>1. HasL(f, d, s) /\ d # b /\ d \in Block
      BY <1>d, <2>1, <2>3 DEF KeepHolders
    <3>2. data'[d] = data[d] /\ data[d][s] \subseteq {f}
      BY <2>2, <3>1 DEF ByteInv
    <3> QED
      BY <3>2
  <2>4. ASSUME NEW d \in Block, NEW s \in Slice PROVE d \in other' \/ IsTaken(d, s)' \/ data'[d][s] = {}
    <3>1. CASE d = b
      BY <2>2, <3>1
    <3>2. CASE d # b
      BY <1>b, <2>2, <3>2 DEF ByteInv, SameTaken
    <3> QED
      BY <3>1, <3>2
  <2> QED
    BY <1>c, <2>3, <2>4 DEF ByteInv
<1>2. ASSUME NEW b \in Block, OtherUnlink(b) \/ OtherTruncate(b) PROVE ByteInv'
  <2>1. other' = other \ {b} /\ b \in other /\ b \notin Sliced
    BY <1>2 DEF OtherUnlink, OtherTruncate, Sliced
  <2>2. (\A s \in Slice : data'[b][s] = {}) /\ \A d \in Block : d # b => data'[d] = data[d]
    <3>1. CASE OtherUnlink(b)
      BY <1>a, <3>1 DEF OtherUnlink, SetContent
    <3>2. CASE OtherTruncate(b)
      <4>1. Cleared(b)
        BY <3>2 DEF TruncHarms, Unscrubbed
      <4> QED
        BY <3>2, <4>1 DEF OtherTruncate, blockvars, Cleared
    <3> QED
      BY <1>2, <3>1, <3>2
  <2>3. ASSUME NEW f \in Files, NEW d, NEW s, HasL(f, d, s)' PROVE data'[d][s] \subseteq {f}
    <3>1. HasL(f, d, s) /\ d # b /\ d \in Block
      BY <1>d, <2>1, <2>3 DEF KeepHolders
    <3>2. data'[d] = data[d] /\ data[d][s] \subseteq {f}
      BY <2>2, <3>1 DEF ByteInv
    <3> QED
      BY <3>2
  <2>4. ASSUME NEW d \in Block, NEW s \in Slice PROVE d \in other' \/ IsTaken(d, s)' \/ data'[d][s] = {}
    <3>1. CASE d = b
      BY <2>2, <3>1
    <3>2. CASE d # b
      BY <1>b, <2>1, <2>2, <3>2 DEF ByteInv, SameTaken
    <3> QED
      BY <3>1, <3>2
  <2> QED
    BY <1>c, <2>3, <2>4 DEF ByteInv
<1> QED
  BY <1>1, <1>2

\* The calls that touch no bytes.
LEMMA QuietBytes ==
    ASSUME Call, ~TruncHarms
    PROVE  \/ UNCHANGED <<data, other>>
           \/ \E f \in Files, ki_pos \in Offsets, count \in Counts, append \in Appends :
                WriteInPlace(f, ki_pos, count, append) \/ WriteInPlaceFault(f, ki_pos, count, append)
           \/ \E b \in Block, c \in Contents \cup {ZeroContent} : OtherAlloc(b, c)
           \/ \E b \in Block : OtherUnlink(b) \/ OtherTruncate(b)
<1>1. ASSUME NEW f \in Files, Create(f) \/ Unlink(f) \/ OpenTrunc(f) \/ OpenTruncError(f)
      PROVE  UNCHANGED <<data, other>>
  BY <1>1 DEF Create, Unlink, OpenTrunc, OpenTruncError, blockvars, vars
<1>2. ASSUME NEW f \in Files, NEW ki_pos \in Offsets, NEW count \in Counts,
             WriteRefused(f, ki_pos, count)
      PROVE  UNCHANGED <<data, other>>
  BY <1>2 DEF WriteRefused, blockvars, vars
<1>3. ASSUME NEW f \in Files, NEW ki_pos \in Offsets, NEW count \in Counts, NEW append \in Appends,
             \/ WriteNew(f, ki_pos, count, append)
             \/ WriteMove(f, ki_pos, count, append)
             \/ WriteMoveLost(f, ki_pos, count, append)
      PROVE  UNCHANGED <<data, other>>
  BY <1>3 DEF WriteNew, WriteMove, WriteMoveLost, blockvars
<1>4. ASSUME OtherAllocFails PROVE UNCHANGED <<data, other>>
  BY <1>4 DEF OtherAllocFails, blockvars
<1> QED
  BY <1>1, <1>2, <1>3, <1>4 DEF Call

\* Reading the size arithmetic of a write.
LEMMA NewSizeCovers ==
    ASSUME i_size \in [Files -> Nat], NEW f \in Files, NEW ki_pos \in Offsets, NEW count \in Counts, NEW append
    PROVE  /\ StartsAt(f, ki_pos, append) \in Nat /\ count \in Nat
           /\ NewSize(f, StartsAt(f, ki_pos, append), count) \in Nat
           /\ StartsAt(f, ki_pos, append) + count <= NewSize(f, StartsAt(f, ki_pos, append), count)
<1>1. ki_pos \in Nat /\ count \in Nat /\ i_size[f] \in Nat
  BY InputAssumption
<1>2. StartsAt(f, ki_pos, append) \in Nat
  BY <1>1 DEF StartsAt
<1> QED
  BY <1>1, <1>2 DEF NewSize, MaxOf

LEMMA ByteInvCall ==
    ASSUME TypeOK, StoreInv, ByteInv, ~TruncHarms, Call
    PROVE  ByteInv'
<1>a. BlocksInv /\ ListInv /\ CallInv /\ SpotInv
  BY DEF StoreInv
<1>b. pc = "idle" /\ SameTaken /\ \A b, s : ~OldHas(b, s)
  BY <1>a, CallsWhenIdle, TakenCall, NoOld
<1>c. i_size \in [Files -> Nat] /\ linked \subseteq Files /\ bno \in [Files -> 0..(NrBlocks - 1)]
  BY DEF TypeOK, InodeTypeOK
<1>1. CASE UNCHANGED <<data, other>>
  <2>1. \/ KeepHolders \/ \E w \in Files : (MoveOut(w) /\ req'.f = w) \/ DropFile(w)
    BY HoldersCall
  <2>2. \A b, s : IsTaken(b, s) => IsTaken(b, s)'
    BY <1>b DEF SameTaken
  <2> QED
    BY <1>1, <1>b, <2>1, <2>2, BytesStay
<1>2. ASSUME NEW f \in Files, NEW ki_pos \in Offsets, NEW count \in Counts, NEW append \in Appends,
             WriteInPlace(f, ki_pos, count, append) \/ WriteInPlaceFault(f, ki_pos, count, append)
      PROVE  ByteInv'
  <2>1. /\ f \in linked /\ bno[f] # 0 /\ num_slices[f] # 0
        /\ num_slices[f] = NumSlices(NewSize(f, StartsAt(f, ki_pos, append), count))
        /\ pc' = "idle" /\ UNCHANGED <<linked, bno, slice_no, num_slices, other>>
    BY <1>2, <1>b DEF WriteInPlace, WriteInPlaceFault, MayWrite, callvars, inodevars
  <2>2. PICK pos \in Nat, size \in Nat :
               /\ pos = StartsAt(f, ki_pos, append) /\ size = NewSize(f, pos, count)
               /\ pos + count <= size
    BY <1>c, NewSizeCovers
  <2>3. count \in Nat
    BY InputAssumption
  <2>4. PICK copied \in Nat : copied <= count /\ data' = CopyIn(bno[f], Touched(slice_no[f], pos, copied), {f})
    <3>1. CASE WriteInPlace(f, ki_pos, count, append)
      BY <2>2, <2>3, <3>1 DEF WriteInPlace
    <3>2. CASE WriteInPlaceFault(f, ki_pos, count, append)
      BY <2>2, <2>3, <3>2 DEF WriteInPlaceFault
    <3> QED
      BY <1>2, <3>1, <3>2
  <2> DEFINE T == Touched(slice_no[f], pos, copied)
  <2>5. \A s \in T : HasL(f, bno[f], s)
    BY <1>b, <2>1, <2>2, <2>3, <2>4, InPlaceTouches
  <2>6. KeepHolders
    BY <1>b, <2>1, SameHas, NoOldNext DEF KeepHolders
  <2>7. bno[f] \in Block
    BY <1>c, <2>1 DEF Block
  <2> QED
    BY <1>a, <1>b, <2>1, <2>4, <2>5, <2>6, <2>7, BytesInPlace
<1>3. CASE \/ \E b \in Block, c \in Contents \cup {ZeroContent} : OtherAlloc(b, c)
           \/ \E b \in Block : OtherUnlink(b) \/ OtherTruncate(b)
  <2>1. UNCHANGED <<linked, bno, slice_no, num_slices>> /\ pc' = "idle"
    BY <1>3, <1>b DEF OtherAlloc, OtherUnlink, OtherTruncate, inodevars, callvars
  <2>2. KeepHolders
    BY <1>b, <2>1, SameHas, NoOldNext DEF KeepHolders
  <2> QED
    BY <1>3, <1>a, <1>b, <2>2, ByteInvOther
<1> QED
  BY <1>1, <1>2, <1>3, QuietBytes

LEMMA ByteInvHandler ==
    ASSUME TypeOK, StoreInv, ByteInv, LocalsFit, ~MoveFaults, HandlerStep
    PROVE  ByteInv'
<1>a. BlocksInv /\ ListInv /\ CallInv /\ SpotInv
  BY DEF StoreInv
<1>b. /\ data \in [Block -> [Slice -> SUBSET (Files \cup {"stale"})]] /\ linked \subseteq Files
      /\ bitmap \in [Block -> SUBSET Slice]
  BY DEF TypeOK, InodeTypeOK, BlockTypeOK
<1>c. ASSUME SameTaken PROVE \A b, s : IsTaken(b, s) => IsTaken(b, s)'
  BY <1>c DEF SameTaken
<1>d. \A f \in Files : \A b, s : HasL(f, b, s) => IsTaken(b, s)
  BY <1>a DEF SpotInv, HasL
<1>1. CASE StartAtHead \/ StartAlloc \/ ScanNext \/ ScanAlloc \/ WalkKeep \/ WalkEnd \/ WalkReadError
  <2>1. UNCHANGED <<data, other>>
    BY <1>1 DEF StartAtHead, StartAlloc, ScanNext, ScanAlloc, WalkKeep, WalkEnd, WalkReadError, blockvars
  <2>2. KeepHolders /\ SameTaken
    BY <1>1, <1>a, HoldersHandler, TakenHandler
  <2>3. (\E b, s : OldHas(b, s)) => req'.f = req.f
    <3>1. CASE pc = "walk"
      BY <3>1, NoOld
    <3>2. CASE pc # "walk"
      BY <1>1, <3>2 DEF StartAtHead, StartAlloc, ScanNext, ScanAlloc, WalkKeep, WalkEnd, WalkReadError
    <3> QED
      BY <3>1, <3>2
  <2> QED
    BY <1>c, <2>1, <2>2, <2>3, BytesStay
<1>2. CASE StartReadError \/ ScanReadError \/ ScanNoSpace \/ ScanInitError
  <2>1. UNCHANGED <<data, other>>
    BY <1>2 DEF StartReadError, ScanReadError, ScanNoSpace, ScanInitError, blockvars
  <2>2. req.f \in Files /\ MoveBack(req.f) /\ SameTaken
    BY <1>2, <1>a, HoldersHandler, TakenHandler
  <2> QED
    BY <1>c, <2>1, <2>2, BytesStay
<1>3. CASE StartNoSpace \/ StartInitError
  <2>1. UNCHANGED <<data, other>>
    BY <1>3 DEF StartNoSpace, StartInitError, blockvars
  <2>2. DropOld /\ SameTaken
    BY <1>3, <1>a, HoldersHandler, TakenHandler
  <2> QED
    BY <1>c, <2>1, <2>2, BytesStay
<1>4. CASE FreeNothing
  <2>1. UNCHANGED <<data, other>>
    BY <1>4 DEF FreeNothing, blockvars
  <2>2. (DropOld \/ \E w \in Files : DropFile(w)) /\ SameTaken
    BY <1>4, <1>a, HoldersHandler, TakenHandler
  <2> QED
    BY <1>c, <2>1, <2>2, BytesStay
<1>5. ASSUME NEW i \in Slice, ScanHitNothing(i) PROVE ByteInv'
  <2>1. UNCHANGED <<data, other>>
    BY <1>5 DEF ScanHitNothing
  <2>2. DropOld /\ SameTaken
    BY <1>5, <1>a, HoldersNothing
  <2> QED
    BY <1>c, <2>1, <2>2, BytesStay
<1>6. ASSUME NEW i \in Slice, FoundAt(i), NEW copied \in Nat, copied <= req.count
      PROVE  /\ Touched(i, req.pos, copied) \subseteq NewSlices(i)
             /\ cur \in Block /\ cur \notin other /\ req.f \in Files /\ req.tags \subseteq {req.f}
  <2>1. pc = "scan" /\ req \in Req
    BY <1>6 DEF FoundAt, TypeOK, CallTypeOK
  <2>2. req.f \in Files /\ req.pos \in Nat /\ req.count \in Nat /\ req.size \in Nat
    BY <2>1 DEF Req
  <2>3. req.tags \subseteq {req.f} /\ req.pos + req.count <= req.size
    BY <2>1 DEF LocalsFit
  <2>4. req.size <= NumSlices(req.size) * SliceSize /\ NumSlices(req.size) \in Nat
    BY <2>2, SlicesHold
  <2>5. NumSlices(req.size) * SliceSize \in Nat
    BY <2>4, GeometryAssumption
  <2>6. req.pos + copied <= NumSlices(req.size) * SliceSize
    BY <1>6, <2>2, <2>3, <2>4, <2>5
  <2>7. i \in Nat
    BY GeometryAssumption DEF Slice
  <2>8. Touched(i, req.pos, copied) \subseteq NewSlices(i)
    BY <2>2, <2>4, <2>6, <2>7, TouchedIn DEF NewSlices
  <2> QED
    BY <1>a, <2>1, <2>2, <2>3, <2>8, ScanSees, SlicedIs
<1>7. ASSUME NEW i \in Slice, ScanHit(i) PROVE ByteInv'
  <2>1. /\ FoundAt(i) /\ data' = CopyIn(cur, Touched(i, req.pos, req.count), req.tags)
        /\ UNCHANGED other /\ (req.move => req' = req)
    BY <1>7 DEF ScanHit
  <2>2. req.count \in Nat
    BY <2>1 DEF FoundAt, TypeOK, CallTypeOK, Req
  <2>3. PICK w \in Files : w = req.f
    BY <1>6, <2>1, <2>2
  <2>4. Claims(w, cur, NewSlices(i))
    BY <1>7, <1>a, <2>3, HoldersHit
  <2>5. (\E b, s : OldHas(b, s)) => req'.f = req.f
    BY <2>1, NoOld
  <2>6. /\ Touched(i, req.pos, req.count) \subseteq NewSlices(i)
        /\ cur \in Block /\ cur \notin other /\ req.tags \subseteq {w}
    BY <1>6, <2>1, <2>2, <2>3
  <2> QED
    BY <1>a, <2>1, <2>4, <2>5, <2>6, BytesClaimed
<1>8. ASSUME NEW i \in Slice, ScanFault(i) PROVE ByteInv'
  <2>1. ~req.move /\ FoundAt(i) /\ ClaimSlices(i) /\ UNCHANGED <<other, bfree_bitmap>> /\ pc' = "idle"
    BY <1>8 DEF MoveFaults, ScanFault, FailWrite, Return, sbvars
  <2>2. req.count \in Nat
    BY <2>1 DEF FoundAt, TypeOK, CallTypeOK, Req
  <2>3. PICK copied \in Nat : copied <= req.count /\ data' = CopyIn(cur, Touched(i, req.pos, copied), req.tags)
    BY <1>8, <2>2 DEF ScanFault
  <2>4. KeepHolders
    BY <1>8, <1>a, <2>1, HoldersFault
  <2>5. /\ \A s \in NewSlices(i) : ~IsTaken(cur, s)
        /\ \A b, s : IsTaken(b, s)' <=> IsTaken(b, s) \/ (b = cur /\ s \in NewSlices(i))
    BY <1>a, <2>1, TakenClaim
  <2>6. Touched(i, req.pos, copied) \subseteq NewSlices(i) /\ cur \in Block
    BY <1>6, <2>1, <2>3
  <2>7. \A b, s : ~OldHas(b, s)'
    BY <2>1, NoOldNext
  <2> QED
    BY <1>a, <2>1, <2>3, <2>4, <2>5, <2>6, <2>7, BytesFaulted
<1>9. CASE FreeSlices
  <2>1. /\ req.op = "unlink" => req.f \in Files /\ FreesFile(req.f)
        /\ req.op # "unlink" => FreesOld
        /\ req.old_bno \in Block
        /\ OldSlices = req.old_slice_no..(req.old_slice_no + req.old_num_slices - 1)
    BY <1>9, <1>a, HoldersFree
  <2>2. pc = "free" /\ UNCHANGED other /\ ZeroOldSlices
    BY <1>9 DEF FreeSlices
  <2>3. /\ \A b \in Block : b # req.old_bno => data'[b] = data[b]
        /\ \A s \in Slice : s \notin OldSlices => data'[req.old_bno][s] = data[req.old_bno][s]
        /\ \A s \in Slice : s \in OldSlices => data'[req.old_bno][s] = {}
    BY <1>b, <2>1, <2>2 DEF ZeroOldSlices
  <2>4. \A b \in Block, s \in Slice : data'[b][s] \in {data[b][s], {}}
    BY <2>3
  <2>5. ASSUME NEW b \in Block, NEW s \in Slice, b = req.old_bno, s \in OldSlices
        PROVE  data'[b][s] = {}
    BY <2>3, <2>5
  <2>6. CASE req.op = "unlink"
    <3>1. PICK w \in Files : w = req.f /\ FreesFile(w)
      BY <2>1, <2>6
    <3>2. \A b, s : HasL(w, b, s) => b = req.old_bno /\ s \in OldSlices
      <4>1. UnlinkLocals
        BY <1>a, <2>2, <2>6 DEF CallInv
      <4> QED
        BY <2>1, <2>2, <3>1, <4>1 DEF HasL, Has, Holds, ExtentOf, UnlinkLocals
    <3>3. \A b \in Block, s \in Slice :
              \/ b \in other' \/ IsTaken(b, s)' \/ data'[b][s] = {}
              \/ data'[b][s] = data[b][s] /\ ~IsTaken(b, s) /\ b \notin other
      BY <2>2, <2>4, <2>5, <3>1, <3>2 DEF FreesFile
    <3>4. (\A f \in Files : \A b, s : HasL(f, b, s)' => HasL(f, b, s)) /\ \A b, s : ~OldHas(b, s)'
      BY <3>1 DEF FreesFile, DropFile
    <3> QED
      BY <1>a, <2>4, <3>3, <3>4, BytesZeroed
  <2>7. CASE req.op # "unlink"
    <3>1. FreesOld
      BY <2>1, <2>7
    <3>2. \A b, s : OldHas(b, s) => b = req.old_bno /\ s \in OldSlices
      BY <2>1 DEF OldHas, OldExtent
    <3>3. \A b \in Block, s \in Slice :
              \/ b \in other' \/ IsTaken(b, s)' \/ data'[b][s] = {}
              \/ data'[b][s] = data[b][s] /\ ~IsTaken(b, s) /\ b \notin other
      BY <2>2, <2>4, <2>5, <3>1, <3>2 DEF FreesOld
    <3>4. (\A f \in Files : \A b, s : HasL(f, b, s)' => HasL(f, b, s)) /\ \A b, s : ~OldHas(b, s)'
      BY <3>1 DEF FreesOld, DropOld
    <3> QED
      BY <1>a, <2>4, <3>3, <3>4, BytesZeroed
  <2> QED
    BY <2>6, <2>7
<1>10. CASE WalkFree
  <2>1. KeepHolders /\ SameTaken /\ cur \in Sliced
    BY <1>10, <1>a, HoldersHandler, TakenHandler, ListWalkFree
  <2>2. pc = "walk" /\ UNCHANGED other /\ cur \in Block
    BY <1>10, <2>1, SlicedIs DEF WalkFree
  <2>3. (\A b \in Block : b # cur => data'[b] = data[b]) /\ \A s \in Slice : data'[cur][s] = {}
    BY <1>10, <1>b, <2>2 DEF WalkFree
  <2>4. \A b \in Block, s \in Slice : data'[b][s] \in {data[b][s], {}}
    BY <2>3
  <2>5. \A b, s : ~OldHas(b, s)'
    BY <2>1, <2>2, NoOld DEF KeepHolders
  <2>6. \A b \in Block, s \in Slice :
              \/ b \in other' \/ IsTaken(b, s)' \/ data'[b][s] = {}
              \/ data'[b][s] = data[b][s] /\ ~IsTaken(b, s) /\ b \notin other
    BY <2>1, <2>2, <2>4 DEF SameTaken
  <2>7. \A f \in Files : \A b, s : HasL(f, b, s)' => HasL(f, b, s)
    BY <2>1 DEF KeepHolders
  <2> QED
    BY <1>a, <2>4, <2>5, <2>6, <2>7, BytesZeroed
<1> QED
  BY <1>1, <1>2, <1>3, <1>4, <1>5, <1>7, <1>8, <1>9, <1>10 DEF HandlerStep

LEMMA SizesFitSet ==
    ASSUME TypeOK, SizesFit, NEW w \in Files, NEW b, NEW n \in Nat, NEW z \in Nat,
           bno' = [bno EXCEPT ![w] = b], num_slices' = [num_slices EXCEPT ![w] = n],
           i_size' = [i_size EXCEPT ![w] = z],
           b # 0 /\ n # 0 => z <= n * SliceSize
    PROVE  SizesFit'
<1>1. bno \in [Files -> 0..(NrBlocks - 1)] /\ num_slices \in [Files -> Nat] /\ i_size \in [Files -> Nat]
  BY DEF TypeOK, InodeTypeOK
<1>2. ASSUME NEW f \in Files, bno'[f] # 0, num_slices'[f] # 0 PROVE i_size'[f] <= num_slices'[f] * SliceSize
  <2>1. CASE f = w
    <3>1. bno'[f] = b /\ num_slices'[f] = n /\ i_size'[f] = z
      BY <1>1, <2>1
    <3> QED
      BY <1>2, <3>1
  <2>2. CASE f # w
    <3>1. bno'[f] = bno[f] /\ num_slices'[f] = num_slices[f] /\ i_size'[f] = i_size[f]
      BY <1>1, <2>2
    <3> QED
      BY <1>2, <3>1 DEF SizesFit
  <2> QED
    BY <2>1, <2>2
<1> QED
  BY <1>2 DEF SizesFit

LEMMA SizesFitNext ==
    ASSUME TypeOK, StoreInv, SizesFit, LocalsFit, ~MoveFaults, Next
    PROVE  SizesFit'
<1>a. /\ bno \in [Files -> 0..(NrBlocks - 1)] /\ num_slices \in [Files -> Nat]
      /\ i_size \in [Files -> Nat] /\ linked \subseteq Files
      /\ Offsets \subseteq Nat /\ Counts \subseteq Nat
  BY InputAssumption DEF TypeOK, InodeTypeOK
<1>b. CallInv /\ ListInv
  BY DEF StoreInv
<1>1. CASE UNCHANGED <<bno, num_slices, i_size>>
  BY <1>1 DEF SizesFit
<1>2. ASSUME NEW w \in Files, bno' = [bno EXCEPT ![w] = 0], i_size' = [i_size EXCEPT ![w] = 0],
             UNCHANGED num_slices
      PROVE  SizesFit'
  <2>1. num_slices' = [num_slices EXCEPT ![w] = num_slices[w]] /\ num_slices[w] \in Nat
    BY <1>a, <1>2
  <2> QED
    BY <1>2, <2>1, SizesFitSet
<1>3. ASSUME NEW w \in Files, NEW z \in Nat, i_size' = [i_size EXCEPT ![w] = z],
             UNCHANGED <<bno, num_slices>>, z <= num_slices[w] * SliceSize
      PROVE  SizesFit'
  <2>1. /\ num_slices' = [num_slices EXCEPT ![w] = num_slices[w]] /\ num_slices[w] \in Nat
        /\ bno' = [bno EXCEPT ![w] = bno[w]]
    BY <1>a, <1>3
  <2> QED
    BY <1>3, <2>1, SizesFitSet
<1>4. ASSUME FailWrite, pc \in {"start", "scan"}, UNCHANGED num_slices PROVE SizesFit'
  <2>1. CASE ~req.move
    BY <1>1, <1>4, <2>1 DEF FailWrite
  <2>2. CASE req.move
    <3>1. req \in Req
      BY <1>4 DEF TypeOK, CallTypeOK
    <3>2. PICK w \in Files, z \in Nat : w = req.f /\ z = req.old_size
      BY <3>1 DEF Req
    <3>3. num_slices[w] = req.old_num_slices /\ num_slices[w] \in Nat
      BY <1>a, <1>b, <1>4, <2>2, <3>2 DEF CallInv, WriteLocals
    <3>4. z <= num_slices[w] * SliceSize
      BY <1>4, <2>2, <3>2, <3>3 DEF LocalsFit
    <3>5. /\ bno' = [bno EXCEPT ![w] = req.old_bno] /\ i_size' = [i_size EXCEPT ![w] = z]
          /\ num_slices' = [num_slices EXCEPT ![w] = num_slices[w]]
      BY <1>a, <1>4, <2>2, <3>2 DEF FailWrite
    <3> QED
      BY <3>3, <3>4, <3>5, SizesFitSet
  <2> QED
    BY <2>1, <2>2
<1>5. CASE Call
  <2>1. ASSUME NEW f \in Files, Create(f) PROVE SizesFit'
    BY <2>1, SizesFitSet DEF Create
  <2>2. ASSUME NEW f \in Files, Unlink(f) \/ OpenTruncError(f) PROVE SizesFit'
    BY <1>1, <2>2 DEF Unlink, OpenTruncError, inodevars, vars
  <2>3. ASSUME NEW f \in Files, OpenTrunc(f) PROVE SizesFit'
    <3>1. 0 <= num_slices[f] * SliceSize
      BY <1>a, GeometryAssumption
    <3> QED
      BY <1>3, <2>3, <3>1 DEF OpenTrunc
  <2>4. ASSUME NEW f \in Files, NEW ki_pos \in Offsets, NEW count \in Counts,
               WriteRefused(f, ki_pos, count)
        PROVE  SizesFit'
    BY <1>1, <2>4 DEF WriteRefused, inodevars, vars
  <2>5. ASSUME NEW f \in Files, NEW ki_pos \in Offsets, NEW count \in Counts, NEW append \in Appends,
               WriteNew(f, ki_pos, count, append) \/ WriteInPlaceFault(f, ki_pos, count, append)
        PROVE  SizesFit'
    BY <1>1, <2>5 DEF WriteNew, WriteInPlaceFault, inodevars
  <2>6. ASSUME NEW f \in Files, NEW ki_pos \in Offsets, NEW count \in Counts, NEW append \in Appends,
               WriteInPlace(f, ki_pos, count, append)
        PROVE  SizesFit'
    <3>1. PICK size \in Nat : size = NewSize(f, StartsAt(f, ki_pos, append), count)
      BY <1>a, NewSizeCovers
    <3>2. /\ i_size' = [i_size EXCEPT ![f] = size] /\ num_slices[f] = NumSlices(size)
          /\ UNCHANGED <<bno, num_slices>>
      BY <2>6, <3>1 DEF WriteInPlace
    <3>3. size <= num_slices[f] * SliceSize
      BY <3>2, SlicesHold
    <3> QED
      BY <1>3, <3>2, <3>3
  <2>7. ASSUME NEW f \in Files, NEW ki_pos \in Offsets, NEW count \in Counts, NEW append \in Appends,
               WriteMove(f, ki_pos, count, append) \/ WriteMoveLost(f, ki_pos, count, append)
        PROVE  SizesFit'
    BY <1>2, <2>7 DEF WriteMove, WriteMoveLost
  <2>8. CASE \/ \E b \in Block, c \in Contents \cup {ZeroContent} : OtherAlloc(b, c)
             \/ OtherAllocFails
             \/ \E b \in Block : OtherUnlink(b) \/ OtherTruncate(b)
    BY <1>1, <2>8 DEF OtherAlloc, OtherAllocFails, OtherUnlink, OtherTruncate, inodevars
  <2> QED
    BY <1>5, <2>1, <2>2, <2>3, <2>4, <2>5, <2>6, <2>7, <2>8 DEF Call
<1>6. CASE HandlerStep
  <2>1. CASE \/ StartAtHead \/ StartAlloc \/ StartNoSpace \/ StartInitError \/ ScanNext \/ ScanAlloc
             \/ FreeSlices \/ WalkFree \/ WalkKeep
    BY <1>1, <2>1 DEF StartAtHead, StartAlloc, StartNoSpace, StartInitError, ScanNext, ScanAlloc,
       FreeSlices, WalkFree, WalkKeep, inodevars
  <2>2. CASE StartReadError \/ ScanReadError \/ ScanNoSpace \/ ScanInitError
    BY <1>4, <2>2 DEF StartReadError, ScanReadError, ScanNoSpace, ScanInitError, NoRoom
  <2>3. ASSUME NEW i \in Slice, ScanHit(i) PROVE SizesFit'
    <3>1. FoundAt(i)
      BY <2>3 DEF ScanHit
    <3>2. req.size \in Nat /\ req.f \in Files
      BY <3>1, NewSlicesFree
    <3>3. PICK w \in Files, z \in Nat, n \in Nat :
                 w = req.f /\ z = req.size /\ n = NumSlices(z) /\ z <= n * SliceSize
      BY <3>2, SlicesHold
    <3>4. /\ bno' = [bno EXCEPT ![w] = cur] /\ i_size' = [i_size EXCEPT ![w] = z]
          /\ num_slices' = [num_slices EXCEPT ![w] = n]
      BY <2>3, <3>3 DEF ScanHit, ClaimSlices
    <3> QED
      BY <3>3, <3>4, SizesFitSet
  <2>4. ASSUME NEW i \in Slice, ScanHitNothing(i) PROVE SizesFit'
    <3>1. FoundAt(i) /\ req.move /\ req.count = 0 /\ pc = "scan"
      BY <2>4 DEF ScanHitNothing, FoundAt
    <3>2. req \in Req
      BY <3>1 DEF TypeOK, CallTypeOK
    <3>3. NumSlices(req.size) = 0
      BY <1>b, <3>1, NoBytesNoSlices DEF CallInv
    <3>4. PICK w \in Files, z \in Nat : w = req.f /\ z = req.old_size
      BY <3>2 DEF Req
    <3>5. /\ bno' = [bno EXCEPT ![w] = req.old_bno] /\ i_size' = [i_size EXCEPT ![w] = z]
          /\ num_slices' = [num_slices EXCEPT ![w] = 0]
      BY <2>4, <3>1, <3>3, <3>4 DEF ScanHitNothing, FailWrite, ClaimSlices
    <3> QED
      BY <3>5, SizesFitSet
  <2>5. ASSUME NEW i \in Slice, ScanFault(i) PROVE SizesFit'
    <3>1. ~req.move /\ FoundAt(i) /\ pc = "scan"
      BY <2>5 DEF MoveFaults, ScanFault, FoundAt
    <3>2. PICK w \in Files, n \in Nat : w = req.f /\ n = NumSlices(req.size)
      BY <3>1, NewSlicesFree
    <3>3. UNCHANGED <<bno, i_size>> /\ num_slices' = [num_slices EXCEPT ![w] = n]
      BY <2>5, <3>1, <3>2 DEF ScanFault, FailWrite, ClaimSlices
    <3>4. bno[w] = 0
      BY <1>b, <3>1, <3>2 DEF CallInv, WriteLocals
    <3>5. bno' = [bno EXCEPT ![w] = 0] /\ i_size' = [i_size EXCEPT ![w] = i_size[w]] /\ i_size[w] \in Nat
      BY <1>a, <3>3, <3>4
    <3> QED
      BY <3>3, <3>5, SizesFitSet
  <2>6. CASE FreeNothing \/ WalkEnd \/ WalkReadError
    <3>1. DeleteReturns /\ pc \in {"free", "walk"}
      BY <2>6 DEF FreeNothing, WalkEnd, WalkReadError
    <3>2. CASE req.op # "unlink"
      BY <1>1, <3>1, <3>2 DEF DeleteReturns
    <3>3. CASE req.op = "unlink"
      <4>1. PICK w \in Files : w = req.f
        BY <1>a, <1>b, <3>1 DEF CallInv
      <4> QED
        BY <1>2, <3>1, <3>3, <4>1 DEF DeleteReturns
    <3> QED
      BY <3>2, <3>3
  <2> QED
    BY <1>6, <2>1, <2>2, <2>3, <2>4, <2>5, <2>6 DEF HandlerStep
<1> QED
  BY <1>5, <1>6 DEF Next

LEMMA LocalsFitNext ==
    ASSUME TypeOK, ByteInv, SizesFit, LocalsFit, Next
    PROVE  LocalsFit'
<1>a. i_size \in [Files -> Nat] /\ slice_no \in [Files -> 0..(NrSlices - 1)] /\ linked \subseteq Files
      /\ num_slices \in [Files -> Nat]
  BY DEF TypeOK, InodeTypeOK
<1>1. CASE pc' \notin {"start", "scan"}
  BY <1>1 DEF LocalsFit
<1>2. CASE pc \in {"start", "scan"} /\ req' = req
  BY <1>2 DEF LocalsFit
<1>3. ASSUME NEW f \in Files, NEW ki_pos \in Offsets, NEW count \in Counts, NEW append \in Appends,
             WriteNew(f, ki_pos, count, append)
      PROVE  LocalsFit'
  <2>1. PICK pos \in Nat, size \in Nat :
               /\ pos = StartsAt(f, ki_pos, append) /\ size = NewSize(f, pos, count)
               /\ pos + count <= size
    BY <1>a, NewSizeCovers
  <2>2. req' = WriteReq(f, size, pos, count, TRUE, {f}, FALSE)
    BY <1>3, <2>1 DEF WriteNew
  <2>3. /\ req'.f = f /\ req'.tags = {f} /\ req'.pos = pos /\ req'.count = count /\ req'.size = size
        /\ ~req'.move
    BY <2>2 DEF WriteReq
  <2> QED
    BY <2>1, <2>3 DEF LocalsFit
<1>4. ASSUME NEW f \in Files, NEW ki_pos \in Offsets, NEW count \in Counts, NEW append \in Appends,
             WriteMove(f, ki_pos, count, append)
      PROVE  LocalsFit'
  <2>1. f \in linked /\ bno[f] # 0 /\ num_slices[f] # 0 /\ pc = "idle"
    BY <1>4 DEF WriteMove, MayWrite
  <2>2. PICK size \in Nat : size = NewSize(f, StartsAt(f, ki_pos, append), count)
    BY <1>a, NewSizeCovers
  <2>3. TagsOf(f, i_size[f]) \subseteq {f}
    <3>1. slice_no[f] \in Nat /\ num_slices[f] \in Nat /\ num_slices[f] # 0
      BY <1>a, <2>1, GeometryAssumption
    <3>2. slice_no[f] \in Holds(f)
      BY <2>1, <3>1 DEF Holds, ExtentOf
    <3>3. \A s \in Touched(slice_no[f], 0, i_size[f]) \cap Slice : data[bno[f]][s] \subseteq {f}
      BY <2>1, <3>2, OwnBytes
    <3> QED
      BY <3>3 DEF TagsOf
  <2>4. count \in Nat
    BY InputAssumption
  <2>5. \E z \in Nat : \E user, tags : tags \subseteq {f} /\ req' = WriteReq(f, z, 0, z, user, tags, TRUE)
    <3>1. CASE req' = WriteReq(f, count, 0, count, TRUE, {f}, TRUE)
      BY <2>4, <3>1
    <3>2. CASE req' = WriteReq(f, size, 0, size, FALSE, {f} \cup TagsOf(f, i_size[f]), TRUE)
      <4>1. {f} \cup TagsOf(f, i_size[f]) \subseteq {f}
        BY <2>3
      <4> QED
        BY <3>2, <4>1
    <3> QED
      BY <1>4, <2>2, <3>1, <3>2, Zenon DEF WriteMove
  <2>a. PICK z \in Nat : \E user, tags : tags \subseteq {f} /\ req' = WriteReq(f, z, 0, z, user, tags, TRUE)
    BY <2>5
  <2>6. PICK user, tags : tags \subseteq {f} /\ req' = WriteReq(f, z, 0, z, user, tags, TRUE)
    BY <2>a
  <2>7. /\ req'.f = f /\ req'.tags = tags /\ req'.pos = 0 /\ req'.count = z /\ req'.size = z
        /\ req'.old_size = i_size[f] /\ req'.old_num_slices = num_slices[f]
    BY <2>6 DEF WriteReq
  <2>8. i_size[f] <= num_slices[f] * SliceSize
    BY <2>1 DEF SizesFit
  <2>9. req'.tags \subseteq {req'.f}
    BY <2>6, <2>7
  <2>10. req'.pos + req'.count <= req'.size
    <3>1. 0 + z <= z
      OBVIOUS
    <3> QED
      BY <2>7, <3>1, Zenon
  <2>11. req'.old_size <= req'.old_num_slices * SliceSize
    BY <2>7, <2>8
  <2> QED
    BY <2>9, <2>10, <2>11, Zenon DEF LocalsFit
<1>5. CASE Call
  <2>1. ASSUME NEW f \in Files, Create(f) \/ Unlink(f) \/ OpenTrunc(f) \/ OpenTruncError(f)
        PROVE  LocalsFit'
    BY <1>1, <2>1 DEF Create, Unlink, OpenTrunc, OpenTruncError, callvars, vars
  <2>2. ASSUME NEW f \in Files, NEW ki_pos \in Offsets, NEW count \in Counts,
               WriteRefused(f, ki_pos, count)
        PROVE  LocalsFit'
    BY <1>1, <2>2 DEF WriteRefused, MayWrite, callvars, vars
  <2>3. ASSUME NEW f \in Files, NEW ki_pos \in Offsets, NEW count \in Counts, NEW append \in Appends,
               \/ WriteInPlace(f, ki_pos, count, append)
               \/ WriteInPlaceFault(f, ki_pos, count, append)
               \/ WriteMoveLost(f, ki_pos, count, append)
        PROVE  LocalsFit'
    BY <1>1, <2>3 DEF WriteInPlace, WriteInPlaceFault, WriteMoveLost, MayWrite, callvars
  <2>4. CASE \/ \E b \in Block, c \in Contents \cup {ZeroContent} : OtherAlloc(b, c)
             \/ OtherAllocFails
             \/ \E b \in Block : OtherUnlink(b) \/ OtherTruncate(b)
    BY <1>1, <2>4 DEF OtherAlloc, OtherAllocFails, OtherUnlink, OtherTruncate, callvars
  <2> QED
    BY <1>3, <1>4, <1>5, <2>1, <2>2, <2>3, <2>4 DEF Call
<1>6. CASE HandlerStep
  <2>1. CASE \/ StartReadError \/ StartNoSpace \/ StartInitError \/ ScanReadError \/ ScanNoSpace
             \/ ScanInitError \/ FreeNothing \/ WalkEnd \/ WalkReadError
    BY <1>1, <2>1 DEF StartReadError, StartNoSpace, StartInitError, ScanReadError, ScanNoSpace,
       ScanInitError, FreeNothing, WalkEnd, WalkReadError, FailWrite, DeleteReturns, Oops, Return
  <2>2. ASSUME NEW i \in Slice, ScanHit(i) \/ ScanHitNothing(i) \/ ScanFault(i) PROVE LocalsFit'
    BY <1>1, <2>2 DEF ScanHit, ScanHitNothing, ScanFault, FailWrite, Return
  <2>3. CASE StartAtHead \/ StartAlloc \/ ScanNext \/ ScanAlloc
    BY <1>2, <2>3 DEF StartAtHead, StartAlloc, ScanNext, ScanAlloc, NoRoom
  <2>4. CASE FreeSlices \/ WalkFree \/ WalkKeep
    BY <1>1, <2>4 DEF FreeSlices, WalkFree, WalkKeep
  <2> QED
    BY <1>6, <2>1, <2>2, <2>3, <2>4 DEF HandlerStep
<1> QED
  BY <1>5, <1>6 DEF Next

DataInv == ByteInv /\ SizesFit /\ LocalsFit

LEMMA DataInvInit == Init => DataInv
<1> SUFFICES ASSUME Init PROVE DataInv
  OBVIOUS
<1>1. linked = {} /\ pc = "idle" /\ (\A f \in Files : bno[f] = 0)
  BY DEF Init
<1>2. \A b \in Block, s \in Slice : data[b][s] = {}
  BY DEF Init
<1>3. ByteInv
  BY <1>1, <1>2, NoOld DEF ByteInv, HasL
<1> QED
  BY <1>1, <1>3 DEF DataInv, SizesFit, LocalsFit

LEMMA DataStutter ==
    ASSUME TypeOK, DataInv, UNCHANGED vars
    PROVE  DataInv'
<1>1. UNCHANGED <<bfree_bitmap, other, bitmap, data, linked, bno, slice_no, num_slices, i_size, pc, req>>
  BY DEF vars, sbvars, blockvars, inodevars, callvars
<1>2. \A f : Holds(f)' = Holds(f)
  BY <1>1 DEF Holds, ExtentOf
<1>3. OldExtent' = OldExtent /\ Sliced' = Sliced
  BY <1>1 DEF OldExtent, Sliced
<1>4. /\ \A f, b, s : HasL(f, b, s)' <=> HasL(f, b, s)
      /\ \A b, s : OldHas(b, s)' <=> OldHas(b, s)
      /\ \A b, s : IsTaken(b, s)' <=> IsTaken(b, s)
  BY <1>1, <1>2, <1>3 DEF HasL, Has, OldHas, IsTaken
<1>5. ByteInv'
  BY <1>1, <1>4 DEF DataInv, ByteInv
<1>6. SizesFit'
  BY <1>1 DEF DataInv, SizesFit
<1>7. LocalsFit'
  BY <1>1 DEF DataInv, LocalsFit
<1> QED
  BY <1>5, <1>6, <1>7 DEF DataInv

LEMMA DataInvNext ==
    TypeOK /\ TypeOK' /\ StoreInv /\ DataInv /\ [Next]_vars /\ [~Harm]_vars => DataInv'
<1> SUFFICES ASSUME TypeOK, TypeOK', StoreInv, DataInv, [Next]_vars, [~Harm]_vars PROVE DataInv'
  OBVIOUS
<1>1. CASE UNCHANGED vars
  BY <1>1, DataStutter
<1>2. CASE Next /\ ~Harm
  <2>1. ~TruncHarms /\ ~MoveFaults /\ ByteInv /\ SizesFit /\ LocalsFit
    BY <1>2 DEF Harm, DataInv
  <2>2. SizesFit' /\ LocalsFit'
    BY <1>2, <2>1, SizesFitNext, LocalsFitNext
  <2>3. ByteInv'
    BY <1>2, <2>1, ByteInvCall, ByteInvHandler DEF Next
  <2> QED
    BY <2>2, <2>3 DEF DataInv
<1> QED
  BY <1>1, <1>2

(* As long as O_TRUNC does no harm and no copy faults in the middle of a    *)
(* move, the bytes of a file up to i_size are its own or zeros, never what  *)
(* a deleted or moved neighbour left: delete_slice zeroes what it frees and *)
(* a block is scrubbed before it goes back, and neither read errors nor     *)
(* half-done first writes change that.                                      *)
THEOREM OnlyOwnDataShown == Spec /\ [][~Harm]_vars => []NoForeignData
<1>1. Init => StoreInv /\ DataInv
  BY StoreInvInit, DataInvInit
<1>2. TypeOK /\ TypeOK' /\ (StoreInv /\ DataInv) /\ [Next]_vars /\ [~Harm]_vars => (StoreInv /\ DataInv)'
  BY StoreInvNext, DataInvNext
<1>3. TypeOK /\ (StoreInv /\ DataInv) => NoForeignData
  BY OwnBytes DEF DataInv, NoForeignData
<1> QED
  BY <1>1, <1>2, <1>3, TypeCorrect, PTL DEF Spec

-----------------------------------------------------------------------------
(* The store implements SliceStore *)

\* A deleted file has no index_block.
GoneInv == \A f \in Files : f \notin linked => bno[f] = 0

\* The places of SliceStore, in terms of who holds which slice.
HeldBy(f) == {p \in Block \X Slice : HasL(f, p[1], p[2])}
OldHeld == {p \in Block \X Slice : OldHas(p[1], p[2])}
Single(S) == IF S = {} THEN {} ELSE {S}
OldPlace(f) == IF OldHeld # {} /\ req.f = f THEN {OldHeld} ELSE {}

PlacesAre == \A f \in Files : PlacesOf(f) = Single(HeldBy(f)) \cup OldPlace(f)

LEMMA PlacesMapped == TypeOK /\ SpotInv /\ GoneInv => PlacesAre
<1> SUFFICES ASSUME TypeOK, SpotInv, GoneInv, NEW f \in Files
             PROVE  PlacesOf(f) = Single(HeldBy(f)) \cup OldPlace(f)
  BY DEF PlacesAre
<1>1. Place(bno[f], Holds(f)) = Single(HeldBy(f))
  <2>1. \A s \in Holds(f) : HasL(f, bno[f], s) /\ bno[f] \in Block /\ s \in Slice
    <3>1. Holds(f) # {} => f \in linked
      BY DEF GoneInv, Holds, ExtentOf
    <3>2. \A s \in Holds(f) : HasL(f, bno[f], s) /\ f \in linked
      BY <3>1 DEF HasL, Has
    <3> QED
      BY <3>2, SlicedIs DEF SpotInv, HasL, IsTaken
  <2>2. {<<bno[f], s>> : s \in Holds(f)} = HeldBy(f)
    <3>1. ASSUME NEW s \in Holds(f) PROVE <<bno[f], s>> \in HeldBy(f)
      BY <2>1 DEF HeldBy
    <3>2. ASSUME NEW p \in HeldBy(f) PROVE \E s \in Holds(f) : p = <<bno[f], s>>
      <4>1. p = <<p[1], p[2]>> /\ HasL(f, p[1], p[2])
        BY DEF HeldBy
      <4> QED
        BY <4>1 DEF HasL, Has
    <3> QED
      BY <3>1, <3>2
  <2>3. Holds(f) = {} <=> HeldBy(f) = {}
    BY <2>2
  <2> QED
    BY <2>2, <2>3 DEF Place, Single
<1>2. OldExtent # {} => Place(req.old_bno, OldExtent) = {OldHeld} /\ OldHeld # {}
  <2> SUFFICES ASSUME OldExtent # {} PROVE Place(req.old_bno, OldExtent) = {OldHeld} /\ OldHeld # {}
    OBVIOUS
  <2>1. \A s \in OldExtent : OldHas(req.old_bno, s) /\ req.old_bno \in Block /\ s \in Slice
    <3>1. \A s \in OldExtent : OldHas(req.old_bno, s)
      BY DEF OldHas
    <3> QED
      BY <3>1, SlicedIs DEF SpotInv, IsTaken
  <2>2. {<<req.old_bno, s>> : s \in OldExtent} = OldHeld
    <3>1. ASSUME NEW s \in OldExtent PROVE <<req.old_bno, s>> \in OldHeld
      BY <2>1 DEF OldHeld
    <3>2. ASSUME NEW p \in OldHeld PROVE \E s \in OldExtent : p = <<req.old_bno, s>>
      <4>1. p = <<p[1], p[2]>> /\ OldHas(p[1], p[2])
        BY DEF OldHeld
      <4> QED
        BY <4>1 DEF OldHas
    <3> QED
      BY <3>1, <3>2
  <2> QED
    BY <2>2 DEF Place
<1>3. OldExtent = {} => OldHeld = {}
  BY DEF OldHeld, OldHas
<1> QED
  BY <1>1, <1>2, <1>3 DEF PlacesOf, OldPlace

LEMMA PlacesMappedNext == TypeOK' /\ SpotInv' /\ GoneInv' => PlacesAre'
BY PlacesMapped, PTL

LEMMA GoneInvNext ==
    ASSUME TypeOK, CallInv, GoneInv, [Next]_vars
    PROVE  GoneInv'
<1>a. bno \in [Files -> 0..(NrBlocks - 1)] /\ linked \subseteq Files
  BY DEF TypeOK, InodeTypeOK
<1>1. CASE UNCHANGED <<linked, bno>>
  BY <1>1 DEF GoneInv
<1>2. ASSUME NEW w \in Files, linked \ {w} \subseteq linked', bno' = [bno EXCEPT ![w] = 0]
      PROVE  GoneInv'
  BY <1>2, <1>a DEF GoneInv
<1>3. ASSUME NEW w \in Files, w \in linked, NEW b, linked' = linked, bno' = [bno EXCEPT ![w] = b]
      PROVE  GoneInv'
  BY <1>3, <1>a DEF GoneInv
<1>4. CASE Call
  <2>1. ASSUME NEW f \in Files, Create(f) PROVE GoneInv'
    BY <1>2, <2>1 DEF Create
  <2>2. ASSUME NEW f \in Files, Unlink(f) \/ OpenTrunc(f) \/ OpenTruncError(f) PROVE GoneInv'
    BY <1>1, <2>2 DEF Unlink, OpenTrunc, OpenTruncError, inodevars, vars
  <2>3. ASSUME NEW f \in Files, NEW ki_pos \in Offsets, NEW count \in Counts,
               WriteRefused(f, ki_pos, count)
        PROVE  GoneInv'
    BY <1>1, <2>3 DEF WriteRefused, inodevars, vars
  <2>4. ASSUME NEW f \in Files, NEW ki_pos \in Offsets, NEW count \in Counts, NEW append \in Appends,
               \/ WriteNew(f, ki_pos, count, append)
               \/ WriteInPlace(f, ki_pos, count, append)
               \/ WriteInPlaceFault(f, ki_pos, count, append)
        PROVE  GoneInv'
    BY <1>1, <2>4 DEF WriteNew, WriteInPlace, WriteInPlaceFault, inodevars
  <2>5. ASSUME NEW f \in Files, NEW ki_pos \in Offsets, NEW count \in Counts, NEW append \in Appends,
               WriteMove(f, ki_pos, count, append) \/ WriteMoveLost(f, ki_pos, count, append)
        PROVE  GoneInv'
    BY <1>2, <2>5 DEF WriteMove, WriteMoveLost
  <2>6. CASE \/ \E b \in Block, c \in Contents \cup {ZeroContent} : OtherAlloc(b, c)
             \/ OtherAllocFails
             \/ \E b \in Block : OtherUnlink(b) \/ OtherTruncate(b)
    BY <1>1, <2>6 DEF OtherAlloc, OtherAllocFails, OtherUnlink, OtherTruncate, inodevars
  <2> QED
    BY <1>4, <2>1, <2>2, <2>3, <2>4, <2>5, <2>6 DEF Call
<1>5. CASE HandlerStep
  <2>1. CASE \/ StartAtHead \/ StartAlloc \/ StartNoSpace \/ StartInitError \/ ScanNext \/ ScanAlloc
             \/ FreeSlices \/ WalkFree \/ WalkKeep
    BY <1>1, <2>1 DEF StartAtHead, StartAlloc, StartNoSpace, StartInitError, ScanNext, ScanAlloc,
       FreeSlices, WalkFree, WalkKeep, inodevars
  <2>2. ASSUME FailWrite, UNCHANGED linked, pc \in {"start", "scan"} PROVE GoneInv'
    <3>1. PICK w \in Files : w = req.f /\ w \in linked
      BY <1>a, <2>2 DEF CallInv
    <3>2. CASE req.move
      BY <1>3, <2>2, <3>1, <3>2 DEF FailWrite
    <3>3. CASE ~req.move
      BY <1>1, <2>2, <3>3 DEF FailWrite
    <3> QED
      BY <3>2, <3>3
  <2>3. CASE StartReadError \/ ScanReadError \/ ScanNoSpace \/ ScanInitError
    BY <2>2, <2>3 DEF StartReadError, ScanReadError, ScanNoSpace, ScanInitError, NoRoom
  <2>4. ASSUME NEW i \in Slice, ScanHitNothing(i) \/ ScanFault(i) PROVE GoneInv'
    BY <2>2, <2>4 DEF ScanHitNothing, ScanFault, FoundAt
  <2>5. ASSUME NEW i \in Slice, ScanHit(i) PROVE GoneInv'
    <3>1. PICK w \in Files : w = req.f /\ w \in linked
      BY <1>a, <2>5 DEF CallInv, ScanHit, FoundAt
    <3> QED
      BY <1>3, <2>5, <3>1 DEF ScanHit
  <2>6. CASE FreeNothing \/ WalkEnd \/ WalkReadError
    <3>1. DeleteReturns /\ pc \in {"free", "walk"}
      BY <2>6 DEF FreeNothing, WalkEnd, WalkReadError
    <3>2. CASE req.op # "unlink"
      BY <1>1, <3>1, <3>2 DEF DeleteReturns
    <3>3. CASE req.op = "unlink"
      <4>1. PICK w \in Files : w = req.f
        BY <1>a, <3>1 DEF CallInv
      <4> QED
        BY <1>2, <3>1, <3>3, <4>1 DEF DeleteReturns
    <3> QED
      BY <3>2, <3>3
  <2> QED
    BY <1>5, <2>1, <2>3, <2>4, <2>5, <2>6 DEF HandlerStep
<1>6. CASE UNCHANGED vars
  BY <1>1, <1>6 DEF vars, inodevars
<1> QED
  BY <1>4, <1>5, <1>6 DEF Next

PlaceMap == [f \in Files |-> PlacesOf(f)]

\* Steps after which everyone is where he was.
LEMMA StepKeeps ==
    ASSUME PlacesAre, PlacesAre',
           \/ KeepHolders /\ ((\E b, s : OldHas(b, s)) => req'.f = req.f)
           \/ \E w \in Files : \/ MoveOut(w) /\ req'.f = w
                               \/ MoveBack(w) /\ req.f = w /\ w \in linked
    PROVE  PlaceMap' = PlaceMap
<1> SUFFICES ASSUME NEW f \in Files
             PROVE  (Single(HeldBy(f)) \cup OldPlace(f))' = Single(HeldBy(f)) \cup OldPlace(f)
  BY DEF PlaceMap, PlacesAre
<1>0. OldHeld # {} => \E b, s : OldHas(b, s)
  BY DEF OldHeld
<1>1. CASE KeepHolders /\ ((\E b, s : OldHas(b, s)) => req'.f = req.f)
  <2>1. HeldBy(f)' = HeldBy(f) /\ OldHeld' = OldHeld
    BY <1>1 DEF KeepHolders, HeldBy, OldHeld
  <2> QED
    BY <1>0, <1>1, <2>1 DEF Single, OldPlace
<1>2. ASSUME NEW w \in Files, MoveOut(w), req'.f = w
      PROVE  (Single(HeldBy(f)) \cup OldPlace(f))' = Single(HeldBy(f)) \cup OldPlace(f)
  <2>1. OldHeld = {} /\ OldHeld' = HeldBy(w)
    BY <1>2 DEF MoveOut, HeldBy, OldHeld
  <2>2. CASE f = w
    <3>1. HeldBy(f)' = {}
      BY <1>2, <2>2 DEF MoveOut, HeldBy
    <3> QED
      BY <1>2, <2>1, <2>2, <3>1 DEF Single, OldPlace
  <2>3. CASE f # w
    <3>1. HeldBy(f)' = HeldBy(f)
      BY <1>2, <2>3 DEF MoveOut, HeldBy
    <3> QED
      BY <1>2, <2>1, <2>3, <3>1 DEF Single, OldPlace
  <2> QED
    BY <2>2, <2>3
<1>3. ASSUME NEW w \in Files, MoveBack(w), req.f = w, w \in linked
      PROVE  (Single(HeldBy(f)) \cup OldPlace(f))' = Single(HeldBy(f)) \cup OldPlace(f)
  <2>1. OldHeld' = {}
    BY <1>3 DEF MoveBack, OldHeld
  <2>2. CASE f = w
    <3>1. HeldBy(f) = {} /\ HeldBy(f)' = OldHeld
      BY <1>3, <2>2 DEF MoveBack, HeldBy, OldHeld
    <3> QED
      BY <1>3, <2>1, <2>2, <3>1 DEF Single, OldPlace
  <2>3. CASE f # w
    <3>1. HeldBy(f)' = HeldBy(f)
      BY <1>3, <2>3 DEF MoveBack, HeldBy
    <3> QED
      BY <1>3, <2>1, <2>3, <3>1 DEF Single, OldPlace
  <2> QED
    BY <2>2, <2>3
<1> QED
  BY <1>1, <1>2, <1>3

\* The old slices of a move are given up.
LEMMA StepDropsOld ==
    ASSUME PlacesAre, PlacesAre', SpotInv, DropOld
    PROVE  \/ PlaceMap' = PlaceMap
           \/ \E w \in Files : /\ OldHeld \in PlaceMap[w]
                               /\ PlaceMap' = [PlaceMap EXCEPT ![w] = @ \ {OldHeld}]
<1>1. OldHeld' = {} /\ \A f \in Files : HeldBy(f)' = HeldBy(f)
  BY DEF DropOld, HeldBy, OldHeld
<1>2. \A f \in Files : PlacesOf(f)' = Single(HeldBy(f)) /\ PlacesOf(f) = Single(HeldBy(f)) \cup OldPlace(f)
  BY <1>1 DEF PlacesAre, Single, OldPlace
<1>3. \A f \in Files : OldHeld # {} => OldHeld \notin Single(HeldBy(f))
  <2> SUFFICES ASSUME NEW f \in Files, OldHeld # {}, OldHeld = HeldBy(f) PROVE FALSE
    BY DEF Single
  <2>1. PICK p : p \in OldHeld /\ p \in HeldBy(f)
    OBVIOUS
  <2> QED
    BY <2>1 DEF OldHeld, HeldBy, HasL, SpotInv
<1>4. CASE \A f \in Files : OldPlace(f) = {}
  BY <1>2, <1>4 DEF PlaceMap
<1>5. ASSUME NEW w \in Files, OldPlace(w) # {}
      PROVE  OldHeld \in PlaceMap[w] /\ PlaceMap' = [PlaceMap EXCEPT ![w] = @ \ {OldHeld}]
  <2>1. OldHeld # {} /\ req.f = w /\ OldPlace(w) = {OldHeld}
    BY <1>5 DEF OldPlace
  <2>2. \A f \in Files : f # w => PlacesOf(f)' = PlacesOf(f)
    BY <1>2, <2>1 DEF OldPlace
  <2>3. OldHeld \in PlacesOf(w) /\ PlacesOf(w)' = PlacesOf(w) \ {OldHeld}
    BY <1>2, <1>3, <2>1
  <2> QED
    BY <2>2, <2>3 DEF PlaceMap
<1> QED
  BY <1>4, <1>5

\* The slices of a file are given up.
LEMMA StepDropsFile ==
    ASSUME PlacesAre, PlacesAre', NEW w \in Files, DropFile(w)
    PROVE  /\ PlaceMap' = [PlaceMap EXCEPT ![w] = {}]
           /\ PlaceMap[w] = Single(HeldBy(w))
<1>1. OldHeld = {} /\ OldHeld' = {} /\ HeldBy(w)' = {} /\ \A f \in Files : f # w => HeldBy(f)' = HeldBy(f)
  BY DEF DropFile, HeldBy, OldHeld
<1>2. \A f \in Files : PlacesOf(f)' = Single(HeldBy(f)') /\ PlacesOf(f) = Single(HeldBy(f))
  BY <1>1 DEF PlacesAre, OldPlace, Single
<1> QED
  BY <1>1, <1>2 DEF PlaceMap, Single

\* A file is given a new place.
LEMMA StepClaims ==
    ASSUME PlacesAre, PlacesAre', NEW w \in Files, NEW c \in Block, NEW N \in SUBSET Slice,
           Claims(w, c, N), (\E b, s : OldHas(b, s)) => req'.f = req.f
    PROVE  /\ N = {} => PlaceMap' = PlaceMap
           /\ N # {} => PlaceMap' = [PlaceMap EXCEPT ![w] = @ \cup {{c} \X N}]
           /\ PlaceMap[w] = OldPlace(w)
<1>0. OldHeld # {} => \E b, s : OldHas(b, s)
  BY DEF OldHeld
<1>1. OldHeld' = OldHeld /\ HeldBy(w) = {} /\ \A f \in Files : f # w => HeldBy(f)' = HeldBy(f)
  BY DEF Claims, HeldBy, OldHeld
<1>2. HeldBy(w)' = {c} \X N
  <2>1. \A b, s : HasL(w, b, s)' <=> b = c /\ s \in N
    BY DEF Claims
  <2>2. ASSUME NEW p \in {c} \X N PROVE p \in HeldBy(w)'
    BY <2>1 DEF HeldBy
  <2>3. ASSUME NEW p \in HeldBy(w)' PROVE p \in {c} \X N
    <3>1. p = <<p[1], p[2]>> /\ HasL(w, p[1], p[2])'
      BY DEF HeldBy
    <3> QED
      BY <2>1, <3>1
  <2> QED
    BY <2>2, <2>3
<1>3. \A f \in Files : OldPlace(f)' = OldPlace(f)
  BY <1>0, <1>1 DEF OldPlace
<1>4. \A f \in Files : f # w => PlacesOf(f)' = PlacesOf(f)
  BY <1>1, <1>3 DEF PlacesAre, Single
<1>5. PlacesOf(w) = OldPlace(w) /\ PlacesOf(w)' = Single({c} \X N) \cup OldPlace(w)
  BY <1>1, <1>2, <1>3 DEF PlacesAre, Single
<1>6. N = {} => Single({c} \X N) = {}
  BY DEF Single
<1>7. N # {} => Single({c} \X N) = {{c} \X N}
  <2>1. ASSUME NEW s \in N PROVE <<c, s>> \in {c} \X N
    OBVIOUS
  <2> QED
    BY <2>1 DEF Single
<1>8. N = {} => PlaceMap' = PlaceMap
  BY <1>4, <1>5, <1>6 DEF PlaceMap
<1>9. ASSUME N # {} PROVE PlaceMap' = [PlaceMap EXCEPT ![w] = @ \cup {{c} \X N}]
  <2>1. PlacesOf(w)' = PlacesOf(w) \cup {{c} \X N}
    BY <1>5, <1>7, <1>9
  <2> QED
    BY <1>4, <2>1 DEF PlaceMap
<1> QED
  BY <1>5, <1>8, <1>9 DEF PlaceMap

\* What such a step is to SliceStore.
LEMMA SeenAsStutter ==
    ASSUME linked' = linked, PlaceMap' = PlaceMap
    PROVE  UNCHANGED Store!storevars
BY DEF Store!storevars, PlaceMap

LEMMA SeenAsCreate ==
    ASSUME NEW f \in Files, f \notin linked, linked' = linked \cup {f}, PlaceMap' = PlaceMap
    PROVE  Store!Next
BY DEF Store!Next, Store!Create, PlaceMap

LEMMA SeenAsRelease ==
    ASSUME NEW w \in Files, NEW p \in PlaceMap[w], linked' = linked,
           PlaceMap' = [PlaceMap EXCEPT ![w] = @ \ {p}]
    PROVE  Store!Next
<1>1. Store!Release(w)
  BY DEF Store!Release, PlaceMap
<1> QED
  BY <1>1 DEF Store!Next

LEMMA SeenAsDelete ==
    ASSUME NEW w \in linked, linked \subseteq Files, linked' = linked \ {w},
           \A p, q \in PlaceMap[w] : p = q, PlaceMap' = [PlaceMap EXCEPT ![w] = {}]
    PROVE  Store!Next
<1>1. Store!Delete(w)
  BY DEF Store!Delete, Store!Moving, PlaceMap
<1> QED
  BY <1>1 DEF Store!Next

LEMMA SeenAsClaim ==
    ASSUME NEW w \in linked, linked \subseteq Files, linked' = linked,
           \A p, q \in PlaceMap[w] : p = q,
           NEW c \in Block, NEW i \in Slice, NEW j \in Slice, i <= j,
           \A f \in Files : \A q \in PlaceMap[f] : q \cap ({c} \X (i..j)) = {},
           PlaceMap' = [PlaceMap EXCEPT ![w] = @ \cup {{c} \X (i..j)}]
    PROVE  Store!Next
<1> DEFINE p == {c} \X (i..j)
<1>1. p = Store!Run(c, i, j)
  BY DEF Store!Run
<1>2. p \in Store!Runs
  <2>1. <<i, j>> \in {q \in Slice \X Slice : q[1] <= q[2]}
    OBVIOUS
  <2>2. Store!Run(c, <<i, j>>[1], <<i, j>>[2]) \in Store!Runs
    BY <2>1 DEF Store!Runs
  <2> QED
    BY <1>1, <2>2
<1>3. p \cap Store!Taken = {}
  BY DEF Store!Taken, PlaceMap
<1>4. Store!Claim(w)
  BY <1>2, <1>3 DEF Store!Claim, Store!Moving, PlaceMap
<1> QED
  BY <1>4 DEF Store!Next

LEMMA CallKeepsLinked ==
    ASSUME Call, ~\E f \in Files : Create(f)
    PROVE  linked' = linked
<1>1. ASSUME NEW f \in Files, Unlink(f) \/ OpenTrunc(f) \/ OpenTruncError(f)
      PROVE  linked' = linked
  BY <1>1 DEF Unlink, OpenTrunc, OpenTruncError, inodevars, vars
<1>2. ASSUME NEW f \in Files, NEW ki_pos \in Offsets, NEW count \in Counts,
             WriteRefused(f, ki_pos, count)
      PROVE  linked' = linked
  BY <1>2 DEF WriteRefused, inodevars, vars
<1>3. ASSUME NEW f \in Files, NEW ki_pos \in Offsets, NEW count \in Counts, NEW append \in Appends,
             \/ WriteNew(f, ki_pos, count, append)
             \/ WriteInPlace(f, ki_pos, count, append)
             \/ WriteInPlaceFault(f, ki_pos, count, append)
             \/ WriteMove(f, ki_pos, count, append)
             \/ WriteMoveLost(f, ki_pos, count, append)
      PROVE  linked' = linked
  BY <1>3 DEF WriteNew, WriteInPlace, WriteInPlaceFault, WriteMove, WriteMoveLost, inodevars
<1>4. CASE \/ \E b \in Block, c \in Contents \cup {ZeroContent} : OtherAlloc(b, c)
           \/ OtherAllocFails
           \/ \E b \in Block : OtherUnlink(b) \/ OtherTruncate(b)
  BY <1>4 DEF OtherAlloc, OtherAllocFails, OtherUnlink, OtherTruncate, inodevars
<1> QED
  BY <1>1, <1>2, <1>3, <1>4 DEF Call

SeenStep == Store!Next \/ UNCHANGED Store!storevars

\* A file gives up what it has, and lives on.
LEMMA SeenDrop ==
    ASSUME PlacesAre, PlacesAre', NEW w \in Files, DropFile(w), linked' = linked
    PROVE  SeenStep
<1>1. PlaceMap' = [PlaceMap EXCEPT ![w] = {}] /\ PlaceMap[w] = Single(HeldBy(w))
  BY StepDropsFile
<1>2. CASE HeldBy(w) = {}
  <2>1. PlaceMap[w] = {}
    BY <1>1, <1>2 DEF Single
  <2>2. PlaceMap' = PlaceMap
    BY <1>1, <2>1 DEF PlaceMap
  <2> QED
    BY <2>2, SeenAsStutter DEF SeenStep
<1>3. CASE HeldBy(w) # {}
  <2>1. HeldBy(w) \in PlaceMap[w] /\ PlaceMap[w] \ {HeldBy(w)} = {}
    BY <1>1, <1>3 DEF Single
  <2>2. PlaceMap' = [PlaceMap EXCEPT ![w] = @ \ {HeldBy(w)}]
    BY <1>1, <2>1
  <2> QED
    BY <2>1, <2>2, SeenAsRelease DEF SeenStep
<1> QED
  BY <1>2, <1>3

LEMMA SeenDropOld ==
    ASSUME PlacesAre, PlacesAre', SpotInv, DropOld, linked' = linked
    PROVE  SeenStep
BY StepDropsOld, SeenAsStutter, SeenAsRelease DEF SeenStep

LEMMA SeenKept ==
    ASSUME PlacesAre, PlacesAre', linked' = linked,
           \/ KeepHolders /\ ((\E b, s : OldHas(b, s)) => req'.f = req.f)
           \/ \E w \in Files : \/ MoveOut(w) /\ req'.f = w
                               \/ MoveBack(w) /\ req.f = w /\ w \in linked
    PROVE  SeenStep
BY StepKeeps, SeenAsStutter DEF SeenStep

\* The system calls that begin, or run without a pause.
LEMMA SeenCall ==
    ASSUME TypeOK, PlacesAre, PlacesAre', Call
    PROVE  SeenStep
<1>a. pc = "idle" /\ \A b, s : ~OldHas(b, s)
  BY CallsWhenIdle, NoOld
<1>1. CASE \E f \in Files : Create(f)
  <2>1. PICK f \in Files : Create(f)
    BY <1>1
  <2>2. f \notin linked /\ linked' = linked \cup {f} /\ pc' = "idle"
    BY <1>a, <2>1 DEF Create, callvars
  <2>3. KeepHolders
    <3>1. ~\E w \in Files : MoveOut(w) /\ pc' = "start" /\ req'.f = w
      BY <2>2
    <3>2. \A w \in Files : \A ki_pos \in Offsets, count \in Counts, append \in Appends :
            ~WriteMoveLost(w, ki_pos, count, append)
      BY <2>2 DEF WriteMoveLost
    <3> QED
      BY <3>1, <3>2, HoldersCall
  <2>4. PlaceMap' = PlaceMap
    BY <1>a, <2>3, StepKeeps
  <2> QED
    BY <2>2, <2>4, SeenAsCreate DEF SeenStep
<1>2. CASE ~\E f \in Files : Create(f)
  <2>1. linked' = linked
    BY <1>2, CallKeepsLinked
  <2>2. CASE KeepHolders
    BY <1>a, <2>1, <2>2, SeenKept
  <2>3. CASE \E w \in Files : MoveOut(w) /\ req'.f = w
    BY <2>1, <2>3, SeenKept
  <2>4. CASE \E w \in Files : DropFile(w)
    BY <2>1, <2>4, SeenDrop
  <2> QED
    BY <2>2, <2>3, <2>4, HoldersCall
<1> QED
  BY <1>1, <1>2

\* A write finds room.
LEMMA SeenHit ==
    ASSUME TypeOK, StoreInv, PlacesAre, PlacesAre', NEW i \in Slice, ScanHit(i)
    PROVE  SeenStep
<1>a. linked \subseteq Files
  BY DEF TypeOK, InodeTypeOK
<1>b. FoundAt(i) /\ cur \in Block /\ pc = "scan" /\ linked' = linked
  BY DEF ScanHit, FoundAt, TypeOK, CallTypeOK
<1>c. PICK c \in Block : c = cur
  BY <1>b
<1>d. PICK w \in Files : w = req.f /\ w \in linked
  BY <1>a, <1>b DEF StoreInv, CallInv
<1>e. PICK n \in Nat : n = NumSlices(req.size)
  BY <1>b, NewSlicesFree
<1> DEFINE N == i..(i + n - 1)
<1>f. NewSlices(i) = N /\ N \subseteq Slice
  BY <1>b, <1>e, NewSlicesFree DEF NewSlices
<1>1. Claims(w, c, N)
  BY <1>c, <1>d, <1>f, HoldersHit DEF StoreInv
<1>2. (\E b, s : OldHas(b, s)) => req'.f = req.f
  BY NoOld DEF ScanHit
<1> HIDE DEF N
<1>3. /\ N = {} => PlaceMap' = PlaceMap
      /\ N # {} => PlaceMap' = [PlaceMap EXCEPT ![w] = @ \cup {{c} \X N}]
      /\ PlaceMap[w] = OldPlace(w)
  BY <1>1, <1>2, <1>f, StepClaims
<1>4. CASE N = {}
  BY <1>b, <1>3, <1>4, SeenAsStutter DEF SeenStep
<1>5. CASE N # {}
  <2>1. \A p, q \in PlaceMap[w] : p = q
    BY <1>3 DEF OldPlace
  <2>2. i \in Int /\ n \in Int /\ i <= i + n - 1 /\ i + n - 1 \in N
    BY <1>5, GeometryAssumption DEF N, Slice
  <2>3. i + n - 1 \in Slice
    BY <1>f, <2>2
  <2>4. ASSUME NEW f \in Files, NEW q \in PlaceMap[f] PROVE q \cap ({c} \X N) = {}
    <3>1. q = HeldBy(f) \/ q = OldHeld
      BY DEF PlaceMap, PlacesAre, Single, OldPlace
    <3>2. SpotInv
      BY DEF StoreInv
    <3>3. \A p \in HeldBy(f) : IsTaken(p[1], p[2])
      BY <3>2 DEF HeldBy, HasL, SpotInv
    <3>4. \A p \in OldHeld : IsTaken(p[1], p[2])
      BY <3>2 DEF OldHeld, SpotInv
    <3>5. \A p \in {c} \X N : ~IsTaken(p[1], p[2])
      BY <1>1 DEF Claims
    <3> QED
      BY <3>1, <3>3, <3>4, <3>5
  <2>5. PICK j \in Slice : j = i + n - 1
    BY <2>3
  <2>6. N = i..j /\ i <= j
    BY <2>2, <2>5 DEF N
  <2>7. /\ \A f \in Files : \A q \in PlaceMap[f] : q \cap ({c} \X (i..j)) = {}
        /\ PlaceMap' = [PlaceMap EXCEPT ![w] = @ \cup {{c} \X (i..j)}]
    BY <1>3, <1>5, <2>4, <2>6
  <2> QED
    BY <1>a, <1>b, <1>d, <2>1, <2>6, <2>7, SeenAsClaim DEF SeenStep
<1> QED
  BY <1>4, <1>5

\* delete_slice returns.
LEMMA SeenReturn ==
    ASSUME TypeOK, StoreInv, PlacesAre, PlacesAre', FreeNothing \/ WalkEnd \/ WalkReadError
    PROVE  SeenStep
<1>a. linked \subseteq Files
  BY DEF TypeOK, InodeTypeOK
<1>b. DeleteReturns /\ pc \in {"free", "walk"} /\ CallInv /\ SpotInv
  BY DEF FreeNothing, WalkEnd, WalkReadError, StoreInv
<1>c. PICK w \in Files : w = req.f /\ w \in linked
  BY <1>a, <1>b DEF CallInv
<1>1. CASE FreeNothing /\ req.op = "unlink"
  <2>1. DropFile(w)
    BY <1>b, <1>c, <1>1, HoldersHandler
  <2>2. PlaceMap' = [PlaceMap EXCEPT ![w] = {}] /\ PlaceMap[w] = Single(HeldBy(w))
    BY <2>1, StepDropsFile
  <2>3. \A p, q \in PlaceMap[w] : p = q
    BY <2>2 DEF Single
  <2>4. linked' = linked \ {w}
    BY <1>b, <1>c, <1>1 DEF DeleteReturns
  <2> QED
    BY <1>a, <1>c, <2>2, <2>3, <2>4, SeenAsDelete DEF SeenStep
<1>2. CASE FreeNothing /\ req.op # "unlink"
  <2>1. DropOld
    BY <1>b, <1>2, HoldersHandler
  <2>2. linked' = linked
    BY <1>b, <1>2 DEF DeleteReturns
  <2> QED
    BY <1>b, <2>1, <2>2, SeenDropOld
<1>3. CASE WalkEnd \/ WalkReadError
  <2>1. KeepHolders /\ pc = "walk"
    BY <1>b, <1>3, HoldersHandler DEF WalkEnd, WalkReadError
  <2>2. \A b, s : ~OldHas(b, s)
    BY <2>1, NoOld
  <2>3. CASE req.op = "unlink"
    <3>1. PlaceMap' = PlaceMap
      BY <2>1, <2>2, StepKeeps
    <3>2. PlaceMap[w] = {}
      <4>1. \A b, s : ~HasL(w, b, s)
        BY <1>c, <2>1, <2>3, ExtentNone
      <4>2. HeldBy(w) = {} /\ OldHeld = {}
        BY <2>2, <4>1 DEF HeldBy, OldHeld
      <4> QED
        BY <4>2 DEF PlaceMap, PlacesAre, Single, OldPlace
    <3>3. PlaceMap' = [PlaceMap EXCEPT ![w] = {}]
      BY <3>1, <3>2 DEF PlaceMap
    <3>4. linked' = linked \ {w}
      BY <1>b, <1>c, <2>3 DEF DeleteReturns
    <3> QED
      BY <1>a, <1>c, <3>2, <3>3, <3>4, SeenAsDelete DEF SeenStep
  <2>4. CASE req.op # "unlink"
    <3>1. linked' = linked
      BY <1>b, <2>4 DEF DeleteReturns
    <3> QED
      BY <2>1, <2>2, <3>1, SeenKept
  <2> QED
    BY <2>3, <2>4
<1> QED
  BY <1>1, <1>2, <1>3

LEMMA SeenHandler ==
    ASSUME TypeOK, StoreInv, PlacesAre, PlacesAre', HandlerStep, ~MoveFaults
    PROVE  SeenStep
<1>a. linked \subseteq Files
  BY DEF TypeOK, InodeTypeOK
<1>b. CallInv /\ SpotInv /\ ListInv
  BY DEF StoreInv
<1>1. CASE \/ StartAtHead \/ StartAlloc \/ ScanNext \/ ScanAlloc \/ WalkFree \/ WalkKeep
  <2>1. linked' = linked /\ req' = req
    BY <1>1 DEF StartAtHead, StartAlloc, ScanNext, ScanAlloc, WalkFree, WalkKeep, inodevars
  <2>2. KeepHolders
    BY <1>b, <1>1, HoldersHandler
  <2> QED
    BY <2>1, <2>2, SeenKept
<1>2. CASE StartReadError \/ ScanReadError \/ ScanNoSpace \/ ScanInitError
  <2>1. linked' = linked /\ pc \in {"start", "scan"}
    BY <1>2 DEF StartReadError, ScanReadError, ScanNoSpace, ScanInitError, NoRoom
  <2>2. PICK w \in Files : w = req.f /\ w \in linked
    BY <1>a, <1>b, <2>1 DEF CallInv
  <2>3. MoveBack(w)
    BY <1>b, <1>2, <2>2, HoldersHandler
  <2> QED
    BY <2>1, <2>2, <2>3, SeenKept
<1>3. CASE StartNoSpace \/ StartInitError
  <2>1. linked' = linked
    BY <1>3 DEF StartNoSpace, StartInitError, inodevars
  <2>2. DropOld
    BY <1>b, <1>3, HoldersHandler
  <2> QED
    BY <1>b, <2>1, <2>2, SeenDropOld
<1>4. CASE \E i \in Slice : ScanHit(i)
  BY <1>4, SeenHit
<1>5. ASSUME NEW i \in Slice, ScanHitNothing(i) PROVE SeenStep
  <2>1. DropOld /\ linked' = linked
    BY <1>b, <1>5, HoldersNothing DEF ScanHitNothing
  <2> QED
    BY <1>b, <2>1, SeenDropOld
<1>6. ASSUME NEW i \in Slice, ScanFault(i) PROVE SeenStep
  <2>1. ~req.move /\ linked' = linked
    BY <1>6 DEF MoveFaults, ScanFault
  <2>2. KeepHolders /\ \A b, s : ~OldHas(b, s)
    BY <1>b, <1>6, <2>1, HoldersFault, NoOld
  <2> QED
    BY <2>1, <2>2, SeenKept
<1>7. CASE FreeSlices
  <2>1. linked' = linked /\ pc = "free"
    BY <1>7 DEF FreeSlices, inodevars
  <2>2. CASE req.op = "unlink"
    <3>1. PICK w \in Files : w = req.f
      BY <1>a, <1>b, <2>1 DEF CallInv
    <3>2. DropFile(w)
      BY <1>b, <1>7, <2>2, <3>1, HoldersFree DEF FreesFile
    <3> QED
      BY <2>1, <3>2, SeenDrop
  <2>3. CASE req.op # "unlink"
    <3>1. DropOld
      BY <1>b, <1>7, <2>3, HoldersFree DEF FreesOld
    <3> QED
      BY <1>b, <2>1, <3>1, SeenDropOld
  <2> QED
    BY <2>2, <2>3
<1>8. CASE FreeNothing \/ WalkEnd \/ WalkReadError
  BY <1>8, SeenReturn
<1> QED
  BY <1>1, <1>2, <1>3, <1>4, <1>5, <1>6, <1>7, <1>8 DEF HandlerStep

LEMMA SeenInit == Init => Store!Init
<1> SUFFICES ASSUME Init PROVE Store!Init
  OBVIOUS
<1>1. linked = {} /\ pc = "idle" /\ \A f \in Files : bno[f] = 0
  BY DEF Init
<1>2. ASSUME NEW f \in Files PROVE PlacesOf(f) = {}
  BY <1>1 DEF PlacesOf, Place, Holds, ExtentOf, OldExtent
<1> QED
  BY <1>1, <1>2 DEF Store!Init

LEMMA SeenNext ==
    TypeOK /\ StoreInv /\ GoneInv /\ TypeOK' /\ StoreInv' /\ GoneInv' /\ [Next]_vars /\ [~Harm]_vars
      => [Store!Next]_(Store!storevars)
<1> SUFFICES ASSUME TypeOK, StoreInv, GoneInv, TypeOK', StoreInv', GoneInv', [Next]_vars, [~Harm]_vars
             PROVE  SeenStep
  BY DEF SeenStep
<1>1. PlacesAre /\ PlacesAre'
  BY PlacesMapped, PlacesMappedNext DEF StoreInv
<1>2. CASE UNCHANGED vars
  <2>1. UNCHANGED <<linked, bno, slice_no, num_slices, pc, req>>
    BY <1>2 DEF vars, inodevars, callvars
  <2>2. \A f \in Files : PlacesOf(f)' = PlacesOf(f)
    BY <2>1 DEF PlacesOf, Place, Holds, ExtentOf, OldExtent
  <2>3. PlaceMap' = PlaceMap
    BY <2>2 DEF PlaceMap
  <2> QED
    BY <2>1, <2>3, SeenAsStutter DEF SeenStep
<1>3. CASE Next /\ ~Harm
  <2>1. ~MoveFaults
    BY <1>3 DEF Harm
  <2> QED
    BY <1>1, <1>3, <2>1, SeenCall, SeenHandler DEF Next
<1> QED
  BY <1>2, <1>3

(* The small-file store implements SliceStore.  As long as O_TRUNC does no  *)
(* harm and no copy from user space faults in the middle of a move, every   *)
(* step of write_small_file, of its recursion, of delete_slice and of       *)
(* unlink gives a file a place that overlaps nobody's, takes one of its own *)
(* places away as a whole, creates or deletes a file, or cannot be seen:    *)
(* whatever fails, and however full the disk is.                            *)
THEOREM StoreImplements == Spec /\ [][~Harm]_vars => ImplementsSliceStore
<1>1. Init => StoreInv /\ GoneInv
  BY StoreInvInit DEF Init, GoneInv
<1>2. TypeOK /\ TypeOK' /\ (StoreInv /\ GoneInv) /\ [Next]_vars /\ [~Harm]_vars => (StoreInv /\ GoneInv)'
  BY StoreInvNext, GoneInvNext DEF StoreInv
<1> QED
  BY <1>1, <1>2, SeenInit, SeenNext, TypeCorrect, PTL DEF Spec, ImplementsSliceStore, Store!Spec

-----------------------------------------------------------------------------
(* nr_used_slices *)

\* Held and OldExtent in terms of who holds which slice.
HeldMap ==
    /\ Held \subseteq Files \X Slice /\ OldExtent \subseteq Slice
    /\ \A f \in Files : \A s : <<f, s>> \in Held <=> \E b : HasL(f, b, s)
    /\ \A s : s \in OldExtent <=> \E b : OldHas(b, s)
    /\ IsFiniteSet(Held) /\ IsFiniteSet(OldExtent)

LEMMA HeldMapped == TypeOK /\ SpotInv /\ IsFiniteSet(linked) => HeldMap
<1> SUFFICES ASSUME TypeOK, SpotInv, IsFiniteSet(linked) PROVE HeldMap
  OBVIOUS
<1>a. linked \subseteq Files
  BY DEF TypeOK, InodeTypeOK
<1>1. \A f, s : <<f, s>> \in Held <=> f \in linked /\ s \in Holds(f)
  BY DEF Held
<1>2. \A f, s : <<f, s>> \in Held <=> \E b : HasL(f, b, s)
  BY <1>1 DEF HasL, Has
<1>3. \A s : s \in OldExtent <=> \E b : OldHas(b, s)
  BY DEF OldHas
<1>4. OldExtent \subseteq Slice
  BY <1>3 DEF SpotInv, IsTaken
<1>5. Held \subseteq linked \X Slice
  <2> SUFFICES ASSUME NEW x \in Held PROVE x \in linked \X Slice
    OBVIOUS
  <2>1. PICK f \in linked : x \in {f} \X Holds(f)
    BY DEF Held
  <2>2. PICK s \in Holds(f) : x = <<f, s>>
    BY <2>1
  <2>3. s \in Slice
    BY <2>2 DEF SpotInv, Has, IsTaken
  <2> QED
    BY <2>2, <2>3
<1>6. IsFiniteSet(Slice)
  BY GeometryAssumption, FS_Interval DEF Slice
<1>7. IsFiniteSet(linked \X Slice)
  BY <1>6, FS_Product
<1>8. IsFiniteSet(Held) /\ IsFiniteSet(OldExtent)
  BY <1>4, <1>5, <1>6, <1>7, FS_Subset
<1>9. Held \subseteq Files \X Slice
  BY <1>a, <1>5
<1> QED
  BY <1>2, <1>3, <1>4, <1>8, <1>9 DEF HeldMap

LEMMA HeldMappedNext == TypeOK' /\ SpotInv' /\ IsFiniteSet(linked)' => HeldMap'
BY HeldMapped, PTL

\* Counting a file's slices with the others'.
LEMMA CountWith ==
    ASSUME NEW H, IsFiniteSet(H), NEW S, IsFiniteSet(S), NEW w
    PROVE  /\ IsFiniteSet(H \cup ({w} \X S))
           /\ Cardinality(H \cup ({w} \X S)) <= Cardinality(H) + Cardinality(S)
           /\ H \cap ({w} \X S) = {} => Cardinality(H \cup ({w} \X S)) = Cardinality(H) + Cardinality(S)
<1> DEFINE T == {w} \X S
<1>1. IsFiniteSet({w}) /\ Cardinality({w}) = 1
  BY FS_Singleton
<1>2. Cardinality(H) \in Nat /\ Cardinality(S) \in Nat
  BY FS_CardinalityType
<1>3. IsFiniteSet(T) /\ Cardinality(T) = Cardinality({w}) * Cardinality(S)
  BY <1>1, FS_Product
<1>4. Cardinality(T) = Cardinality(S)
  BY <1>1, <1>2, <1>3
<1> HIDE DEF T
<1>5. IsFiniteSet(H \cup T) /\ Cardinality(H \cup T) = Cardinality(H) + Cardinality(T) - Cardinality(H \cap T)
  BY <1>3, FS_Union
<1>6. IsFiniteSet(H \cap T)
  BY FS_Subset, H \cap T \in SUBSET H
<1>7. Cardinality(H \cap T) \in Nat
  BY <1>6, FS_CardinalityType
<1>8. H \cap T = {} => Cardinality(H \cap T) = 0
  BY FS_EmptySet
<1>9. /\ IsFiniteSet(H \cup T)
      /\ Cardinality(H \cup T) <= Cardinality(H) + Cardinality(S)
      /\ H \cap T = {} => Cardinality(H \cup T) = Cardinality(H) + Cardinality(S)
  BY <1>2, <1>4, <1>5, <1>7, <1>8
<1> QED
  BY <1>9 DEF T

UsedSum == Cardinality(Held) + Cardinality(OldExtent)
HeldOf(w) == {s \in Slice : <<w, s>> \in Held}

LEMMA UsedSumNat ==
    ASSUME HeldMap
    PROVE  Cardinality(Held) \in Nat /\ Cardinality(OldExtent) \in Nat /\ UsedSum \in Nat
BY FS_CardinalityType DEF HeldMap, UsedSum

LEMMA UsedSumNatNext ==
    ASSUME HeldMap'
    PROVE  Cardinality(Held') \in Nat /\ Cardinality(OldExtent') \in Nat /\ UsedSum' \in Nat
BY FS_CardinalityType DEF HeldMap, UsedSum

LEMMA UsedKeeps ==
    ASSUME HeldMap, HeldMap', KeepHolders \/ DropOld
    PROVE  /\ Held' = Held
           /\ KeepHolders => OldExtent' = OldExtent
           /\ DropOld => OldExtent' = {}
<1>1. \A f \in Files : \A s : <<f, s>> \in Held' <=> <<f, s>> \in Held
  BY DEF HeldMap, KeepHolders, DropOld
<1>2. Held \subseteq Files \X Slice /\ Held' \subseteq Files \X Slice
  BY DEF HeldMap
<1>3. Held' = Held
  BY <1>1, <1>2
<1>4. KeepHolders => OldExtent' = OldExtent
  BY DEF HeldMap, KeepHolders
<1>5. DropOld => OldExtent' = {}
  BY DEF HeldMap, DropOld
<1> QED
  BY <1>3, <1>4, <1>5

\* A file gives up its slices, or exchanges them for the old slices of its move.
LEMMA UsedLeaves ==
    ASSUME HeldMap, HeldMap', NEW w \in Files, DropFile(w) \/ MoveOut(w)
    PROVE  /\ OldExtent = {}
           /\ DropFile(w) => OldExtent' = {}
           /\ MoveOut(w) => OldExtent' = HeldOf(w)
           /\ IsFiniteSet(HeldOf(w))
           /\ Cardinality(Held) = Cardinality(Held') + Cardinality(HeldOf(w))
<1>1. Held \subseteq Files \X Slice /\ Held' \subseteq Files \X Slice /\ IsFiniteSet(Held')
  BY DEF HeldMap
<1>2. \A f \in Files : \A s : <<f, s>> \in Held' <=> f # w /\ <<f, s>> \in Held
  BY DEF HeldMap, DropFile, MoveOut
<1>3. Held = Held' \cup ({w} \X HeldOf(w)) /\ Held' \cap ({w} \X HeldOf(w)) = {}
  BY <1>1, <1>2 DEF HeldOf
<1>4. IsFiniteSet(Slice)
  BY GeometryAssumption, FS_Interval DEF Slice
<1>5. IsFiniteSet(HeldOf(w))
  BY <1>4, FS_Subset, HeldOf(w) \in SUBSET Slice DEF HeldOf
<1>6. PICK H : H = Held'
  OBVIOUS
<1>7. Cardinality(Held) = Cardinality(Held') + Cardinality(HeldOf(w))
  BY <1>1, <1>3, <1>5, <1>6, CountWith
<1>8. OldExtent = {} /\ (DropFile(w) => OldExtent' = {})
  BY DEF HeldMap, DropFile, MoveOut
<1>9. ASSUME MoveOut(w) PROVE OldExtent' = HeldOf(w)
  <2>1. \A s : s \in OldExtent' <=> <<w, s>> \in Held
    BY <1>9 DEF HeldMap, MoveOut
  <2>2. \A s : <<w, s>> \in Held => s \in Slice
    BY <1>1
  <2> QED
    BY <2>1, <2>2 DEF HeldOf
<1> QED
  BY <1>5, <1>7, <1>8, <1>9

\* A file gets its old slices back, or new ones.
LEMMA UsedJoins ==
    ASSUME HeldMap, HeldMap', NEW w \in Files, NEW S \in SUBSET Slice,
           \/ MoveBack(w) /\ w \in linked /\ S = OldExtent
           \/ \E c : Claims(w, c, S)
    PROVE  /\ MoveBack(w) => OldExtent' = {}
           /\ Cardinality(Held') <= Cardinality(Held) + Cardinality(S)
<1>1. Held \subseteq Files \X Slice /\ Held' \subseteq Files \X Slice /\ IsFiniteSet(Held)
  BY DEF HeldMap
<1>2. \A f \in Files : \A s : <<f, s>> \in Held' <=> <<f, s>> \in Held \/ (f = w /\ s \in S)
  BY DEF HeldMap, MoveBack, Claims
<1>3. Held' = Held \cup ({w} \X S)
  BY <1>1, <1>2
<1>4. IsFiniteSet(Slice)
  BY GeometryAssumption, FS_Interval DEF Slice
<1>5. IsFiniteSet(S)
  BY <1>4, FS_Subset
<1>6. Cardinality(Held') <= Cardinality(Held) + Cardinality(S)
  BY <1>1, <1>3, <1>5, CountWith
<1>7. MoveBack(w) => OldExtent' = {}
  BY DEF HeldMap, MoveBack
<1> QED
  BY <1>6, <1>7

LEMMA CallCounts ==
    ASSUME TypeOK, TypeOK', Call
    PROVE  nr_used_slices' >= nr_used_slices
<1>a. /\ nr_used_slices \in Int /\ nr_used_slices' \in Int /\ i_size \in [Files -> Nat]
  BY DEF TypeOK, SbTypeOK, InodeTypeOK
<1>b. SUFFICES ASSUME nr_used_slices' # nr_used_slices PROVE nr_used_slices' >= nr_used_slices
  BY <1>a
<1>1. ASSUME NEW f \in Files, Create(f) \/ Unlink(f) \/ OpenTrunc(f) \/ OpenTruncError(f)
      PROVE  nr_used_slices' = nr_used_slices
  BY <1>1 DEF Create, Unlink, OpenTrunc, OpenTruncError, sbvars, vars
<1>2. ASSUME NEW f \in Files, NEW ki_pos \in Offsets, NEW count \in Counts,
             WriteRefused(f, ki_pos, count)
      PROVE  nr_used_slices' = nr_used_slices
  BY <1>2 DEF WriteRefused, sbvars, vars
<1>3. ASSUME NEW f \in Files, NEW ki_pos \in Offsets, NEW count \in Counts, NEW append \in Appends,
             \/ WriteNew(f, ki_pos, count, append)
             \/ WriteInPlaceFault(f, ki_pos, count, append)
             \/ WriteMove(f, ki_pos, count, append)
             \/ WriteMoveLost(f, ki_pos, count, append)
      PROVE  nr_used_slices' = nr_used_slices
  BY <1>3 DEF WriteNew, WriteInPlaceFault, WriteMove, WriteMoveLost, sbvars
<1>4. ASSUME NEW f \in Files, NEW ki_pos \in Offsets, NEW count \in Counts, NEW append \in Appends,
             WriteInPlace(f, ki_pos, count, append)
      PROVE  nr_used_slices' >= nr_used_slices
  <2>1. PICK z \in Nat : z = NewSize(f, StartsAt(f, ki_pos, append), count)
    BY <1>a, NewSizeCovers
  <2>2. nr_used_slices' = nr_used_slices + NumSlices(z) /\ NumSlices(z) \in Nat
    BY <1>4, <2>1, NumSlicesNat DEF WriteInPlace
  <2> QED
    BY <1>a, <2>2
<1>5. CASE \/ \E b \in Block, c \in Contents \cup {ZeroContent} : OtherAlloc(b, c)
           \/ OtherAllocFails
           \/ \E b \in Block : OtherUnlink(b) \/ OtherTruncate(b)
  BY <1>a, <1>5 DEF OtherAlloc, OtherAllocFails, OtherUnlink, OtherTruncate, sbvars
<1> QED
  BY <1>b, <1>1, <1>2, <1>3, <1>4, <1>5 DEF Call

\* Steps that do not lower the counter.
LEMMA UsedRises ==
    ASSUME TypeOK, TypeOK', HeldMap, HeldMap', UsedNotLow, nr_used_slices' >= nr_used_slices,
           \/ KeepHolders \/ DropOld
           \/ \E w \in Files : MoveOut(w) \/ DropFile(w) \/ (MoveBack(w) /\ w \in linked)
    PROVE  UsedNotLow'
<1>a. nr_used_slices \in Int /\ nr_used_slices' \in Int
  BY DEF TypeOK, SbTypeOK
<1>b. Cardinality(Held) \in Nat /\ Cardinality(OldExtent) \in Nat
  BY UsedSumNat
<1>c. Cardinality(Held') \in Nat /\ Cardinality(OldExtent') \in Nat
  BY UsedSumNatNext
<1>d. Cardinality({}) = 0
  BY FS_EmptySet
<1>e. SUFFICES Cardinality(Held') + Cardinality(OldExtent') <= Cardinality(Held) + Cardinality(OldExtent)
  BY <1>a, <1>b, <1>c DEF UsedNotLow
<1>1. CASE KeepHolders
  BY <1>1, <1>b, UsedKeeps
<1>2. CASE DropOld
  BY <1>2, <1>b, <1>d, UsedKeeps
<1>3. ASSUME NEW w \in Files, MoveOut(w) \/ DropFile(w)
      PROVE  Cardinality(Held') + Cardinality(OldExtent') <= Cardinality(Held) + Cardinality(OldExtent)
  <2>1. /\ OldExtent = {} /\ (DropFile(w) => OldExtent' = {}) /\ (MoveOut(w) => OldExtent' = HeldOf(w))
        /\ IsFiniteSet(HeldOf(w)) /\ Cardinality(Held) = Cardinality(Held') + Cardinality(HeldOf(w))
    BY <1>3, UsedLeaves
  <2>2. Cardinality(HeldOf(w)) \in Nat
    BY <2>1, FS_CardinalityType
  <2>3. CASE OldExtent' = {}
    BY <1>b, <1>c, <1>d, <2>1, <2>2, <2>3
  <2>4. CASE OldExtent' = HeldOf(w)
    BY <1>b, <1>c, <1>d, <2>1, <2>2, <2>4
  <2> QED
    BY <1>3, <2>1, <2>3, <2>4
<1>4. ASSUME NEW w \in Files, MoveBack(w), w \in linked
      PROVE  Cardinality(Held') + Cardinality(OldExtent') <= Cardinality(Held) + Cardinality(OldExtent)
  <2>1. OldExtent \in SUBSET Slice
    BY DEF HeldMap
  <2>2. OldExtent' = {} /\ Cardinality(Held') <= Cardinality(Held) + Cardinality(OldExtent)
    BY <1>4, <2>1, UsedJoins
  <2> QED
    BY <1>b, <1>c, <1>d, <2>2
<1> QED
  BY <1>1, <1>2, <1>3, <1>4

\* A write counts the slices it claims.
LEMMA UsedHit ==
    ASSUME TypeOK, TypeOK', StoreInv, HeldMap, HeldMap', UsedNotLow, NEW i \in Slice, ScanHit(i)
    PROVE  UsedNotLow'
<1>a. nr_used_slices \in Int /\ nr_used_slices' \in Int
  BY DEF TypeOK, SbTypeOK
<1>b. Cardinality(Held) \in Nat /\ Cardinality(OldExtent) \in Nat
  BY UsedSumNat
<1>c. Cardinality(Held') \in Nat /\ Cardinality(OldExtent') \in Nat
  BY UsedSumNatNext
<1>d. FoundAt(i) /\ CountSlices
  BY DEF ScanHit
<1>e. PICK n \in Nat : n = NumSlices(req.size)
  BY <1>d, NewSlicesFree
<1> DEFINE N == i..(i + n - 1)
<1>f. NewSlices(i) = N /\ N \in SUBSET Slice
  BY <1>d, <1>e, NewSlicesFree DEF NewSlices
<1>g. PICK w \in Files : w = req.f
  BY <1>d, NewSlicesFree
<1>h. Cardinality(N) = n
  <2>1. i \in Int
    BY GeometryAssumption DEF Slice
  <2> QED
    BY <2>1, FS_Interval
<1> HIDE DEF N
<1>1. Claims(w, cur, N)
  BY <1>f, <1>g, HoldersHit DEF StoreInv
<1>2. OldExtent' = OldExtent /\ Cardinality(Held') <= Cardinality(Held) + Cardinality(N)
  <2>1. OldExtent' = OldExtent
    BY <1>1 DEF HeldMap, Claims
  <2>2. Cardinality(Held') <= Cardinality(Held) + Cardinality(N)
    BY <1>1, <1>f, UsedJoins
  <2> QED
    BY <2>1, <2>2
<1>3. nr_used_slices' = nr_used_slices + n
  BY <1>d, <1>e DEF CountSlices
<1> QED
  BY <1>a, <1>b, <1>c, <1>h, <1>2, <1>3 DEF UsedNotLow

\* delete_slice takes off what it frees.
LEMMA UsedFree ==
    ASSUME TypeOK, TypeOK', StoreInv, HeldMap, HeldMap', UsedNotLow, FreeSlices
    PROVE  UsedNotLow'
<1>a. /\ nr_used_slices \in Int /\ nr_used_slices' \in Int /\ slice_no \in [Files -> 0..(NrSlices - 1)]
      /\ num_slices \in [Files -> Nat] /\ linked \subseteq Files
  BY DEF TypeOK, SbTypeOK, InodeTypeOK
<1>b. Cardinality(Held) \in Nat /\ Cardinality(OldExtent) \in Nat
  BY UsedSumNat
<1>c. Cardinality(Held') \in Nat /\ Cardinality(OldExtent') \in Nat
  BY UsedSumNatNext
<1>d. Cardinality({}) = 0
  BY FS_EmptySet
<1>e. /\ pc = "free" /\ CallInv /\ SpotInv /\ req.old_bno # 0
      /\ nr_used_slices' = nr_used_slices - req.old_num_slices
  BY DEF FreeSlices, StoreInv
<1>f. req \in Req
  BY <1>e DEF TypeOK, CallTypeOK
<1>g. PICK n \in Nat : n = req.old_num_slices
  BY <1>f DEF Req
<1>h. PICK a \in Int : a = req.old_slice_no
  BY <1>f, GeometryAssumption DEF Req
<1>i. Cardinality(a..(a + n - 1)) = n
  BY FS_Interval
<1>1. CASE req.op = "unlink"
  <2>1. PICK w \in Files : w = req.f /\ w \in linked
    BY <1>a, <1>e DEF CallInv
  <2>2. DropFile(w)
    BY <1>e, <1>1, <2>1, HoldersFree DEF FreesFile
  <2>3. OldExtent = {} /\ OldExtent' = {} /\ Cardinality(Held) = Cardinality(Held') + Cardinality(HeldOf(w))
    BY <2>2, UsedLeaves
  <2>4. Holds(w) = a..(a + n - 1)
    BY <1>e, <1>g, <1>h, <1>1, <2>1 DEF CallInv, UnlinkLocals, Holds, ExtentOf
  <2>5. HeldOf(w) = Holds(w)
    <3>1. \A s : <<w, s>> \in Held <=> s \in Holds(w)
      BY <2>1 DEF Held
    <3>2. Held \subseteq Files \X Slice
      BY DEF HeldMap
    <3>3. \A s : <<w, s>> \in Held => s \in Slice
      BY <3>2
    <3> QED
      BY <3>1, <3>3 DEF HeldOf
  <2> QED
    BY <1>a, <1>b, <1>c, <1>d, <1>e, <1>g, <1>i, <2>3, <2>4, <2>5 DEF UsedNotLow
<1>2. CASE req.op # "unlink"
  <2>1. DropOld
    BY <1>e, <1>2, HoldersFree DEF FreesOld
  <2>2. Held' = Held /\ OldExtent' = {}
    BY <2>1, UsedKeeps
  <2>3. req.op = "write" /\ req.move
    BY <1>e, <1>f, <1>2 DEF CallInv, Req
  <2>4. OldExtent = a..(a + n - 1)
    BY <1>e, <1>g, <1>h, <2>3 DEF OldExtent
  <2> QED
    BY <1>a, <1>b, <1>c, <1>d, <1>e, <1>g, <1>i, <2>2, <2>4 DEF UsedNotLow
<1> QED
  BY <1>1, <1>2

LEMMA LinkedFinite ==
    ASSUME IsFiniteSet(linked), [Next]_vars
    PROVE  IsFiniteSet(linked)'
<1>1. ASSUME NEW f \in Files, Create(f) PROVE IsFiniteSet(linked')
  BY <1>1, FS_AddElement DEF Create
<1>2. CASE Call /\ ~\E f \in Files : Create(f)
  BY <1>2, CallKeepsLinked
<1>3. CASE \/ StartAtHead \/ StartReadError \/ StartAlloc \/ StartNoSpace \/ StartInitError
           \/ (\E i \in Slice : ScanHit(i) \/ ScanHitNothing(i) \/ ScanFault(i))
           \/ ScanNext \/ ScanReadError \/ ScanAlloc \/ ScanNoSpace \/ ScanInitError
           \/ FreeSlices \/ WalkFree \/ WalkKeep
  <2>1. linked' = linked
    BY <1>3 DEF StartAtHead, StartReadError, StartAlloc, StartNoSpace, StartInitError,
       ScanHit, ScanHitNothing, ScanFault, ScanNext, ScanReadError, ScanAlloc, ScanNoSpace,
       ScanInitError, FreeSlices, WalkFree, WalkKeep, inodevars
  <2> QED
    BY <2>1
<1>4. CASE FreeNothing \/ WalkEnd \/ WalkReadError
  <2>1. linked' \in SUBSET linked
    BY <1>4 DEF FreeNothing, WalkEnd, WalkReadError, DeleteReturns
  <2> QED
    BY <2>1, FS_Subset
<1>5. CASE UNCHANGED vars
  BY <1>5 DEF vars, inodevars
<1> QED
  BY <1>1, <1>2, <1>3, <1>4, <1>5 DEF Next, HandlerStep

LEMMA UsedNext ==
    ASSUME TypeOK, TypeOK', StoreInv, StoreInv', IsFiniteSet(linked), UsedNotLow, [Next]_vars, [~Harm]_vars
    PROVE  UsedNotLow'
<1>a. nr_used_slices \in Int /\ nr_used_slices' \in Int /\ linked \subseteq Files
  BY DEF TypeOK, SbTypeOK, InodeTypeOK
<1>b. CallInv /\ ListInv /\ SpotInv /\ SpotInv'
  BY DEF StoreInv
<1>c. HeldMap /\ HeldMap'
  BY <1>b, HeldMapped, HeldMappedNext, LinkedFinite
<1>1. CASE UNCHANGED vars
  <2>1. UNCHANGED <<linked, bno, slice_no, num_slices, pc, req, nr_used_slices>>
    BY <1>1 DEF vars, sbvars, inodevars, callvars
  <2>2. \A f : Holds(f)' = Holds(f)
    BY <2>1 DEF Holds, ExtentOf
  <2>3. Held' = Held /\ OldExtent' = OldExtent
    BY <2>1, <2>2 DEF Held, OldExtent
  <2> QED
    BY <2>1, <2>3 DEF UsedNotLow
<1>2. CASE Call
  <2>1. nr_used_slices' >= nr_used_slices
    BY <1>2, CallCounts
  <2>2. \/ KeepHolders \/ \E w \in Files : MoveOut(w) \/ DropFile(w)
    BY <1>2, HoldersCall
  <2> QED
    BY <1>c, <2>1, <2>2, UsedRises
<1>3. CASE \/ StartAtHead \/ StartReadError \/ StartAlloc \/ StartNoSpace \/ StartInitError
           \/ ScanNext \/ ScanReadError \/ ScanAlloc \/ ScanNoSpace \/ ScanInitError
           \/ FreeNothing \/ WalkEnd \/ WalkReadError \/ WalkFree \/ WalkKeep
  <2>1. nr_used_slices' = nr_used_slices
    BY <1>3 DEF StartAtHead, StartReadError, StartAlloc, StartNoSpace, StartInitError,
       ScanNext, ScanReadError, ScanAlloc, ScanNoSpace, ScanInitError,
       FreeNothing, WalkEnd, WalkReadError, WalkFree, WalkKeep, sbvars
  <2>2. nr_used_slices' >= nr_used_slices
    BY <1>a, <2>1
  <2>3. StartReadError \/ ScanReadError \/ ScanNoSpace \/ ScanInitError => pc \in {"start", "scan"}
    BY DEF StartReadError, ScanReadError, ScanNoSpace, ScanInitError, NoRoom
  <2>4. \/ KeepHolders \/ DropOld
        \/ \E w \in Files : DropFile(w) \/ (MoveBack(w) /\ w \in linked)
    BY <1>3, <1>b, <2>3, HoldersHandler DEF CallInv
  <2> QED
    BY <1>c, <2>2, <2>4, UsedRises
<1>4. CASE \E i \in Slice : ScanHit(i)
  BY <1>4, <1>c, UsedHit
<1>5. ASSUME NEW i \in Slice, ScanHitNothing(i) PROVE UsedNotLow'
  <2>1. DropOld
    BY <1>b, <1>5, HoldersNothing
  <2>2. FoundAt(i) /\ CountSlices
    BY <1>5 DEF ScanHitNothing
  <2>3. NumSlices(req.size) \in Nat
    BY <2>2, NewSlicesFree
  <2>4. nr_used_slices' >= nr_used_slices
    BY <1>a, <2>2, <2>3 DEF CountSlices
  <2> QED
    BY <1>c, <2>1, <2>4, UsedRises
<1>6. ASSUME NEW i \in Slice, ScanFault(i), ~MoveFaults PROVE UsedNotLow'
  <2>1. ~req.move /\ nr_used_slices' = nr_used_slices
    BY <1>6 DEF MoveFaults, ScanFault, sbvars
  <2>2. KeepHolders
    BY <1>b, <1>6, <2>1, HoldersFault
  <2>3. nr_used_slices' >= nr_used_slices
    BY <1>a, <2>1
  <2> QED
    BY <1>c, <2>2, <2>3, UsedRises
<1>7. CASE FreeSlices
  BY <1>7, <1>c, UsedFree
<1> QED
  BY <1>1, <1>2, <1>3, <1>4, <1>5, <1>6, <1>7 DEF Next, HandlerStep, Harm

(* As long as O_TRUNC does no harm and no copy from user space faults in    *)
(* the middle of a move, nr_used_slices is never below the slices the files *)
(* hold, the old slices of a move included: the subtraction in delete_slice *)
(* never wraps the counter, whatever else fails.                            *)
THEOREM UsedCountSafe == Spec /\ [][~Harm]_vars => []UsedNotLow
<1> DEFINE UsedInv == StoreInv /\ IsFiniteSet(linked) /\ UsedNotLow
<1>1. Init => UsedInv
  <2> SUFFICES ASSUME Init PROVE UsedInv
    OBVIOUS
  <2>1. StoreInv /\ linked = {} /\ nr_used_slices = 0 /\ pc = "idle"
    BY StoreInvInit DEF Init
  <2>2. Held = {} /\ OldExtent = {}
    BY <2>1 DEF Held, OldExtent
  <2>3. IsFiniteSet({}) /\ Cardinality({}) = 0
    BY FS_EmptySet
  <2>4. IsFiniteSet(linked)
    BY <2>1, <2>3
  <2>5. UsedNotLow
    BY <2>1, <2>2, <2>3 DEF UsedNotLow
  <2> QED
    BY <2>1, <2>4, <2>5
<1>2. TypeOK /\ TypeOK' /\ UsedInv /\ [Next]_vars /\ [~Harm]_vars => UsedInv'
  <2> SUFFICES ASSUME TypeOK, TypeOK', UsedInv, [Next]_vars, [~Harm]_vars PROVE UsedInv'
    OBVIOUS
  <2>1. StoreInv'
    BY StoreInvNext
  <2>2. IsFiniteSet(linked)'
    BY LinkedFinite
  <2>3. UsedNotLow'
    BY <2>1, UsedNext
  <2> QED
    BY <2>1, <2>2, <2>3
<1> QED
  BY <1>1, <1>2, TypeCorrect, PTL DEF Spec

-----------------------------------------------------------------------------
(* What the comments of the code claim *)

\* A file with an index_block has slices, and a search is for at least one.
HasSlices == \A f \in Files : bno[f] # 0 => num_slices[f] # 0
AsksForRoom == pc \in {"start", "scan"} => req.size # 0

LEMMA AsksForRoomNext ==
    ASSUME 0 \notin Counts, TypeOK, AsksForRoom, [Next]_vars
    PROVE  AsksForRoom'
<1>a. i_size \in [Files -> Nat]
  BY DEF TypeOK, InodeTypeOK
<1>1. CASE pc' \notin {"start", "scan"}
  BY <1>1 DEF AsksForRoom
<1>2. CASE pc \in {"start", "scan"} /\ req' = req
  BY <1>2 DEF AsksForRoom
<1>3. ASSUME NEW f \in Files, NEW ki_pos \in Offsets, NEW count \in Counts, NEW append \in Appends,
             \/ WriteNew(f, ki_pos, count, append)
             \/ WriteMove(f, ki_pos, count, append)
      PROVE  AsksForRoom'
  <2> DEFINE pos == StartsAt(f, ki_pos, append)
             size == NewSize(f, pos, count)
  <2>1. pos \in Nat /\ count \in Nat /\ size \in Nat /\ pos + count <= size
    BY <1>a, NewSizeCovers
  <2>2. count # 0
    BY <1>3
  <2> HIDE DEF pos, size
  <2>3. size # 0
    BY <2>1, <2>2
  <2>4. \E s \in {count, size} : \E p, n, user, tags, move : req' = WriteReq(f, s, p, n, user, tags, move)
    BY <1>3, Zenon DEF WriteNew, WriteMove, pos, size
  <2>5. req'.size \in {count, size}
    BY <2>4 DEF WriteReq
  <2> QED
    BY <2>2, <2>3, <2>5 DEF AsksForRoom
<1>4. CASE Call
  <2>1. ASSUME NEW f \in Files, Create(f) PROVE AsksForRoom'
    BY <1>1, <2>1 DEF Create, callvars
  <2>2. ASSUME NEW f \in Files, Unlink(f) \/ OpenTrunc(f) \/ OpenTruncError(f) PROVE AsksForRoom'
    BY <1>1, <2>2 DEF Unlink, OpenTrunc, OpenTruncError, callvars, vars
  <2>3. ASSUME NEW f \in Files, NEW ki_pos \in Offsets, NEW count \in Counts,
               WriteRefused(f, ki_pos, count)
        PROVE  AsksForRoom'
    BY <1>1, <2>3 DEF WriteRefused, MayWrite, vars, callvars
  <2>4. ASSUME NEW f \in Files, NEW ki_pos \in Offsets, NEW count \in Counts, NEW append \in Appends,
               \/ WriteInPlace(f, ki_pos, count, append)
               \/ WriteInPlaceFault(f, ki_pos, count, append)
               \/ WriteMoveLost(f, ki_pos, count, append)
        PROVE  AsksForRoom'
    BY <1>1, <2>4 DEF WriteInPlace, WriteInPlaceFault, WriteMoveLost, MayWrite, callvars
  <2>5. CASE \/ \E b \in Block, c \in Contents \cup {ZeroContent} : OtherAlloc(b, c)
             \/ OtherAllocFails
             \/ \E b \in Block : OtherUnlink(b) \/ OtherTruncate(b)
    BY <1>1, <2>5 DEF OtherAlloc, OtherAllocFails, OtherUnlink, OtherTruncate, callvars
  <2> QED
    BY <1>3, <1>4, <2>1, <2>2, <2>3, <2>4, <2>5 DEF Call
<1>5. CASE HandlerStep
  <2>1. CASE \/ StartReadError \/ StartNoSpace \/ StartInitError \/ ScanReadError \/ ScanNoSpace
             \/ ScanInitError \/ FreeNothing \/ WalkEnd \/ WalkReadError
    BY <1>1, <2>1 DEF StartReadError, StartNoSpace, StartInitError, ScanReadError, ScanNoSpace,
       ScanInitError, FreeNothing, WalkEnd, WalkReadError, FailWrite, DeleteReturns, Oops, Return
  <2>2. ASSUME NEW i \in Slice, ScanHit(i) \/ ScanHitNothing(i) \/ ScanFault(i) PROVE AsksForRoom'
    BY <1>1, <2>2 DEF ScanHit, ScanHitNothing, ScanFault, FailWrite, Return
  <2>3. CASE StartAtHead \/ StartAlloc \/ ScanNext \/ ScanAlloc
    BY <1>2, <2>3 DEF StartAtHead, StartAlloc, ScanNext, ScanAlloc, NoRoom
  <2>4. CASE FreeSlices \/ WalkFree \/ WalkKeep
    BY <1>1, <2>4 DEF FreeSlices, WalkFree, WalkKeep
  <2> QED
    BY <1>5, <2>1, <2>2, <2>3, <2>4 DEF HandlerStep
<1>6. CASE UNCHANGED vars
  BY <1>6 DEF AsksForRoom, vars, callvars
<1> QED
  BY <1>4, <1>5, <1>6 DEF Next

LEMMA HasSlicesNext ==
    ASSUME TypeOK, CallInv, AsksForRoom, HasSlices, [Next]_vars
    PROVE  HasSlices'
<1>a. /\ bno \in [Files -> 0..(NrBlocks - 1)] /\ num_slices \in [Files -> Nat]
      /\ pc \in {"idle", "start", "scan", "free", "walk"}
  BY DEF TypeOK, InodeTypeOK, CallTypeOK
<1>b. pc # "idle" => req.f \in Files /\ req.size \in Nat
  <2>1. pc # "idle" => req \in Req
    BY DEF TypeOK, CallTypeOK
  <2> QED
    BY <2>1 DEF Req
<1>1. CASE UNCHANGED <<bno, num_slices>>
  BY <1>1 DEF HasSlices
<1>2. ASSUME NEW f \in Files, bno' = [bno EXCEPT ![f] = 0], \A g \in Files \ {f} : num_slices'[g] = num_slices[g]
      PROVE  HasSlices'
  BY <1>2, <1>a DEF HasSlices
\* A write that fails gives a moved file its index_block back.
<1>3. ASSUME FailWrite, pc \in {"start", "scan"}, num_slices' \in [Files -> Nat],
             \A g \in Files \ {req.f} : num_slices'[g] = num_slices[g],
             num_slices'[req.f] = num_slices[req.f] \/ num_slices'[req.f] # 0
      PROVE  HasSlices'
  <2>1. req.f \in Files
    BY <1>3, <1>b
  <2>2. CASE ~req.move
    BY <1>3, <2>1, <2>2 DEF FailWrite, HasSlices
  <2>3. CASE req.move
    <3>1. num_slices[req.f] # 0
      BY <1>3, <2>3 DEF CallInv, WriteLocals
    <3>2. bno' = [bno EXCEPT ![req.f] = req.old_bno]
      BY <1>3, <2>3 DEF FailWrite
    <3> QED
      BY <1>a, <1>3, <2>1, <3>1, <3>2 DEF HasSlices
  <2> QED
    BY <2>2, <2>3
\* The slices a search claims are not none.
<1>4. ASSUME NEW i \in Slice, FoundAt(i), ClaimSlices(i)
      PROVE  /\ pc = "scan" /\ req.f \in Files /\ num_slices' \in [Files -> Nat] /\ num_slices'[req.f] # 0
             /\ \A g \in Files \ {req.f} : num_slices'[g] = num_slices[g]
  <2>1. pc = "scan" /\ req.f \in Files /\ req.size \in Nat /\ req.size # 0
    BY <1>4, <1>b DEF FoundAt, AsksForRoom
  <2>2. NumSlices(req.size) \in Nat /\ NumSlices(req.size) # 0
    BY <2>1, SlicesHold
  <2>3. num_slices' = [num_slices EXCEPT ![req.f] = NumSlices(req.size)]
    BY <1>4 DEF ClaimSlices
  <2> QED
    BY <1>a, <2>1, <2>2, <2>3
<1>5. ASSUME DeleteReturns, pc # "idle" PROVE HasSlices'
  BY <1>1, <1>2, <1>5, <1>b DEF DeleteReturns
<1>6. CASE Call
  <2>1. ASSUME NEW f \in Files, Create(f) PROVE HasSlices'
    <3>1. \A g \in Files \ {f} : num_slices'[g] = num_slices[g]
      BY <1>a, <2>1 DEF Create
    <3> QED
      BY <1>2, <2>1, <3>1 DEF Create
  <2>2. ASSUME NEW f \in Files, Unlink(f) \/ OpenTrunc(f) \/ OpenTruncError(f) PROVE HasSlices'
    BY <1>1, <2>2 DEF Unlink, OpenTrunc, OpenTruncError, inodevars, vars
  <2>3. ASSUME NEW f \in Files, NEW ki_pos \in Offsets, NEW count \in Counts,
               WriteRefused(f, ki_pos, count)
        PROVE  HasSlices'
    BY <1>1, <2>3 DEF WriteRefused, inodevars, vars
  <2>4. ASSUME NEW f \in Files, NEW ki_pos \in Offsets, NEW count \in Counts, NEW append \in Appends,
               \/ WriteNew(f, ki_pos, count, append)
               \/ WriteInPlace(f, ki_pos, count, append)
               \/ WriteInPlaceFault(f, ki_pos, count, append)
        PROVE  HasSlices'
    BY <1>1, <2>4 DEF WriteNew, WriteInPlace, WriteInPlaceFault, inodevars
  <2>5. ASSUME NEW f \in Files, NEW ki_pos \in Offsets, NEW count \in Counts, NEW append \in Appends,
               \/ WriteMove(f, ki_pos, count, append)
               \/ WriteMoveLost(f, ki_pos, count, append)
        PROVE  HasSlices'
    BY <1>2, <2>5 DEF WriteMove, WriteMoveLost
  <2>6. CASE \/ \E b \in Block, c \in Contents \cup {ZeroContent} : OtherAlloc(b, c)
             \/ OtherAllocFails
             \/ \E b \in Block : OtherUnlink(b) \/ OtherTruncate(b)
    BY <1>1, <2>6 DEF OtherAlloc, OtherAllocFails, OtherUnlink, OtherTruncate, inodevars
  <2> QED
    BY <1>6, <2>1, <2>2, <2>3, <2>4, <2>5, <2>6 DEF Call
<1>7. CASE HandlerStep
  <2>1. CASE StartReadError \/ ScanReadError \/ ScanNoSpace \/ ScanInitError
    BY <1>3, <1>a, <2>1 DEF StartReadError, ScanReadError, ScanNoSpace, ScanInitError, NoRoom
  <2>2. CASE FreeNothing \/ WalkEnd \/ WalkReadError
    BY <1>5, <2>2 DEF FreeNothing, WalkEnd, WalkReadError
  <2>3. ASSUME NEW i \in Slice, ScanHitNothing(i) \/ ScanFault(i) PROVE HasSlices'
    BY <1>3, <1>4, <2>3 DEF ScanHitNothing, ScanFault
  <2>4. ASSUME NEW i \in Slice, ScanHit(i) PROVE HasSlices'
    <3>1. FoundAt(i) /\ ClaimSlices(i) /\ bno' = [bno EXCEPT ![req.f] = cur]
      BY <2>4 DEF ScanHit
    <3> QED
      BY <1>4, <1>a, <3>1 DEF HasSlices
  <2>5. CASE \/ StartAtHead \/ StartAlloc \/ StartNoSpace \/ StartInitError \/ ScanNext \/ ScanAlloc
             \/ FreeSlices \/ WalkFree \/ WalkKeep
    BY <1>1, <2>5 DEF StartAtHead, StartAlloc, StartNoSpace, StartInitError, ScanNext, ScanAlloc,
       FreeSlices, WalkFree, WalkKeep, inodevars
  <2> QED
    BY <1>7, <2>1, <2>2, <2>3, <2>4, <2>5 DEF HandlerStep
<1>8. CASE UNCHANGED vars
  BY <1>1, <1>8 DEF vars, inodevars
<1> QED
  BY <1>6, <1>7, <1>8 DEF Next

(* The message "num_slices is 0, this should never be the case here!" of    *)
(* write_small_file is right if nobody writes no bytes: through failed and  *)
(* faulting moves, truncation and full disks, a file with an index_block    *)
(* has slices.  A first write of no bytes is what breaks it.                *)
THEOREM WrittenFilesHaveSlices == 0 \notin Counts => (Spec => []NumSlicesNonzero)
<1> SUFFICES ASSUME 0 \notin Counts PROVE Spec => []NumSlicesNonzero
  OBVIOUS
<1> DEFINE SlicesInv == CallInv /\ AsksForRoom /\ HasSlices
<1>1. Init => SlicesInv
  BY CallInvInit DEF Init, AsksForRoom, HasSlices
<1>2. TypeOK /\ SlicesInv /\ [Next]_vars => SlicesInv'
  BY CallInvNext, AsksForRoomNext, HasSlicesNext
<1>3. TypeOK /\ SlicesInv => NumSlicesNonzero
  BY DEF TypeOK, InodeTypeOK, HasSlices, NumSlicesNonzero
<1> QED
  BY <1>1, <1>2, <1>3, TypeCorrect, PTL DEF Spec

(* "These two bitmaps track if inodes/blocks are used or not": the block    *)
(* that holds slices of a file is never marked free, at any step of a write,*)
(* of delete_slice's walk over vacant blocks or of another file's calls, as *)
(* long as O_TRUNC does no harm and no copy faults during a move.           *)
THEOREM UsedBlocksStayUsed == Spec /\ [][~Harm]_vars => []UsedBlocksNotFree
<1>1. ExtentsDisjoint => UsedBlocksNotFree
  BY DEF ExtentsDisjoint, UsedBlocksNotFree, Sliced
<1> QED
  BY <1>1, ExtentsStayDisjoint, PTL

(* "we assume that the first bit is never free" (get_first_free_bit): the   *)
(* only calls that set bit 0 are the put_block(sbi, 0) of a write for which *)
(* there is no block.  The walk of delete_slice, which goes by NEXT, and    *)
(* the misreading O_TRUNC, which frees whatever words it finds, do not.     *)
THEOREM OnlyNoSpaceFreesFirstBit ==
    Spec /\ [][~(StartNoSpace \/ ScanNoSpace)]_vars => []FirstBitNeverFree
<1>1. Init => FirstBitNeverFree
  BY GeometryAssumption DEF Init, FirstBitNeverFree
<1>2. FirstBitNeverFree /\ [Next]_vars /\ [~(StartNoSpace \/ ScanNoSpace)]_vars => FirstBitNeverFree'
  <2> SUFFICES ASSUME FirstBitNeverFree, [Next]_vars, [~(StartNoSpace \/ ScanNoSpace)]_vars
               PROVE  FirstBitNeverFree'
    OBVIOUS
  <2>1. CASE bfree_bitmap' \subseteq bfree_bitmap
    BY <2>1 DEF FirstBitNeverFree
  <2>2. ASSUME NEW b, b # 0, PutBlock(b) PROVE FirstBitNeverFree'
    BY <2>2 DEF PutBlock, Puts, FirstBitNeverFree
  <2>3. CASE Call
    <3>1. ASSUME NEW f \in Files, Create(f) \/ Unlink(f) \/ OpenTruncError(f) PROVE FirstBitNeverFree'
      BY <2>1, <3>1 DEF Create, Unlink, OpenTruncError, sbvars, vars
    <3>2. ASSUME NEW f \in Files, OpenTrunc(f) PROVE FirstBitNeverFree'
      <4> DEFINE b == IndexBlock(f)
                 word0 == BitmapWord(bitmap[b])
      <4> HIDE DEF b, word0
      <4>1. \/ bfree_bitmap' = bfree_bitmap
            \/ /\ word0 # 0
               /\ \E more \in LaterWords(next[b]) :
                    bfree_bitmap' = bfree_bitmap \cup Puts(word0) \cup ({next[b]} \ {0}) \cup more
        BY <3>2, Zenon DEF OpenTrunc, b, word0
      <4>2. \A more \in LaterWords(next[b]) : 0 \notin more
        BY GeometryAssumption DEF LaterWords
      <4> QED
        BY <4>1, <4>2 DEF Puts, FirstBitNeverFree
    <3>3. ASSUME NEW f \in Files, NEW ki_pos \in Offsets, NEW count \in Counts,
                 WriteRefused(f, ki_pos, count)
          PROVE  FirstBitNeverFree'
      BY <2>1, <3>3 DEF WriteRefused, sbvars, vars
    <3>4. ASSUME NEW f \in Files, NEW ki_pos \in Offsets, NEW count \in Counts, NEW append \in Appends,
                 \/ WriteNew(f, ki_pos, count, append)
                 \/ WriteInPlace(f, ki_pos, count, append)
                 \/ WriteInPlaceFault(f, ki_pos, count, append)
                 \/ WriteMove(f, ki_pos, count, append)
                 \/ WriteMoveLost(f, ki_pos, count, append)
          PROVE  FirstBitNeverFree'
      BY <2>1, <3>4 DEF WriteNew, WriteInPlace, WriteInPlaceFault, WriteMove, WriteMoveLost, sbvars
    <3>5. CASE (\E b \in Block, c \in Contents \cup {ZeroContent} : OtherAlloc(b, c)) \/ OtherAllocFails
      BY <2>1, <3>5 DEF OtherAlloc, OtherAllocFails
    <3>6. ASSUME NEW b \in Block, OtherUnlink(b) \/ OtherTruncate(b) PROVE FirstBitNeverFree'
      <4>1. PutBlock(b) /\ b >= Reserved
        BY <3>6 DEF OtherUnlink, OtherTruncate
      <4>2. b # 0
        BY <4>1, GeometryAssumption
      <4> QED
        BY <2>2, <4>1, <4>2
    <3> QED
      BY <2>3, <3>1, <3>2, <3>3, <3>4, <3>5, <3>6 DEF Call
  <2>4. CASE HandlerStep
    <3>1. CASE StartNoSpace \/ ScanNoSpace
      BY <2>1, <3>1 DEF vars, sbvars
    <3>2. CASE WalkFree
      BY <2>2, <3>2 DEF WalkFree
    <3>3. CASE StartAlloc \/ ScanAlloc
      BY <2>1, <3>3 DEF StartAlloc, ScanAlloc, TakeSliceBlock
    <3>4. ASSUME NEW i \in Slice, ScanHit(i) \/ ScanHitNothing(i) \/ ScanFault(i) PROVE FirstBitNeverFree'
      BY <2>1, <3>4 DEF ScanHit, ScanHitNothing, ScanFault, sbvars
    <3>5. CASE StartAtHead \/ StartReadError \/ StartInitError \/ ScanNext \/ ScanReadError \/ ScanInitError
      BY <2>1, <3>5 DEF StartAtHead, StartReadError, StartInitError, ScanNext, ScanReadError, ScanInitError, sbvars
    <3>6. CASE FreeNothing \/ FreeSlices \/ WalkEnd \/ WalkReadError \/ WalkKeep
      BY <2>1, <3>6 DEF FreeNothing, FreeSlices, WalkEnd, WalkReadError, WalkKeep, sbvars
    <3> QED
      BY <2>4, <3>1, <3>2, <3>3, <3>4, <3>5, <3>6 DEF HandlerStep
  <2>5. CASE UNCHANGED vars
    BY <2>1, <2>5 DEF vars, sbvars
  <2> QED
    BY <2>3, <2>4, <2>5 DEF Next
<1> QED
  BY <1>1, <1>2, PTL DEF Spec
=============================================================================
