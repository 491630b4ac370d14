---------------------------- MODULE FilePosProofs ----------------------------
(* Theorems about FilePos, for slices, blocks and index blocks of any size   *)
(* and every choice of lengths and offsets.                                  *)
EXTENDS FilePos, TLAPS

\* What a byte can be.
Values == {Hole, Stale} \cup (0..writes)

\* A file that was never written, or was lost, is empty.
NewIsEmpty == ~written => i_size = 0 /\ ~big

\* Past the end of the file nothing is live.
TailIsDead == \A i \in Byte : i > i_size => bytes[i] \in {Hole} \cup Leftover

Types ==
    /\ bytes \in [Byte -> Values] /\ i_size \in 0..Limit /\ f_pos \in Nat /\ writes \in Nat
    /\ written \in BOOLEAN /\ big \in BOOLEAN /\ gone \subseteq 1..writes

PosInv == Types /\ NewIsEmpty /\ TailIsDead

\* num_slices was computed for a size that is small.
SlicesFit == num_slices = 0 \/ \E s \in Nat : s <= SmallMax /\ num_slices = Slices(s)

\* What WritesExact asks of a write of n bytes.
Outcome(n) ==
    \/ Whole(n) /\ (told' = n \/ (told' <= 0 /\ ~big /\ big'))
    \/ told' < 0 /\ (Partial(n) \/ (~big /\ ~big' /\ i_size' = 0))
    \/ told' = n /\ Cut(n)

LEMMA LimitIs ==
    /\ SliceSize \in Nat \ {0} /\ BlockSize \in Nat \ {0} /\ SliceSize < BlockSize
    /\ Limit \in Nat /\ BlockSize <= Limit /\ SmallMax \in Nat /\ SmallMax <= Limit
<1>1. SliceSize \in Nat \ {0} /\ BlockSize \in Nat \ {0} /\ SliceSize < BlockSize /\ IndexLen \in Nat \ {0}
  BY FilePosAssumption
<1>2. ASSUME NEW a \in Nat \ {0}, NEW b \in Nat \ {0} PROVE a * b \in Nat /\ b <= a * b
  BY <1>2
<1>3. Limit \in Nat /\ BlockSize <= Limit
  BY <1>1, <1>2 DEF Limit
<1>4. SmallMax = BlockSize - SliceSize
  BY DEF SmallMax
<1> QED
  BY <1>1, <1>3, <1>4

LEMMA CallIs ==
    ASSUME PosInv, NEW n \in Counts
    PROVE  /\ n \in Nat \ {0} /\ WritePos = Target /\ Target \in Nat /\ i_size \in Nat /\ writes \in Nat
           /\ NewSize(n) = MaxOf(Target + n, i_size) /\ NewSize(n) \in Nat
           /\ i_size <= NewSize(n) /\ Target + n <= NewSize(n)
           /\ will_be_small(NewSize(n)) => NewSize(n) <= Limit
<1>1. n \in Nat \ {0}
  BY FilePosAssumption
<1>2. i_size \in Nat /\ f_pos \in Nat /\ writes \in Nat
  BY LimitIs DEF PosInv, Types
<1>3. WritePos = Target /\ Target \in Nat
  BY <1>2 DEF WritePos, Target
<1> QED
  BY <1>1, <1>2, <1>3, LimitIs DEF NewSize, MaxOf, will_be_small

\* The bytes of the file as the theorem sees them.
LEMMA ShownIs ==
    ASSUME PosInv, NEW i \in Byte
    PROVE  /\ bytes[i] \in Values /\ Shown(i) # Hole
           /\ bytes[i] # Hole => Shown(i) = bytes[i]
           /\ bytes[i] = Hole => Shown(i) = 0
           /\ Shown(i)' = IF bytes'[i] = Hole THEN 0 ELSE bytes'[i]
BY DEF PosInv, Types, Shown, Hole

LEMMA CopyIs ==
    ASSUME NEW s, NEW p, NEW n, NEW i \in Byte
    PROVE  Copy(s, p, n)[i] = IF InRun(i, p, n) THEN writes + 1 ELSE s[i]
BY DEF Copy

\* The invariant after a write, from what the bytes are one by one.
LEMMA Rebuilt ==
    ASSUME PosInv, writes' = writes + 1, gone' \subseteq 1..(writes + 1),
           DOMAIN bytes' = Byte, bytes' = [i \in Byte |-> bytes'[i]],
           \A i \in Byte : bytes'[i] \in Values \cup {writes + 1},
           \A i \in Byte : i > i_size' => bytes'[i] \in {Hole, 0, Stale} \cup gone',
           i_size' \in 0..Limit, f_pos' \in Nat, written' \in BOOLEAN, big' \in BOOLEAN, NewIsEmpty'
    PROVE  PosInv'
<1>1. writes \in Nat /\ writes' \in Nat
  BY DEF PosInv, Types
<1>2. Values \cup {writes + 1} = Values'
  BY <1>1 DEF Values, Hole, Stale
<1>3. bytes' \in [Byte -> Values']
  BY <1>2
<1>4. TailIsDead'
  BY DEF TailIsDead, Leftover
<1> QED
  BY <1>1, <1>3, <1>4 DEF PosInv, Types

LEMMA FailIs ==
    ASSUME PosInv, Fail
    PROVE  /\ writes' = writes + 1 /\ gone' = gone \cup {writes + 1} /\ gone \subseteq gone'
           /\ told' = -1 /\ f_pos' = f_pos /\ f_pos' \in Nat /\ gone' \subseteq 1..(writes + 1)
BY DEF Fail, Call, PosInv, Types

\* A byte that is not written stays, or is one of the space that is given.
Remains(i) == bytes'[i] \in {bytes[i], Shown(i)} \/ (bytes[i] = Hole /\ bytes'[i] \in {0, Stale})

LEMMA KeptIs ==
    ASSUME PosInv, NEW i \in Byte, Remains(i)
    PROVE  Kept(i)
<1>1. /\ Shown(i) # Hole /\ (bytes[i] # Hole => Shown(i) = bytes[i]) /\ (bytes[i] = Hole => Shown(i) = 0)
      /\ Shown(i)' = IF bytes'[i] = Hole THEN 0 ELSE bytes'[i]
  BY ShownIs
<1>2. 0 # Hole /\ Stale # Hole
  BY DEF Hole, Stale
<1> QED
  BY <1>1, <1>2 DEF Remains, Kept

LEMMA StaysValue ==
    ASSUME PosInv, NEW i \in Byte, Remains(i)
    PROVE  bytes'[i] \in Values
<1>1. bytes[i] \in Values /\ Shown(i) \in {bytes[i], 0}
  BY ShownIs
<1>2. 0 \in Values /\ Stale \in Values
  BY DEF Values, PosInv, Types
<1> QED
  BY <1>1, <1>2 DEF Remains

\* A write that reports its bytes, from what the bytes are one by one.
LEMMA Wholly ==
    ASSUME PosInv, NEW n \in Counts, NewSize(n) <= Limit,
           writes' = writes + 1, gone' = gone, f_pos' \in Nat, written' = TRUE, big' \in BOOLEAN,
           i_size' = NewSize(n), DOMAIN bytes' = Byte, bytes' = [i \in Byte |-> bytes'[i]],
           \A i \in Byte : InRun(i, Target, n) => bytes'[i] = writes + 1,
           \A i \in Byte : ~InRun(i, Target, n) /\ i <= i_size => Remains(i),
           \A i \in Byte : ~InRun(i, Target, n) /\ i > i_size => bytes'[i] \in {Hole, 0, Stale} \cup gone \cup {bytes[i]}
    PROVE  PosInv' /\ Whole(n)
<1>0. /\ n \in Nat \ {0} /\ Target \in Nat /\ i_size \in Nat /\ writes \in Nat
      /\ NewSize(n) = MaxOf(Target + n, i_size) /\ NewSize(n) \in Nat
      /\ i_size <= NewSize(n) /\ Target + n <= NewSize(n)
  BY CallIs
<1>1. \A i \in Byte : i > i_size => bytes[i] \in {Hole, 0, Stale} \cup gone
  BY DEF PosInv, TailIsDead, Leftover
<1>2. \A i \in Byte : i \in Nat
  BY DEF Byte
<1>3. \A i \in Byte : i > i_size' => bytes'[i] \in {Hole, 0, Stale} \cup gone'
  <2> SUFFICES ASSUME NEW i \in Byte, i > i_size' PROVE bytes'[i] \in {Hole, 0, Stale} \cup gone'
    OBVIOUS
  <2>1. i > i_size /\ ~InRun(i, Target, n)
    BY <1>0, <1>2 DEF InRun
  <2> QED
    BY <1>1, <2>1
<1>4. \A i \in Byte : bytes'[i] \in Values \cup {writes + 1}
  <2> SUFFICES ASSUME NEW i \in Byte PROVE bytes'[i] \in Values \cup {writes + 1}
    OBVIOUS
  <2>1. CASE InRun(i, Target, n)
    BY <2>1
  <2>2. CASE ~InRun(i, Target, n) /\ i <= i_size
    BY <2>2, StaysValue
  <2>3. CASE ~InRun(i, Target, n) /\ i > i_size
    <3>1. bytes[i] \in Values /\ {Hole, 0, Stale} \subseteq Values
      BY <1>0, ShownIs DEF Values
    <3>2. gone \subseteq Values
      BY <1>0 DEF Values, PosInv, Types
    <3> QED
      BY <2>3, <3>1, <3>2
  <2> QED
    BY <1>0, <1>2, <2>1, <2>2, <2>3
<1>5. PosInv'
  <2>1. NewIsEmpty' /\ i_size' \in 0..Limit /\ gone' \subseteq 1..(writes + 1)
    BY <1>0, LimitIs DEF NewIsEmpty, PosInv, Types
  <2> QED
    BY <1>3, <1>4, <2>1, Rebuilt
<1>6. Whole(n)
  <2>1. ASSUME NEW i \in 1..i_size'
        PROVE  IF InRun(i, Target, n) THEN Shown(i)' = writes'
               ELSE IF i <= i_size THEN Kept(i) ELSE Shown(i)' \in Leftover'
    <3>1. i \in Byte
      BY <1>0, LimitIs DEF Byte
    <3>2. Shown(i)' = IF bytes'[i] = Hole THEN 0 ELSE bytes'[i]
      BY <3>1, ShownIs
    <3>3. writes' # Hole /\ i \in Nat
      BY <1>0 DEF Hole
    <3>4. CASE InRun(i, Target, n)
      BY <3>1, <3>2, <3>3, <3>4
    <3>5. CASE ~InRun(i, Target, n) /\ i <= i_size
      BY <3>1, <3>5, KeptIs
    <3>6. CASE ~InRun(i, Target, n) /\ i > i_size
      <4>1. bytes'[i] \in {Hole, 0, Stale} \cup gone
        BY <1>1, <3>1, <3>6
      <4>2. Shown(i)' \in Leftover'
        BY <3>2, <4>1 DEF Leftover
      <4> QED
        BY <1>0, <3>3, <3>6, <4>2
    <3> QED
      BY <1>0, <3>3, <3>4, <3>5, <3>6
  <2> QED
    BY <1>0, <2>1 DEF Whole
<1> QED
  BY <1>5, <1>6

\* One that reports an error after m bytes.
LEMMA Partly ==
    ASSUME PosInv, NEW n \in Counts, NEW m \in 0..(n - 1), Fail,
           i_size' = i_size, written' \in BOOLEAN, big' = big, NewIsEmpty',
           DOMAIN bytes' = Byte, bytes' = [i \in Byte |-> bytes'[i]],
           \A i \in Byte : InRun(i, Target, m) => bytes'[i] = writes + 1,
           \A i \in Byte : ~InRun(i, Target, m) /\ i <= i_size => Remains(i),
           \A i \in Byte : ~InRun(i, Target, m) /\ i > i_size => bytes'[i] \in {0, Stale, bytes[i]}
    PROVE  PosInv' /\ Outcome(n)
<1>0. n \in Nat \ {0} /\ Target \in Nat /\ i_size \in Nat /\ writes \in Nat
  BY CallIs
<1>1. \A i \in Byte : i > i_size => bytes[i] \in {Hole, 0, Stale} \cup gone
  BY DEF PosInv, TailIsDead, Leftover
<1>2. /\ writes' = writes + 1 /\ gone' = gone \cup {writes + 1} /\ gone \subseteq gone'
      /\ told' = -1 /\ f_pos' \in Nat /\ gone' \subseteq 1..(writes + 1)
  BY FailIs
<1>3. \A i \in Byte : i > i_size' => bytes'[i] \in {Hole, 0, Stale} \cup gone'
  BY <1>1, <1>2
<1>4. \A i \in Byte : bytes'[i] \in Values \cup {writes + 1}
  <2> SUFFICES ASSUME NEW i \in Byte PROVE bytes'[i] \in Values \cup {writes + 1}
    OBVIOUS
  <2>1. bytes[i] \in Values /\ {0, Stale} \subseteq Values /\ i \in Nat
    BY <1>0, ShownIs DEF Values, Byte
  <2>2. CASE ~InRun(i, Target, m) /\ i <= i_size
    BY <2>2, StaysValue
  <2> QED
    BY <1>0, <2>1, <2>2
<1>5. PosInv'
  <2>1. i_size' \in 0..Limit /\ big' \in BOOLEAN
    BY DEF PosInv, Types
  <2> QED
    BY <1>2, <1>3, <1>4, <2>1, Rebuilt
<1>6. Partial(n)
  <2>1. ASSUME NEW i \in 1..i_size
        PROVE  IF InRun(i, Target, m) THEN Shown(i)' = writes' ELSE Kept(i)
    <3>1. i \in Byte /\ i <= i_size
      BY <1>0, LimitIs DEF Byte, PosInv, Types
    <3>2. Shown(i)' = IF bytes'[i] = Hole THEN 0 ELSE bytes'[i]
      BY <3>1, ShownIs
    <3>3. writes' # Hole
      BY <1>0, <1>2 DEF Hole
    <3> QED
      BY <1>2, <3>1, <3>2, <3>3, KeptIs
  <2> QED
    BY <2>1 DEF Partial
<1> QED
  BY <1>2, <1>5, <1>6 DEF Outcome
-----------------------------------------------------------------------------
(* write_small_file *)

\* What every call of a write knows.
LEMMA WritingIs ==
    ASSUME PosInv, NEW n \in Counts, NEW ret, NEW ki_pos, Call(ret, ki_pos), ki_pos \in Nat
    PROVE  writes' = writes + 1 /\ told' = ret /\ f_pos' \in Nat
BY DEF Call, PosInv, Types

LEMMA FirstOutcome ==
    ASSUME PosInv, NEW n \in Counts, NEW left \in {0, Stale}, WriteFirst(n, left)
    PROVE  PosInv' /\ Outcome(n)
<1> DEFINE place == NewPlace(Slices(NewSize(n)), left)
<1>0. WritePos = Target /\ Target \in Nat /\ NewSize(n) <= Limit
  BY CallIs DEF WriteFirst
<1>1. /\ bytes' = Copy(place, Target, n) /\ i_size' = NewSize(n) /\ written' = TRUE /\ big' = big
      /\ gone' = gone /\ ~written
  BY <1>0 DEF WriteFirst
<1>2. writes' = writes + 1 /\ told' = n /\ f_pos' \in Nat
  BY <1>0, WritingIs DEF WriteFirst
<1>3. i_size = 0 /\ big \in BOOLEAN
  BY <1>1 DEF PosInv, NewIsEmpty, Types
<1>4. \A i \in Byte : place[i] \in {Hole, left}
  BY DEF NewPlace
<1> HIDE DEF place
<1>5. \A i \in Byte : bytes'[i] = IF InRun(i, Target, n) THEN writes + 1 ELSE place[i]
  BY <1>1, CopyIs
<1>6. DOMAIN bytes' = Byte /\ bytes' = [i \in Byte |-> bytes'[i]]
  BY <1>1 DEF Copy
<1>7. \A i \in Byte : ~(i <= i_size)
  BY <1>3 DEF Byte
<1>8. PosInv' /\ Whole(n)
  <2>1. \A i \in Byte : ~InRun(i, Target, n) => bytes'[i] \in {Hole, 0, Stale}
    BY <1>4, <1>5
  <2>2. \A i \in Byte : InRun(i, Target, n) => bytes'[i] = writes + 1
    BY <1>5
  <2> QED
    BY <1>0, <1>1, <1>2, <1>3, <1>6, <1>7, <2>1, <2>2, Wholly
<1> QED
  BY <1>2, <1>8 DEF Outcome

LEMMA SameSlices ==
    ASSUME NEW a \in Nat, NEW b \in Nat, NEW d \in Nat \ {0}, (a + d - 1) \div d = (b + d - 1) \div d
    PROVE  a < b + d
<1>1. ASSUME NEW x \in Nat PROVE x = d * (x \div d) + (x % d) /\ x % d \in 0..(d - 1) /\ d * (x \div d) \in Nat
  BY <1>1
<1>2. a + d - 1 \in Nat /\ b + d - 1 \in Nat
  OBVIOUS
<1>3. /\ a + d - 1 = d * ((a + d - 1) \div d) + ((a + d - 1) % d) /\ (a + d - 1) % d \in 0..(d - 1)
      /\ b + d - 1 = d * ((b + d - 1) \div d) + ((b + d - 1) % d) /\ (b + d - 1) % d \in 0..(d - 1)
      /\ d * ((a + d - 1) \div d) \in Nat
  BY <1>1, <1>2
<1> DEFINE q == d * ((a + d - 1) \div d)
           r == (a + d - 1) % d
           t == (b + d - 1) % d
<1>4. a + d - 1 = q + r /\ b + d - 1 = q + t /\ r \in 0..(d - 1) /\ t \in 0..(d - 1) /\ q \in Nat
  BY <1>3
<1> HIDE DEF q, r, t
<1> QED
  BY <1>4

\* A write that stays in its slices stays small.
LEMMA StaysSmall ==
    ASSUME PosInv, SlicesFit, NEW n \in Counts, Stays(n)
    PROVE  NewSize(n) <= Limit
<1>1. PICK s \in Nat : s <= SmallMax /\ num_slices = Slices(s)
  BY DEF Stays, SlicesFit
<1>2. NewSize(n) \in Nat
  BY CallIs
<1>3. NewSize(n) < s + SliceSize
  BY <1>1, <1>2, SameSlices, LimitIs DEF Stays, Slices
<1> QED
  BY <1>1, <1>2, <1>3, LimitIs DEF SmallMax

LEMMA InPlaceOutcome ==
    ASSUME PosInv, SlicesFit, NEW n \in Counts, WriteInPlace(n)
    PROVE  PosInv' /\ Outcome(n)
<1>0. WritePos = Target /\ Target \in Nat /\ NewSize(n) = MaxOf(Target + n, i_size)
  BY CallIs
<1>1. /\ bytes' = Copy(bytes, Target, n) /\ i_size' = NewSize(n) /\ written' = TRUE /\ big' = big
      /\ gone' = gone
  BY <1>0 DEF WriteInPlace, Stays, PosInv, Types
<1>2. writes' = writes + 1 /\ told' = n /\ f_pos' \in Nat
  BY <1>0, WritingIs DEF WriteInPlace
<1>3. \A i \in Byte : bytes'[i] = IF InRun(i, Target, n) THEN writes + 1 ELSE bytes[i]
  BY <1>1, CopyIs
<1>4. DOMAIN bytes' = Byte /\ bytes' = [i \in Byte |-> bytes'[i]]
  BY <1>1 DEF Copy
<1>5. NewSize(n) <= Limit
  BY StaysSmall DEF WriteInPlace
<1>6. \A i \in Byte : ~InRun(i, Target, n) => Remains(i)
  BY <1>3 DEF Remains
<1>7. PosInv' /\ Whole(n)
  BY <1>1, <1>2, <1>3, <1>4, <1>5, <1>6, Wholly DEF PosInv, Types
<1> QED
  BY <1>2, <1>7 DEF Outcome

LEMMA MovedOutcome ==
    ASSUME PosInv, NEW n \in Counts, NEW left \in {0, Stale}, WriteMoved(n, left)
    PROVE  PosInv' /\ Outcome(n)
<1> DEFINE place == NewPlace(Slices(NewSize(n)), left)
<1>0. /\ WritePos = Target /\ Target \in Nat /\ NewSize(n) <= Limit /\ NewSize(n) \in Nat /\ i_size \in Nat
      /\ n \in Nat /\ i_size <= NewSize(n) /\ Target + n <= NewSize(n)
  BY CallIs DEF WriteMoved
<1>1. /\ bytes' = [i \in Byte |-> IF i <= NewSize(n) THEN Combined(i, n) ELSE place[i]]
      /\ i_size' = NewSize(n) /\ written' = TRUE /\ big' = big /\ gone' = gone
  BY <1>0 DEF WriteMoved, Moves, PosInv, Types
<1>2. writes' = writes + 1 /\ told' = n /\ f_pos' \in Nat
  BY <1>0, WritingIs DEF WriteMoved
<1>3. \A i \in Byte : place[i] \in {Hole, left}
  BY DEF NewPlace
<1> HIDE DEF place
<1>4. DOMAIN bytes' = Byte /\ bytes' = [i \in Byte |-> bytes'[i]]
  BY <1>1
<1>5. ASSUME NEW i \in Byte
      PROVE  /\ InRun(i, Target, n) => bytes'[i] = writes + 1
             /\ ~InRun(i, Target, n) /\ i <= i_size => Remains(i)
             /\ ~InRun(i, Target, n) /\ i > i_size => bytes'[i] \in {Hole, 0, Stale}
  <2>1. i \in Nat /\ bytes'[i] = IF i <= NewSize(n) THEN Combined(i, n) ELSE place[i]
    BY <1>1 DEF Byte
  <2>2. CASE InRun(i, Target, n)
    <3>1. i <= NewSize(n)
      BY <1>0, <2>1, <2>2 DEF InRun
    <3> QED
      BY <1>0, <2>1, <2>2, <3>1 DEF Combined
  <2>3. CASE ~InRun(i, Target, n) /\ i <= i_size
    <3>1. bytes'[i] = Shown(i)
      BY <1>0, <2>1, <2>3 DEF Combined
    <3> QED
      BY <1>0, <2>1, <2>3, <3>1 DEF Remains
  <2>4. CASE ~InRun(i, Target, n) /\ i > i_size
    BY <1>0, <1>3, <2>1, <2>4 DEF Combined
  <2> QED
    BY <1>0, <2>1, <2>2, <2>3, <2>4
<1>6. PosInv' /\ Whole(n)
  BY <1>0, <1>1, <1>2, <1>4, <1>5, Wholly DEF PosInv, Types
<1> QED
  BY <1>2, <1>6 DEF Outcome

\* A write at 0 that needs other slices than the file's size says is longer
\* than the file.
LEMMA RewriteOutcome ==
    ASSUME PosInv, NEW n \in Counts, NEW left \in {0, Stale}, Rewrite(n, left)
    PROVE  PosInv' /\ Outcome(n)
<1> DEFINE place == NewPlace(Slices(n), left)
<1>0. /\ WritePos = Target /\ Target = 0 /\ n \in Nat \ {0} /\ i_size \in Nat /\ writes \in Nat
      /\ NewSize(n) = MaxOf(Target + n, i_size) /\ NewSize(n) <= Limit
  BY CallIs DEF Rewrite
<1>1. /\ bytes' = Copy(place, Target, n) /\ i_size' = n /\ written' = TRUE /\ big' = big
      /\ gone' = gone /\ Slices(NewSize(n)) # num_slices
  BY <1>0 DEF Rewrite, Moves, PosInv, Types
<1>2. writes' = writes + 1 /\ told' = n /\ f_pos' \in Nat
  BY <1>0, WritingIs DEF Rewrite
<1>3. \A i \in Byte : place[i] \in {Hole, left}
  BY DEF NewPlace
<1> HIDE DEF place
<1>4. \A i \in Byte : bytes'[i] = IF InRun(i, Target, n) THEN writes + 1 ELSE place[i]
  BY <1>1, CopyIs
<1>5. DOMAIN bytes' = Byte /\ bytes' = [i \in Byte |-> bytes'[i]]
  BY <1>1 DEF Copy
<1>6. n <= Limit
  BY <1>0, LimitIs DEF MaxOf
<1>7. PosInv'
  <2>1. \A i \in Byte : bytes'[i] \in Values \cup {writes + 1}
    BY <1>0, <1>3, <1>4 DEF Values
  <2>2. \A i \in Byte : i > i_size' => bytes'[i] \in {Hole, 0, Stale} \cup gone'
    BY <1>0, <1>1, <1>3, <1>4 DEF InRun, Byte
  <2>3. NewIsEmpty' /\ i_size' \in 0..Limit /\ gone' \subseteq 1..(writes + 1) /\ big' \in BOOLEAN
    BY <1>0, <1>1, <1>6, LimitIs DEF NewIsEmpty, PosInv, Types
  <2> QED
    BY <1>1, <1>2, <1>5, <2>1, <2>2, <2>3, Rebuilt
<1>8. \A i \in 1..n : Shown(i)' = writes'
  <2> SUFFICES ASSUME NEW i \in 1..n PROVE Shown(i)' = writes'
    OBVIOUS
  <2>1. i \in Byte /\ InRun(i, Target, n)
    BY <1>0, <1>6, LimitIs DEF Byte, InRun
  <2>2. Shown(i)' = IF bytes'[i] = Hole THEN 0 ELSE bytes'[i]
    BY <2>1, ShownIs
  <2>3. writes' # Hole
    BY <1>0, <1>2 DEF Hole
  <2> QED
    BY <1>2, <1>4, <2>1, <2>2, <2>3
<1>9. CASE num_slices # Slices(i_size)
  BY <1>0, <1>1, <1>2, <1>7, <1>8, <1>9 DEF Outcome, Cut
<1>10. CASE num_slices = Slices(i_size)
  <2>1. NewSize(n) # i_size
    BY <1>1, <1>10
  <2>2. n > i_size /\ NewSize(n) = n
    BY <1>0, <2>1 DEF MaxOf
  <2>3. \A i \in 1..i_size' : InRun(i, Target, n)
    BY <1>0, <1>1 DEF InRun
  <2>4. Whole(n)
    BY <1>0, <1>1, <1>8, <2>2, <2>3 DEF Whole
  <2> QED
    BY <1>2, <1>7, <2>4 DEF Outcome
<1> QED
  BY <1>9, <1>10

LEMMA InPlaceFaultsOutcome ==
    ASSUME PosInv, NEW n \in Counts, NEW m \in 0..(n - 1), InPlaceFaults(n, m)
    PROVE  PosInv' /\ Outcome(n)
<1>1. /\ bytes' = Copy(bytes, Target, m) /\ Fail
      /\ i_size' = i_size /\ written' = written /\ big' = big
  BY CallIs DEF InPlaceFaults
<1>2. \A i \in Byte : bytes'[i] = IF InRun(i, Target, m) THEN writes + 1 ELSE bytes[i]
  BY <1>1, CopyIs
<1>3. DOMAIN bytes' = Byte /\ bytes' = [i \in Byte |-> bytes'[i]]
  BY <1>1 DEF Copy
<1>4. \A i \in Byte : ~InRun(i, Target, m) => Remains(i) /\ bytes'[i] \in {0, Stale, bytes[i]}
  BY <1>2 DEF Remains
<1>5. NewIsEmpty' /\ written' \in BOOLEAN
  BY <1>1 DEF NewIsEmpty, PosInv, Types
<1> QED
  BY <1>1, <1>2, <1>3, <1>4, <1>5, Partly

\* A failure that copied nothing.
LEMMA Unwritten ==
    ASSUME PosInv, NEW n \in Counts, Fail, i_size' = i_size, written' \in BOOLEAN, big' = big, NewIsEmpty',
           DOMAIN bytes' = Byte, bytes' = [i \in Byte |-> bytes'[i]],
           \A i \in Byte : i <= i_size => Remains(i),
           \A i \in Byte : i > i_size => bytes'[i] \in {0, Stale, bytes[i]}
    PROVE  PosInv' /\ Outcome(n)
<1>1. 0 \in 0..(n - 1) /\ Target \in Nat
  BY CallIs
<1>2. \A i \in Byte : ~InRun(i, Target, 0)
  BY <1>1 DEF InRun, Byte
<1> QED
  BY <1>1, <1>2, Partly

LEMMA ClaimFaultsOutcome ==
    ASSUME PosInv, NEW n \in Counts, ClaimFaults(n)
    PROVE  PosInv' /\ Outcome(n)
<1>1. PICK k : /\ bytes' = [i \in Byte |-> IF bytes[i] = Hole /\ i <= k THEN Stale ELSE bytes[i]]
               /\ Fail /\ i_size' = i_size /\ written' = written /\ big' = big
  BY DEF ClaimFaults
<1>2. DOMAIN bytes' = Byte /\ bytes' = [i \in Byte |-> bytes'[i]]
  BY <1>1
<1>3. \A i \in Byte : Remains(i) /\ bytes'[i] \in {0, Stale, bytes[i]}
  BY <1>1 DEF Remains
<1>4. NewIsEmpty' /\ written' \in BOOLEAN
  BY <1>1 DEF NewIsEmpty, PosInv, Types
<1> QED
  BY <1>1, <1>2, <1>3, <1>4, Unwritten

LEMMA FailsOutcome ==
    ASSUME PosInv, NEW n \in Counts, Fails(n)
    PROVE  PosInv' /\ Outcome(n)
<1>1. bytes' = bytes /\ Fail /\ i_size' = i_size /\ written' = written /\ big' = big
  BY DEF Fails, filevars
<1>2. DOMAIN bytes' = Byte /\ bytes' = [i \in Byte |-> bytes'[i]]
  BY <1>1 DEF PosInv, Types
<1>3. \A i \in Byte : Remains(i) /\ bytes'[i] \in {0, Stale, bytes[i]}
  BY <1>1 DEF Remains
<1>4. NewIsEmpty' /\ written' \in BOOLEAN
  BY <1>1 DEF NewIsEmpty, PosInv, Types
<1> QED
  BY <1>1, <1>2, <1>3, <1>4, Unwritten

LEMMA FirstFailsOutcome ==
    ASSUME PosInv, NEW n \in Counts, FirstFails(n)
    PROVE  PosInv' /\ Outcome(n)
<1>1. /\ bytes' = [i \in Byte |-> Stale] /\ Fail
      /\ i_size' = i_size /\ written' = TRUE /\ big' = big /\ ~written
  BY DEF FirstFails
<1>2. DOMAIN bytes' = Byte /\ bytes' = [i \in Byte |-> bytes'[i]]
  BY <1>1
<1>3. \A i \in Byte : ~(i <= i_size) /\ bytes'[i] = Stale
  BY <1>1 DEF PosInv, NewIsEmpty, Byte
<1>4. NewIsEmpty'
  BY <1>1 DEF NewIsEmpty
<1> QED
  BY <1>1, <1>2, <1>3, <1>4, Unwritten

LEMMA MoveLostOutcome ==
    ASSUME PosInv, NEW n \in Counts, MoveLost(n)
    PROVE  PosInv' /\ Outcome(n)
<1>1. /\ bytes' = NoBytes /\ i_size' = 0 /\ written' = FALSE /\ big' = big /\ ~big
      /\ gone' = 1..(writes + 1) /\ writes' = writes + 1 /\ told' = -1 /\ f_pos' \in Nat
  BY DEF MoveLost, Moves, GoesSmall, Call, PosInv, Types
<1>2. DOMAIN bytes' = Byte /\ bytes' = [i \in Byte |-> bytes'[i]] /\ \A i \in Byte : bytes'[i] = Hole
  BY <1>1 DEF NoBytes
<1>3. PosInv'
  <2>1. \A i \in Byte : bytes'[i] \in Values \cup {writes + 1}
    BY <1>2 DEF Values
  <2>2. NewIsEmpty' /\ i_size' \in 0..Limit
    BY <1>1, LimitIs DEF NewIsEmpty
  <2>3. big' \in BOOLEAN /\ written' \in BOOLEAN
    BY <1>1, Zenon DEF PosInv, Types
  <2> QED
    BY <1>1, <1>2, <2>1, <2>2, <2>3, Rebuilt
<1> QED
  BY <1>1, <1>3 DEF Outcome
-----------------------------------------------------------------------------
(* write_big_file and convert_small_to_big *)

\* What a byte is once the blocks are there and the gap is zeroed.
LEMMA FilledIs ==
    ASSUME NEW s, NEW first, NEW last, NEW left, NEW i \in Byte
    PROVE  /\ Filled(s, first, last, left)[i] \in {s[i], left}
           /\ Filled(s, first, last, left)[i] # s[i] => s[i] = Hole
           /\ Gapped(s)[i] \in {s[i], 0}
           /\ i <= i_size /\ i_size \in Nat => Gapped(s)[i] = s[i]
<1>1. Filled(s, first, last, left)[i] \in {s[i], left} /\ (Filled(s, first, last, left)[i] # s[i] => s[i] = Hole)
  BY DEF Filled
<1>2. i \in Nat /\ Gapped(s)[i] \in {s[i], 0}
  BY DEF Gapped, Byte
<1>3. ASSUME i <= i_size, i_size \in Nat PROVE Gapped(s)[i] = s[i]
  <2>1. ~(i > i_size)
    BY <1>2, <1>3
  <2> QED
    BY <2>1 DEF Gapped
<1> QED
  BY <1>1, <1>2, <1>3

LEMMA BigOutcome ==
    ASSUME PosInv, NEW n \in Counts, NEW left \in {0, Stale}, WriteBig(n, left)
    PROVE  PosInv' /\ Outcome(n)
<1>0. /\ WritePos = Target /\ Target \in Nat /\ i_size \in Nat /\ n \in Nat
      /\ NewSize(n) = MaxOf(Target + n, i_size)
  BY CallIs
<1>1. PICK first, last :
        bytes' = Copy(Gapped(Filled(Named(left), first, last, left)), Target, n)
  BY <1>0 DEF WriteBig
<1> DEFINE f == Filled(Named(left), first, last, left)
           g == Gapped(f)
<1>2. i_size' = NewSize(n) /\ written' = TRUE /\ big' = TRUE /\ gone' = gone /\ Target + n <= Limit
  BY <1>0 DEF WriteBig
<1>3. writes' = writes + 1 /\ told' = n /\ f_pos' \in Nat
  <2>1. WritePos + n \in Nat
    BY <1>0
  <2> QED
    BY <2>1, WritingIs DEF WriteBig
<1>4. NewSize(n) <= Limit
  BY <1>0, <1>2, LimitIs DEF MaxOf, PosInv, Types
<1>5. DOMAIN bytes' = Byte /\ bytes' = [i \in Byte |-> bytes'[i]]
  BY <1>1 DEF Copy
<1>6. ASSUME NEW i \in Byte
      PROVE  /\ InRun(i, Target, n) => bytes'[i] = writes + 1
             /\ ~InRun(i, Target, n) /\ i <= i_size => Remains(i)
             /\ ~InRun(i, Target, n) /\ i > i_size => bytes'[i] \in {Hole, 0, Stale, bytes[i]}
  <2>1. bytes'[i] = IF InRun(i, Target, n) THEN writes + 1 ELSE g[i]
    BY <1>1, CopyIs
  <2>2. /\ f[i] \in {Named(left)[i], left} /\ (f[i] # Named(left)[i] => Named(left)[i] = Hole)
        /\ g[i] \in {f[i], 0} /\ (i <= i_size => g[i] = f[i])
    BY <1>0, FilledIs
  <2>3. Named(left)[i] \in {bytes[i], Hole, left} /\ (written => Named(left)[i] = bytes[i])
    BY DEF Named
  <2>4. i <= i_size => written
    BY <1>0 DEF PosInv, NewIsEmpty, Byte
  <2> HIDE DEF f, g
  <2>5. ASSUME ~InRun(i, Target, n), i <= i_size PROVE Remains(i)
    BY <2>1, <2>2, <2>3, <2>4, <2>5 DEF Remains
  <2>6. ASSUME ~InRun(i, Target, n) PROVE bytes'[i] \in {Hole, 0, Stale, bytes[i]}
    BY <2>1, <2>2, <2>3, <2>6
  <2> QED
    BY <2>1, <2>5, <2>6
<1> HIDE DEF f, g
<1>7. PosInv' /\ Whole(n)
  <2>1. \A i \in Byte : ~InRun(i, Target, n) /\ i > i_size
                         => bytes'[i] \in {Hole, 0, Stale} \cup gone \cup {bytes[i]}
    BY <1>6
  <2>2. big' \in BOOLEAN
    BY <1>2
  <2> QED
    BY <1>2, <1>3, <1>4, <1>5, <1>6, <2>1, <2>2, Wholly
<1> QED
  BY <1>3, <1>7 DEF Outcome

LEMMA BigFailsOutcome ==
    ASSUME PosInv, NEW n \in Counts, NEW m \in 0..(n - 1), NEW last, NEW left \in {0, Stale},
           BigFails(n, m, last, left)
    PROVE  PosInv' /\ Outcome(n)
<1>0. WritePos = Target /\ Target \in Nat /\ i_size \in Nat
  BY CallIs
<1>1. PICK first : \E s \in {Gapped(Filled(bytes, first, last, left)), Filled(bytes, first, last, left)} :
                     bytes' = Copy(s, Target, m)
  BY <1>0 DEF BigFails
<1>2. PICK s \in {Gapped(Filled(bytes, first, last, left)), Filled(bytes, first, last, left)} :
        bytes' = Copy(s, Target, m)
  BY <1>1
<1>3. Fail /\ i_size' = i_size /\ written' = written /\ big' = big
  BY DEF BigFails
<1>4. DOMAIN bytes' = Byte /\ bytes' = [i \in Byte |-> bytes'[i]]
  BY <1>2 DEF Copy
<1>5. ASSUME NEW i \in Byte
      PROVE  /\ InRun(i, Target, m) => bytes'[i] = writes + 1
             /\ ~InRun(i, Target, m) /\ i <= i_size => Remains(i)
             /\ ~InRun(i, Target, m) /\ i > i_size => bytes'[i] \in {0, Stale, bytes[i]}
  <2> DEFINE f == Filled(bytes, first, last, left)
             g == Gapped(f)
  <2>1. bytes'[i] = IF InRun(i, Target, m) THEN writes + 1 ELSE s[i]
    BY <1>2, CopyIs
  <2>2. /\ f[i] \in {bytes[i], left} /\ (f[i] # bytes[i] => bytes[i] = Hole)
        /\ g[i] \in {f[i], 0} /\ (i <= i_size => g[i] = f[i])
    BY <1>0, FilledIs
  <2>3. s \in {f, g}
    BY <1>2
  <2> HIDE DEF f, g
  <2>4. s[i] \in {f[i], 0} /\ (i <= i_size => s[i] = f[i])
    BY <2>2, <2>3
  <2>5. ASSUME ~InRun(i, Target, m), i <= i_size PROVE Remains(i)
    BY <2>1, <2>2, <2>4, <2>5 DEF Remains
  <2>6. ASSUME ~InRun(i, Target, m) PROVE bytes'[i] \in {0, Stale, bytes[i]}
    BY <2>1, <2>2, <2>4, <2>6
  <2> QED
    BY <2>1, <2>5, <2>6
<1>6. NewIsEmpty' /\ written' \in BOOLEAN
  BY <1>3 DEF NewIsEmpty, PosInv, Types
<1> QED
  BY <1>3, <1>4, <1>5, <1>6, Partly

LEMMA ConvertOutcome ==
    ASSUME PosInv, NEW n \in Counts, NEW left \in {0, Stale}, NEW ret \in {0, -1}, Convert(n, left, ret)
    PROVE  PosInv' /\ Outcome(n)
<1>0. /\ WritePos = Target /\ Target \in Nat /\ NewSize(n) \in Nat /\ i_size \in Nat
      /\ n \in Nat /\ i_size <= NewSize(n) /\ Target + n <= NewSize(n)
  BY CallIs
<1> DEFINE base == [i \in Byte |-> IF left = 0 THEN Hole ELSE left]
           space == Filled(base, 0, BlockOf(NewSize(n)), left)
<1>1. /\ bytes' = [i \in Byte |-> IF i <= NewSize(n) THEN Combined(i, n) ELSE space[i]]
      /\ NewSize(n) <= Limit /\ i_size' = NewSize(n) /\ big' = TRUE /\ ~big
      /\ written' = written /\ written /\ gone' = gone
  BY DEF Convert, Converts
<1>2. writes' = writes + 1 /\ told' = ret /\ f_pos' \in Nat
  <2>1. f_pos \in Nat
    BY DEF PosInv, Types
  <2> QED
    BY <2>1, WritingIs DEF Convert
<1>3. \A i \in Byte : space[i] \in {Hole, left}
  <2> SUFFICES ASSUME NEW i \in Byte PROVE space[i] \in {Hole, left}
    OBVIOUS
  <2>1. base[i] \in {Hole, left}
    OBVIOUS
  <2> HIDE DEF base
  <2>2. space[i] \in {base[i], left}
    BY FilledIs
  <2> QED
    BY <2>1, <2>2
<1> HIDE DEF space, base
<1>4. DOMAIN bytes' = Byte /\ bytes' = [i \in Byte |-> bytes'[i]]
  BY <1>1
<1>5. ASSUME NEW i \in Byte
      PROVE  /\ InRun(i, Target, n) => bytes'[i] = writes + 1
             /\ ~InRun(i, Target, n) /\ i <= i_size => Remains(i)
             /\ ~InRun(i, Target, n) /\ i > i_size => bytes'[i] \in {Hole, 0, Stale}
  <2>1. i \in Nat /\ bytes'[i] = IF i <= NewSize(n) THEN Combined(i, n) ELSE space[i]
    BY <1>1 DEF Byte
  <2>2. CASE InRun(i, Target, n)
    <3>1. i <= NewSize(n)
      BY <1>0, <2>1, <2>2 DEF InRun
    <3> QED
      BY <1>0, <2>1, <2>2, <3>1 DEF Combined
  <2>3. CASE ~InRun(i, Target, n) /\ i <= i_size
    <3>1. bytes'[i] = Shown(i)
      BY <1>0, <2>1, <2>3 DEF Combined
    <3> QED
      BY <1>0, <2>1, <2>3, <3>1 DEF Remains
  <2>4. CASE ~InRun(i, Target, n) /\ i > i_size
    BY <1>0, <1>3, <2>1, <2>4 DEF Combined
  <2> QED
    BY <1>0, <2>1, <2>2, <2>3, <2>4
<1>6. PosInv' /\ Whole(n)
  <2>1. big' \in BOOLEAN /\ written' = TRUE
    BY <1>1 DEF PosInv, Types
  <2> QED
    BY <1>0, <1>1, <1>2, <1>4, <1>5, <2>1, Wholly
<1> QED
  BY <1>1, <1>2, <1>6 DEF Outcome
-----------------------------------------------------------------------------
(* The whole system *)

LEMMA WriteOutcome ==
    ASSUME PosInv, SlicesFit, NEW n \in Counts, Write(n)
    PROVE  PosInv' /\ Outcome(n)
<1>1. CASE WriteInPlace(n)
  BY <1>1, InPlaceOutcome
<1>2. CASE MoveLost(n)
  BY <1>2, MoveLostOutcome
<1>3. CASE ClaimFaults(n)
  BY <1>3, ClaimFaultsOutcome
<1>4. CASE FirstFails(n)
  BY <1>4, FirstFailsOutcome
<1>5. CASE Fails(n)
  BY <1>5, FailsOutcome
<1>6. ASSUME NEW left \in {0, Stale}, WriteFirst(n, left) PROVE PosInv' /\ Outcome(n)
  BY <1>6, FirstOutcome
<1>7. ASSUME NEW left \in {0, Stale}, WriteMoved(n, left) PROVE PosInv' /\ Outcome(n)
  BY <1>7, MovedOutcome
<1>8. ASSUME NEW left \in {0, Stale}, Rewrite(n, left) PROVE PosInv' /\ Outcome(n)
  BY <1>8, RewriteOutcome
<1>9. ASSUME NEW left \in {0, Stale}, WriteBig(n, left) PROVE PosInv' /\ Outcome(n)
  BY <1>9, BigOutcome
<1>10. ASSUME NEW left \in {0, Stale}, NEW ret \in {0, -1}, Convert(n, left, ret) PROVE PosInv' /\ Outcome(n)
  BY <1>10, ConvertOutcome
<1>11. ASSUME NEW left \in {0, Stale}, NEW m \in 0..(n - 1), NEW last \in -1..(IndexLen - 1),
              BigFails(n, m, last, left)
       PROVE  PosInv' /\ Outcome(n)
  BY <1>11, BigFailsOutcome
<1>12. ASSUME NEW m \in 0..(n - 1), InPlaceFaults(n, m) PROVE PosInv' /\ Outcome(n)
  BY <1>12, InPlaceFaultsOutcome
<1> QED
  BY <1>1, <1>2, <1>3, <1>4, <1>5, <1>6, <1>7, <1>8, <1>9, <1>10, <1>11, <1>12 DEF Write

\* A step that changes neither the bytes nor the size.
LEMMA Unchanged ==
    ASSUME PosInv, UNCHANGED <<bytes, i_size, written, big, writes, gone>>, f_pos' \in Nat
    PROVE  PosInv'
<1>1. Types'
  BY DEF PosInv, Types, Values
<1> QED
  BY <1>1 DEF PosInv, NewIsEmpty, TailIsDead, Leftover

LEMMA ReopenKeeps ==
    ASSUME PosInv, NEW trunc \in BOOLEAN, Reopen(trunc)
    PROVE  PosInv' /\ writes' = writes
<1>1. UNCHANGED <<written, big, writes>> /\ f_pos' = 0
  BY DEF Reopen
<1>2. CASE ~trunc
  <2>1. UNCHANGED <<bytes, i_size, gone>>
    BY <1>2 DEF Reopen
  <2> QED
    BY <1>1, <2>1, Unchanged
<1>3. CASE trunc
  <2>1. bytes' = Truncated /\ i_size' = 0 /\ gone' = 1..writes
    BY <1>3 DEF Reopen
  <2>2. bytes \in [Byte -> Values] /\ writes \in Nat
    BY DEF PosInv, Types
  <2>3. Truncated \in [Byte -> Values] /\ Values' = Values
    BY <1>1, <2>2 DEF Truncated, Values
  <2>4. \A i \in Byte : bytes'[i] \in {Hole, 0, Stale} \cup (1..writes)
    BY <2>1, <2>2, <2>3 DEF Values
  <2>5. written' \in BOOLEAN /\ big' \in BOOLEAN
    BY <1>1, Zenon DEF PosInv, Types
  <2>6. Types'
    BY <1>1, <2>1, <2>2, <2>3, <2>5, LimitIs DEF Types
  <2>7. NewIsEmpty' /\ TailIsDead'
    BY <1>1, <2>1, <2>4 DEF PosInv, NewIsEmpty, TailIsDead, Leftover
  <2> QED
    BY <1>1, <2>6, <2>7 DEF PosInv
<1> QED
  BY <1>2, <1>3

LEMMA StepKeeps ==
    ASSUME PosInv, SlicesFit, [Next]_vars
    PROVE  PosInv' /\ (writes' # writes => \E n \in Counts : Outcome(n))
<1>1. ASSUME NEW n \in Counts, Write(n) PROVE PosInv' /\ Outcome(n)
  BY <1>1, WriteOutcome
<1>2. ASSUME NEW p \in Offsets, Seek(p) PROVE PosInv' /\ writes' = writes
  <2>1. p \in Nat
    BY FilePosAssumption
  <2> QED
    BY <1>2, <2>1, Unchanged DEF Seek, filevars
<1>3. ASSUME NEW trunc \in BOOLEAN, Reopen(trunc) PROVE PosInv' /\ writes' = writes
  BY <1>3, ReopenKeeps
<1>4. CASE OpenReader \/ CloseReader \/ Read \/ UNCHANGED vars
  <2>1. UNCHANGED <<filevars, writervars>>
    BY <1>4 DEF OpenReader, CloseReader, Read, ReadEnd, ReadSmall, ReadBig, vars
  <2>2. UNCHANGED <<bytes, i_size, written, big, writes, gone, f_pos>>
    BY <2>1 DEF filevars, writervars
  <2>3. f_pos \in Nat
    BY DEF PosInv, Types
  <2> QED
    BY <2>2, <2>3, Unchanged
<1> QED
  BY <1>1, <1>2, <1>3, <1>4 DEF Next

LEMMA SlicesStayFit ==
    ASSUME PosInv, SlicesFit, [Next]_vars
    PROVE  SlicesFit'
<1>1. CASE num_slices' = num_slices
  BY <1>1 DEF SlicesFit, Slices
<1>2. ASSUME NEW s \in Nat, s <= SmallMax, num_slices' = Slices(s) PROVE SlicesFit'
  BY <1>2 DEF SlicesFit, Slices
<1>3. ASSUME NEW n \in Counts, Write(n) PROVE SlicesFit'
  <2>1. n \in Nat /\ NewSize(n) \in Nat /\ n <= NewSize(n)
    BY CallIs
  <2>2. \/ num_slices' = num_slices
        \/ will_be_small(NewSize(n)) /\ num_slices' \in {Slices(n), Slices(NewSize(n))}
    BY <1>3 DEF Write, WriteInPlace, MoveLost, ClaimFaults, FirstFails, Fails, filevars, WriteFirst,
                WriteMoved, Rewrite, WriteBig, Convert, BigFails, InPlaceFaults
  <2>3. will_be_small(NewSize(n)) => n <= SmallMax /\ NewSize(n) <= SmallMax
    BY <2>1, LimitIs DEF will_be_small
  <2> QED
    BY <1>1, <1>2, <2>1, <2>2, <2>3
<1>4. CASE ~(\E n \in Counts : Write(n))
  <2>1. num_slices' = num_slices
    BY <1>4 DEF Next, Seek, Reopen, OpenReader, CloseReader, Read, ReadEnd, ReadSmall, ReadBig, vars, filevars
  <2> QED
    BY <1>1, <2>1
<1> QED
  BY <1>3, <1>4

(* Every write does what WritesExact says, whatever the sizes of slices,     *)
(* blocks and index blocks, at any position and after any sequence of        *)
(* writes, failures, truncations and seeks: write_small_file,                *)
(* write_big_file and convert_small_to_big.                                  *)
THEOREM WritesAreExact == Spec => WritesExact
<1>1. Init => PosInv /\ SlicesFit
  <2> SUFFICES ASSUME Init PROVE PosInv /\ SlicesFit
    OBVIOUS
  <2>1. bytes \in [Byte -> Values] /\ \A i \in Byte : bytes[i] = Hole
    BY DEF Init, NoBytes, Values
  <2>2. i_size \in 0..Limit /\ f_pos \in Nat /\ writes \in Nat /\ gone \subseteq 1..writes
    BY LimitIs DEF Init
  <2>3. written \in BOOLEAN /\ big \in BOOLEAN /\ NewIsEmpty /\ SlicesFit
    BY DEF Init, NewIsEmpty, SlicesFit
  <2> QED
    BY <2>1, <2>2, <2>3 DEF PosInv, Types, TailIsDead
<1>2. PosInv /\ SlicesFit /\ [Next]_vars => (PosInv /\ SlicesFit)'
  BY StepKeeps, SlicesStayFit
<1>3. PosInv /\ SlicesFit /\ [Next]_vars
        => [writes' # writes => \E n \in Counts :
              \/ Whole(n) /\ (told' = n \/ (told' <= 0 /\ ~big /\ big'))
              \/ told' < 0 /\ (Partial(n) \/ (~big /\ ~big' /\ i_size' = 0))
              \/ told' = n /\ Cut(n)]_vars
  BY StepKeeps DEF Outcome
<1> QED
  BY <1>1, <1>2, <1>3, PTL DEF Spec, WritesExact
=============================================================================
