--------------------------- MODULE SliceMaskProofs ---------------------------
(* The words of SliceMask compute the sets of slices of SmallFile, for every *)
(* width, slice size, bitmap and file size.                                  *)
EXTENDS SliceMask, TLAPS

LEMMA Geometry ==
    /\ Width \in Nat /\ Width >= 2 /\ SliceSize \in Nat \ {0} /\ BlockLimit \in Nat \ {0}
    /\ FileSizes \subseteq Nat /\ Blocks \subseteq Nat \ {0}
BY WordAssumption
-----------------------------------------------------------------------------
(* Arithmetic *)

LEMMA DivIs ==
    ASSUME NEW a \in Nat, NEW b \in Nat \ {0}
    PROVE  /\ a \div b \in Nat /\ a % b \in 0..(b - 1)
           /\ b * (a \div b) <= a /\ a < b * (a \div b) + b
           /\ a = b * (a \div b) + (a % b)
<1>1. a \div b \in Nat /\ a % b \in 0..(b - 1)
  OBVIOUS
<1>2. a % b = a - b * (a \div b)
  OBVIOUS
<1>3. b * (a \div b) \in Nat
  BY <1>1
<1> QED
  BY <1>1, <1>2, <1>3

LEMMA Factor ==
    ASSUME NEW p \in Nat, NEW q \in Nat, NEW b \in Nat \ {0}, p * b < (q + 1) * b
    PROVE  p <= q
<1>1. CASE p >= q + 1
  <2>1. PICK d \in Nat : p = q + 1 + d
    <3>1. p - (q + 1) \in Nat /\ p = q + 1 + (p - (q + 1))
      BY <1>1
    <3> QED
      BY <3>1
  <2>2. p * b = (q + 1) * b + d * b /\ d * b \in Nat /\ (q + 1) * b \in Nat
    BY <2>1
  <2> QED
    BY <2>2
<1> QED
  BY <1>1

\* Rounding up: more than w slices are needed exactly for more than w * b bytes.
LEMMA RoundUp ==
    ASSUME NEW f \in Nat, NEW b \in Nat \ {0}, NEW w \in Nat
    PROVE  /\ (f + b - 1) \div b \in Nat
           /\ f <= w * b => (f + b - 1) \div b <= w
           /\ f > w * b => (f + b - 1) \div b > w
<1> DEFINE q == (f + b - 1) \div b
<1>1. f + b - 1 \in Nat
  OBVIOUS
<1>2. q \in Nat /\ b * q <= f + b - 1 /\ f + b - 1 < b * q + b
  BY <1>1, DivIs
<1> HIDE DEF q
<1>3. /\ q * b \in Nat /\ q * b = b * q /\ (q + 1) * b = q * b + b
      /\ w * b \in Nat /\ (w + 1) * b = w * b + b
  BY <1>2
<1>4. f <= w * b => q <= w
  <2> HAVE f <= w * b
  <2>1. q * b < (w + 1) * b
    BY <1>2, <1>3
  <2> QED
    BY <2>1, <1>2, Factor
<1>5. f > w * b => q > w
  <2> HAVE f > w * b
  <2>1. (w + 1) * b < (q + 1) * b
    BY <1>2, <1>3
  <2>2. w + 1 <= q
    BY <2>1, <1>2, Factor
  <2> QED
    BY <2>2, <1>2
<1> QED
  BY <1>2, <1>4, <1>5 DEF q

\* A number in mixed radix has one quotient and one remainder.
LEMMA Unpack ==
    ASSUME NEW p \in Nat, NEW b \in Nat \ {0}, NEW r \in 0..(b - 1)
    PROVE  (p * b + r) \div b = p /\ (p * b + r) % b = r
<1> DEFINE a == p * b + r
           q == a \div b
           s == a % b
<1>1. a \in Nat /\ p * b \in Nat /\ (p + 1) * b = p * b + b
  OBVIOUS
<1>2. q \in Nat /\ s \in 0..(b - 1) /\ a = b * q + s
  BY <1>1, DivIs
<1> HIDE DEF q, s
<1>3. b * q = q * b /\ (q + 1) * b = q * b + b /\ q * b \in Nat
  BY <1>2
<1>4. q * b < (p + 1) * b /\ p * b < (q + 1) * b
  BY <1>1, <1>2, <1>3
<1>5. q = p
  <2>1. q <= p /\ p <= q
    BY <1>2, <1>4, Factor
  <2> QED
    BY <2>1, <1>2
<1>6. s = r
  BY <1>1, <1>2, <1>3, <1>5
<1> QED
  BY <1>5, <1>6 DEF q, s

\* Block and slice number fit index_block when the block number is below the limit.
LEMMA PackBelow ==
    ASSUME NEW p \in Nat, NEW c \in Nat \ {0}, p < c, NEW b \in Nat \ {0}, NEW r \in 0..(b - 1)
    PROVE  (p * b + r) % (c * b) = p * b + r
<1>1. PICK d \in Nat : c = p + 1 + d
  <2>1. c - (p + 1) \in Nat /\ c = p + 1 + (c - (p + 1))
    OBVIOUS
  <2> QED
    BY <2>1
<1>2. c * b = p * b + b + d * b /\ d * b \in Nat /\ p * b \in Nat
  BY <1>1
<1>3. p * b + r \in 0..(c * b - 1) /\ c * b \in Nat \ {0}
  BY <1>2
<1> DEFINE a == p * b + r
           n == c * b
<1>4. a \in 0..(n - 1) /\ n \in Nat \ {0}
  BY <1>3
<1> HIDE DEF a, n
<1>5. a % n = a
  BY <1>4
<1> QED
  BY <1>5 DEF a, n

\* One block number more than index_block has room for leaves the slice number alone.
LEMMA PackAtLimit ==
    ASSUME NEW c \in Nat \ {0}, NEW b \in Nat \ {0}, NEW r \in 0..(b - 1)
    PROVE  (c * b + r) % (c * b) = r
<1> DEFINE n == c * b
<1>1. PICK d \in Nat : c = d + 1
  <2>1. c - 1 \in Nat /\ c = (c - 1) + 1
    OBVIOUS
  <2> QED
    BY <2>1
<1>2. c * b = d * b + b /\ d * b \in Nat
  BY <1>1
<1>3. n \in Nat \ {0} /\ r \in 0..(n - 1)
  BY <1>2
<1> HIDE DEF n
<1>4. (1 * n + r) % n = r
  BY <1>3, Unpack
<1>5. 1 * n + r = n + r
  BY <1>3
<1> QED
  BY <1>4, <1>5 DEF n
-----------------------------------------------------------------------------
(* Words *)

Run(s, n) == {b \in Bits : s <= b /\ b < s + n}

\* (1U << n) - 1 has the n lowest bits.
LEMMA LowBits ==
    ASSUME NEW n \in Nat, n < Width
    PROVE  OneShl(n) = {{n}} /\ Dec({n}) = Run(0, n)
<1>1. OneShl(n) = {{n}}
  BY Geometry DEF OneShl
<1>2. \A b \in Bits : (b \in {n} <=> \E c \in {n} : c < b) <=> 0 <= b /\ b < 0 + n
  <2> TAKE b \in Bits
  <2>1. b \in Nat
    BY Geometry DEF Bits
  <2>2. (\E c \in {n} : c < b) <=> n < b
    OBVIOUS
  <2> QED
    BY <2>1, <2>2
<1>3. Dec({n}) = Run(0, n)
  BY <1>2 DEF Dec, Run
<1> QED
  BY <1>1, <1>3

\* Shifting a run of bits that stays clear of the top moves it.
LEMMA ShiftRun ==
    ASSUME NEW s \in Nat, NEW n \in Nat, NEW k \in Nat, s + n <= Width
    PROVE  Shl(Run(s, n), k) = Run(s + k, n)
<1>1. \A b \in Bits : b - k \in Run(s, n) <=> s + k <= b /\ b < s + k + n
  BY Geometry DEF Bits, Run
<1> QED
  BY <1>1 DEF Shl, Run

\* Below the top a run is an interval.
LEMMA RunIs ==
    ASSUME NEW s \in Nat, NEW n \in Nat, s + n <= Width
    PROVE  Run(s, n) = s..(s + n - 1)
BY Geometry DEF Run, Bits
-----------------------------------------------------------------------------
(* The invariant: while the loop runs the mask is the n bits from i and no  *)
(* place is below i; afterwards slice is the first place.                   *)

Fits(n) == slice \in Places(n) /\ \A s \in Places(n) : slice <= s

Inputs == free \subseteq 1..(Width - 1) /\ file_size \in FileSizes /\ block \in Blocks

Before == pc \in {"alloc", "size"} => bitmap = free /\ i = 1

Looping ==
    pc = "loop" =>
        /\ bitmap = free /\ i \in Nat \ {0} /\ num_slices <= Width
        /\ num_slices < Width => i <= Width - num_slices + 1 /\ mask = Run(i, num_slices)
        /\ num_slices = Width => i = 1
        /\ \A s \in Places(num_slices) : i <= s

GaveUp == pc = "none" => Places(num_slices) = {} /\ bitmap = free

Found ==
    /\ pc \in {"found", "packed", "deleted"} => Fits(num_slices)
    /\ pc \in {"found", "packed"} => bitmap = free \ (slice..(slice + num_slices - 1))

Accepted == pc \notin {"alloc", "refused"} => block <= BlockLimit

PackedAs == pc \in {"packed", "deleted"} => index = Packed

Restored ==
    pc = "deleted" =>
        bitmap = IF LostNumber THEN free \ (slice..(slice + num_slices - 1)) ELSE free

Inv == Inputs /\ Before /\ Looping /\ GaveUp /\ Found /\ Accepted /\ PackedAs /\ Restored

LEMMA SlicesAre ==
    ASSUME Inputs
    PROVE  /\ num_slices \in Nat
           /\ file_size <= Width * SliceSize => num_slices <= Width
           /\ file_size > Width * SliceSize => num_slices > Width
BY Geometry, RoundUp DEF Inputs, num_slices

\* A place leaves room for the slices below the top of the word.
LEMMA PlacesAre ==
    ASSUME NEW n \in Nat, NEW s \in Places(n)
    PROVE  s \in Nat \ {0} /\ s + n <= Width /\ s..(s + n - 1) \subseteq free
BY Geometry DEF Places
-----------------------------------------------------------------------------
(* The invariant is inductive *)

LEMMA InvInit == Init => Inv
BY DEF Init, Inv, Inputs, Before, Looping, GaveUp, Found, Accepted, PackedAs, Restored

\* Only pc moves: the inputs, and with them the places, stay.
Same == UNCHANGED <<free, file_size, block>>

LEMMA SamePlaces ==
    ASSUME Same
    PROVE  /\ num_slices' = num_slices /\ Places(num_slices)' = Places(num_slices)
           /\ Inputs => Inputs'
BY DEF Same, num_slices, Places, Inputs

LEMMA StepReject == Inv /\ Reject => Inv'
<1> SUFFICES ASSUME Inv, Reject PROVE Inv'
  OBVIOUS
<1>1. Same /\ pc' = "refused"
  BY DEF Reject, Same
<1>2. Inputs'
  BY <1>1, SamePlaces DEF Inv
<1> QED
  BY <1>1, <1>2 DEF Inv, Before, Looping, GaveUp, Found, Accepted, PackedAs, Restored

LEMMA StepAccept == Inv /\ Accept => Inv'
<1> SUFFICES ASSUME Inv, Accept PROVE Inv'
  OBVIOUS
<1>1. Same /\ pc = "alloc" /\ pc' = "size" /\ bitmap' = bitmap /\ i' = i /\ block <= BlockLimit
  BY DEF Accept, Same
<1>2. Inputs'
  BY <1>1, SamePlaces DEF Inv
<1>3. Before' /\ Accepted'
  BY <1>1 DEF Inv, Before, Accepted, Same
<1> QED
  BY <1>1, <1>2, <1>3 DEF Inv, Looping, GaveUp, Found, PackedAs, Restored

LEMMA StepTooLong == Inv /\ TooLong => Inv'
<1> SUFFICES ASSUME Inv, TooLong PROVE Inv'
  OBVIOUS
<1>1. /\ Same /\ pc = "size" /\ pc' = "none" /\ bitmap' = bitmap
      /\ file_size > Width * SliceSize
  BY DEF TooLong, Same
<1>2. Inputs'
  BY <1>1, SamePlaces DEF Inv
<1>3. GaveUp'
  <2>1. num_slices \in Nat /\ num_slices > Width
    BY <1>1, SlicesAre DEF Inv
  <2>2. Places(num_slices) = {}
    BY <2>1, Geometry DEF Places
  <2> QED
    BY <1>1, <2>2, SamePlaces DEF Inv, Before, GaveUp, Same
<1>4. Accepted'
  BY <1>1 DEF Inv, Accepted, Same
<1> QED
  BY <1>1, <1>2, <1>3, <1>4 DEF Inv, Before, Looping, Found, PackedAs, Restored

LEMMA StepFirstMask == Inv /\ FirstMask => Inv'
<1> SUFFICES ASSUME Inv, FirstMask PROVE Inv'
  OBVIOUS
<1>1. /\ Same /\ pc = "size" /\ pc' = "loop" /\ bitmap' = bitmap /\ i' = i
      /\ file_size <= Width * SliceSize
      /\ mask' \in {Shl(Dec(one), 1) : one \in OneShl(num_slices)}
  BY DEF FirstMask, Same
<1>2. Inputs'
  BY <1>1, SamePlaces DEF Inv
<1>3. num_slices \in Nat /\ num_slices <= Width
  BY <1>1, SlicesAre DEF Inv
<1>4. ASSUME num_slices < Width
      PROVE  mask' = Run(1, num_slices)
  <2>1. mask' = Shl(Run(0, num_slices), 1)
    BY <1>1, <1>3, <1>4, LowBits
  <2>2. Shl(Run(0, num_slices), 1) = Run(0 + 1, num_slices)
    BY <1>3, ShiftRun
  <2> QED
    BY <2>1, <2>2
<1>5. \A s \in Places(num_slices) : 1 <= s
  BY <1>3, PlacesAre
<1>6. bitmap = free /\ i = 1
  BY <1>1 DEF Inv, Before
<1>7. Looping'
  <2>1. num_slices < Width => 1 <= Width - num_slices + 1
    BY <1>3, Geometry
  <2>2. Run(1, num_slices)' = Run(1, num_slices)
    BY <1>1, SamePlaces DEF Run
  <2> QED
    BY <1>1, <1>3, <1>4, <1>5, <1>6, <2>1, <2>2, SamePlaces DEF Looping, Same
<1>8. Accepted'
  BY <1>1 DEF Inv, Accepted, Same
<1> QED
  BY <1>1, <1>2, <1>7, <1>8 DEF Inv, Before, GaveUp, Found, PackedAs, Restored

\* In the loop: fewer slices than bits, and the mask is the place at i.
LEMMA InTheLoop ==
    ASSUME Inv, pc = "loop", InLoop
    PROVE  /\ num_slices \in Nat /\ num_slices < Width /\ i \in Nat \ {0} /\ i + num_slices <= Width
           /\ mask = Run(i, num_slices) /\ mask = i..(i + num_slices - 1) /\ bitmap = free
           /\ \A s \in Places(num_slices) : i <= s
           /\ i \in Places(num_slices) <=> bitmap \cup mask = bitmap
<1>1. /\ num_slices \in Nat /\ num_slices <= Width /\ i \in Nat \ {0} /\ bitmap = free
      /\ \A s \in Places(num_slices) : i <= s
  BY SlicesAre DEF Inv, Looping
<1>2. i <= Width - num_slices
  BY DEF InLoop
<1>3. num_slices < Width /\ i + num_slices <= Width
  BY <1>1, <1>2, Geometry
<1>4. mask = Run(i, num_slices)
  BY <1>3 DEF Inv, Looping
<1>5. mask = i..(i + num_slices - 1)
  BY <1>1, <1>3, <1>4, RunIs
<1>6. i \in 1..(Width - num_slices)
  BY <1>1, <1>2, Geometry
<1>7. i \in Places(num_slices) <=> mask \subseteq bitmap
  BY <1>1, <1>5, <1>6 DEF Places
<1> QED
  BY <1>1, <1>3, <1>4, <1>5, <1>7

LEMMA StepHit == Inv /\ Hit => Inv'
<1> SUFFICES ASSUME Inv, Hit PROVE Inv'
  OBVIOUS
<1>1. /\ Same /\ pc = "loop" /\ InLoop /\ pc' = "found" /\ bitmap \cup mask = bitmap
      /\ slice' = i /\ bitmap' = bitmap \ mask
  BY DEF Hit, Same
<1>2. Inputs'
  BY <1>1, SamePlaces DEF Inv
<1>3. /\ i \in Places(num_slices) /\ \A s \in Places(num_slices) : i <= s
      /\ bitmap = free /\ mask = i..(i + num_slices - 1)
  BY <1>1, InTheLoop
<1>4. Found'
  <2>1. (slice \in Places(num_slices))' /\ (\A s \in Places(num_slices) : slice <= s)'
    BY <1>1, <1>3, SamePlaces
  <2>2. bitmap' = free' \ (slice'..(slice' + num_slices' - 1))
    BY <1>1, <1>3, SamePlaces DEF Same
  <2> QED
    BY <1>1, <2>1, <2>2 DEF Found, Fits
<1>5. Accepted'
  BY <1>1 DEF Inv, Accepted, Same
<1> QED
  BY <1>1, <1>2, <1>4, <1>5 DEF Inv, Before, Looping, GaveUp, PackedAs, Restored

LEMMA StepMiss == Inv /\ Miss => Inv'
<1> SUFFICES ASSUME Inv, Miss PROVE Inv'
  OBVIOUS
<1>1. /\ Same /\ pc = "loop" /\ pc' = "loop" /\ InLoop /\ bitmap \cup mask # bitmap
      /\ mask' = Shl(mask, 1) /\ i' = i + 1 /\ bitmap' = bitmap
  BY DEF Miss, Same
<1>2. Inputs'
  BY <1>1, SamePlaces DEF Inv
<1>3. /\ num_slices \in Nat /\ num_slices < Width /\ i \in Nat \ {0} /\ i + num_slices <= Width
      /\ mask = Run(i, num_slices) /\ bitmap = free
      /\ \A s \in Places(num_slices) : i <= s
      /\ i \notin Places(num_slices)
  BY <1>1, InTheLoop
<1>4. mask' = Run(i + 1, num_slices)
  BY <1>1, <1>3, ShiftRun
<1>5. \A s \in Places(num_slices) : i + 1 <= s
  <2> TAKE s \in Places(num_slices)
  <2>1. s \in Nat /\ i <= s /\ s # i
    BY <1>3, PlacesAre
  <2> QED
    BY <2>1, <1>3
<1>6. i + 1 \in Nat \ {0} /\ i + 1 <= Width - num_slices + 1 /\ num_slices # Width
  BY <1>3, Geometry
<1>7. Looping'
  <2>1. Run(i, num_slices)' = Run(i + 1, num_slices)
    BY <1>1, SamePlaces DEF Run
  <2>2. mask' = Run(i, num_slices)' /\ bitmap' = free'
    BY <1>1, <1>3, <1>4, <2>1 DEF Same
  <2>3. \A s \in Places(num_slices)' : i' <= s
    BY <1>1, <1>5, SamePlaces
  <2>4. /\ i' \in Nat \ {0} /\ num_slices' <= Width /\ num_slices' # Width
        /\ i' <= Width - num_slices' + 1
    BY <1>1, <1>3, <1>6, SamePlaces, Geometry
  <2> QED
    BY <2>2, <2>3, <2>4 DEF Looping
<1>8. Accepted'
  BY <1>1 DEF Inv, Accepted, Same
<1> QED
  BY <1>1, <1>2, <1>7, <1>8 DEF Inv, Before, GaveUp, Found, PackedAs, Restored

LEMMA StepLoopEnds == Inv /\ LoopEnds => Inv'
<1> SUFFICES ASSUME Inv, LoopEnds PROVE Inv'
  OBVIOUS
<1>1. Same /\ pc = "loop" /\ pc' = "none" /\ ~InLoop /\ bitmap' = bitmap
  BY DEF LoopEnds, Same
<1>2. Inputs'
  BY <1>1, SamePlaces DEF Inv
<1>3. /\ num_slices \in Nat /\ i \in Nat /\ bitmap = free
      /\ \A s \in Places(num_slices) : i <= s
  BY <1>1, SlicesAre DEF Inv, Looping
<1>4. Places(num_slices) = {}
  <2>1. ASSUME NEW s \in Places(num_slices) PROVE FALSE
    <3>1. s \in Nat /\ s + num_slices <= Width /\ i <= s
      BY <1>3, PlacesAre
    <3>2. ~(i <= Width - num_slices)
      BY <1>1 DEF InLoop
    <3> QED
      BY <1>3, <3>1, <3>2, Geometry
  <2> QED
    BY <2>1
<1>5. GaveUp'
  BY <1>1, <1>3, <1>4, SamePlaces DEF GaveUp, Same
<1>6. Accepted'
  BY <1>1 DEF Inv, Accepted, Same
<1> QED
  BY <1>1, <1>2, <1>5, <1>6 DEF Inv, Before, Looping, Found, PackedAs, Restored

\* The slice found is a slice number: not 0, and below the width, for a file
\* without slices too.
LEMMA SliceIs ==
    ASSUME Inv, pc \in {"found", "packed", "deleted"}
    PROVE  /\ num_slices \in Nat /\ num_slices < Width /\ slice \in 1..(Width - 1)
           /\ slice + num_slices <= Width /\ slice..(slice + num_slices - 1) \subseteq free
<1>1. num_slices \in Nat /\ slice \in Places(num_slices) /\ \A s \in Places(num_slices) : slice <= s
  BY SlicesAre DEF Inv, Found, Fits
<1>2. slice \in Nat \ {0} /\ slice + num_slices <= Width /\ slice..(slice + num_slices - 1) \subseteq free
  BY <1>1, PlacesAre
<1>3. CASE num_slices = 0
  <2>1. 1 \in Places(num_slices)
    BY <1>3, Geometry DEF Places
  <2> QED
    BY <1>1, <1>2, <1>3, <2>1, Geometry
<1>4. CASE num_slices # 0
  BY <1>1, <1>2, <1>4, Geometry
<1> QED
  BY <1>3, <1>4

LEMMA StepPack == Inv /\ Pack => Inv'
<1> SUFFICES ASSUME Inv, Pack PROVE Inv'
  OBVIOUS
<1>1. /\ Same /\ pc = "found" /\ pc' = "packed" /\ index' = Packed
      /\ bitmap' = bitmap /\ slice' = slice
  BY DEF Pack, Same
<1>2. Inputs'
  BY <1>1, SamePlaces DEF Inv
<1>3. Found'
  <2>1. (slice \in Places(num_slices))' /\ (\A s \in Places(num_slices) : slice <= s)'
    BY <1>1, SamePlaces DEF Inv, Found, Fits
  <2>2. bitmap' = free' \ (slice'..(slice' + num_slices' - 1))
    BY <1>1, SamePlaces DEF Inv, Found, Same
  <2> QED
    BY <1>1, <2>1, <2>2 DEF Found, Fits
<1>4. Accepted' /\ PackedAs'
  BY <1>1 DEF Inv, Accepted, PackedAs, Packed, Same
<1> QED
  BY <1>1, <1>2, <1>3, <1>4 DEF Inv, Before, Looping, GaveUp, Restored

\* Unpacking gives back what was packed, but the number of the last block.
LEMMA UnpackIs ==
    ASSUME Inv, pc \in {"packed", "deleted"}
    PROVE  GetSlice(index) = slice /\ GetBno(index) = IF LostNumber THEN 0 ELSE block
<1>1. block \in Nat /\ block <= BlockLimit
  BY Geometry DEF Inv, Inputs, Accepted
<1>2. slice \in 0..(Width - 1)
  BY SliceIs, Geometry
<1>3. CASE block # BlockLimit
  <2>1. index = block * Width + slice
    BY <1>1, <1>2, <1>3, PackBelow, Geometry DEF Inv, PackedAs, Packed
  <2> QED
    BY <1>1, <1>2, <1>3, <2>1, Unpack, Geometry DEF GetBno, GetSlice, LostNumber
<1>4. CASE block = BlockLimit
  <2>1. index = slice
    BY <1>2, <1>4, PackAtLimit, Geometry DEF Inv, PackedAs, Packed
  <2>2. (0 * Width + slice) \div Width = 0 /\ (0 * Width + slice) % Width = slice
    BY <1>2, Unpack, Geometry
  <2>3. 0 * Width + slice = slice
    BY <1>2, Geometry
  <2> QED
    BY <1>4, <2>1, <2>2, <2>3 DEF GetBno, GetSlice, LostNumber
<1> QED
  BY <1>3, <1>4

LEMMA StepDelete == Inv /\ Delete => Inv'
<1> SUFFICES ASSUME Inv, Delete PROVE Inv'
  OBVIOUS
<1>1. /\ Same /\ pc = "packed" /\ pc' = "deleted" /\ index' = index /\ slice' = slice
  BY DEF Delete, Same
<1>2. Inputs'
  BY <1>1, SamePlaces DEF Inv
<1>3. Found'
  <2>1. (slice \in Places(num_slices))' /\ (\A s \in Places(num_slices) : slice <= s)'
    BY <1>1, SamePlaces DEF Inv, Found, Fits
  <2> QED
    BY <1>1, <2>1 DEF Found, Fits
<1>4. Accepted' /\ PackedAs'
  BY <1>1 DEF Inv, Accepted, PackedAs, Packed, Same
<1>5. ASSUME block # BlockLimit PROVE bitmap' = free
  <2> DEFINE place == slice..(slice + num_slices - 1)
  <2>1. /\ num_slices \in Nat /\ num_slices < Width /\ slice \in 1..(Width - 1)
        /\ slice + num_slices <= Width /\ place \subseteq free
    BY <1>1, SliceIs
  <2>2. GetBno(index) # 0 /\ GetSlice(index) = slice
    BY <1>1, <1>5, UnpackIs, Geometry DEF Inv, Inputs, LostNumber
  <2>3. bitmap = free \ place
    BY <1>1 DEF Inv, Found
  <2>4. CASE num_slices = 0
    <3>1. bitmap' = bitmap /\ place = {}
      BY <2>1, <2>4 DEF Delete
    <3> QED
      BY <2>3, <3>1
  <2>5. CASE num_slices # 0
    <3>1. PICK m \in DeleteMask : bitmap' = bitmap \cup m
      BY <2>2, <2>5 DEF Delete
    <3>2. m = Shl(Run(0, num_slices), slice)
      BY <2>1, <2>2, LowBits DEF DeleteMask
    <3>3. m = Run(0 + slice, num_slices)
      BY <2>1, <3>2, ShiftRun, Geometry
    <3>4. m = place
      BY <2>1, <3>3, RunIs, Geometry
    <3> QED
      BY <2>1, <2>3, <3>1, <3>4
  <2> QED
    BY <2>4, <2>5
<1>6. ASSUME LostNumber PROVE bitmap' = free \ (slice..(slice + num_slices - 1))
  <2>1. GetBno(index) = 0
    BY <1>1, <1>6, UnpackIs
  <2>2. bitmap' = bitmap
    BY <2>1 DEF Delete
  <2> QED
    BY <1>1, <2>2 DEF Inv, Found
<1>7. Restored'
  <2>1. free' = free /\ slice' = slice /\ num_slices' = num_slices /\ (LostNumber' <=> LostNumber)
    BY <1>1 DEF Same, num_slices, LostNumber
  <2> QED
    BY <1>5, <1>6, <2>1 DEF Restored, LostNumber
<1> QED
  BY <1>1, <1>2, <1>3, <1>4, <1>7 DEF Inv, Before, Looping, GaveUp

LEMMA StepStutter == Inv /\ UNCHANGED vars => Inv'
<1> SUFFICES ASSUME Inv, UNCHANGED vars PROVE Inv'
  OBVIOUS
<1>1. Same /\ UNCHANGED <<bitmap, mask, i, slice, index, pc>>
  BY DEF vars, Same
<1>2. Inputs' /\ Before'
  BY <1>1, SamePlaces DEF Inv, Before, Same
<1>3. Looping' /\ GaveUp'
  BY <1>1, SamePlaces DEF Inv, Looping, GaveUp, Run, Same
<1>4. Found'
  BY <1>1, SamePlaces DEF Inv, Found, Fits, Same
<1>5. Accepted' /\ PackedAs' /\ Restored'
  BY <1>1 DEF Inv, Accepted, PackedAs, Packed, Restored, Same, LostNumber, num_slices
<1> QED
  BY <1>2, <1>3, <1>4, <1>5 DEF Inv

LEMMA InvHolds == Spec => []Inv
<1>1. Inv /\ [Next]_vars => Inv'
  BY StepReject, StepAccept, StepTooLong, StepFirstMask, StepHit, StepMiss, StepLoopEnds,
     StepPack, StepDelete, StepStutter DEF Next
<1> QED
  BY InvInit, <1>1, PTL DEF Spec
-----------------------------------------------------------------------------
(* Theorems *)

(* get_consequitive_free_slices finds the first place where the slices fit, *)
(* clears exactly their bits, and returns 0 only when there is no such      *)
(* place, whatever the shift by the full width gives.                       *)
THEOREM SearchIsFirstFit == Spec => []FirstFit
<1>1. Inv => FirstFit
  <2> SUFFICES ASSUME Inv PROVE FirstFit
    OBVIOUS
  <2>1. ASSUME pc = "found" PROVE slice = Min(Places(num_slices))
    <3>1. num_slices \in Nat /\ slice \in Places(num_slices) /\ \A s \in Places(num_slices) : slice <= s
      BY <2>1, SliceIs DEF Inv, Found, Fits
    <3>2. Places(num_slices) \subseteq Nat
      BY <3>1, PlacesAre
    <3>3. \A s \in Places(num_slices) : (\A y \in Places(num_slices) : s <= y) => s = slice
      BY <3>1, <3>2
    <3> QED
      BY <3>1, <3>3 DEF Min
  <2>2. pc = "found" => bitmap = free \ (slice..(slice + num_slices - 1))
    BY DEF Inv, Found
  <2> QED
    BY <2>1, <2>2 DEF Inv, GaveUp, FirstFit
<1> QED
  BY InvHolds, <1>1, PTL

(* Block and slice number come out of index_block as write_small_file put   *)
(* them in, for every block allocate_and_init_slice_block accepts but the   *)
(* last: 2^27 passes its test, has one bit too many and comes out as 0.     *)
THEOREM PackingIsFaithful == Spec => []PackingKeepsBlock
<1>1. Inv => PackingKeepsBlock
  BY UnpackIs DEF PackingKeepsBlock
<1> QED
  BY InvHolds, <1>1, PTL

(* delete_slice, told only what index_block and num_slices say, gives back  *)
(* exactly the slices the search took: the bitmap is what it was before the *)
(* write.  Only a file in block 2^27 keeps its slices for ever.             *)
THEOREM DeleteUndoesWrite == Spec => []DeleteRestores
<1>1. Inv => DeleteRestores
  BY DEF Inv, Restored, DeleteRestores
<1> QED
  BY InvHolds, <1>1, PTL
=============================================================================
