---------------------------- MODULE FormatProofs -----------------------------
(* Theorems about Format, for partitions of any size and blocks of any      *)
(* capacity.                                                                *)
EXTENDS Format, FiniteSetTheorems, TLAPS

(* Division *)

LEMMA DivIs ==
    ASSUME NEW a \in Nat, NEW b \in Nat \ {0}
    PROVE  /\ a \div b \in Nat /\ a % b \in 0..(b - 1) /\ a % b = a - b * (a \div b)
           /\ b * (a \div b) <= a /\ a < b * (a \div b) + b
<1>1. a \div b \in Nat /\ a % b \in 0..(b - 1)
  OBVIOUS
<1>2. a % b = a - b * (a \div b)
  BY SMTT(30)
<1>3. b * (a \div b) <= a /\ a < b * (a \div b) + b
  OBVIOUS
<1> QED
  BY <1>1, <1>2, <1>3

LEMMA Times ==
    ASSUME NEW q \in Nat, NEW c \in Nat, NEW b \in Nat
    PROVE  /\ q * b \in Nat /\ q * b = b * q /\ (q + 1) * b = q * b + b
           /\ q >= c => q * b >= c * b
OBVIOUS

\* mkfs rounds up: that many blocks of b take a, and numbers below a are found
\* in one of them.
LEMMA CeilIs ==
    ASSUME NEW a \in Nat \ {0}, NEW b \in Nat \ {0}
    PROVE  /\ idiv_ceil(a, b) \in Nat \ {0} /\ idiv_ceil(a, b) * b >= a
           /\ \A k \in 0..(a - 1) : k \div b \in 0..(idiv_ceil(a, b) - 1)
<1> DEFINE q == a \div b
           r == a % b
           c == idiv_ceil(a, b)
<1>1. q \in Nat /\ r \in 0..(b - 1) /\ r = a - b * q
  BY DivIs
<1>2. c = IF r # 0 THEN q + 1 ELSE q
  BY DEF idiv_ceil
<1> HIDE DEF q, r, c
<1>3. c \in Nat /\ q * b = b * q /\ (q + 1) * b = q * b + b /\ q * b \in Nat
  BY <1>1, <1>2, Times
<1>4. c * b >= a
  BY <1>1, <1>2, <1>3
<1>5. c # 0
  <2>1. 0 * b = 0
    OBVIOUS
  <2> QED
    BY <1>4, <2>1
<1>6. ASSUME NEW k \in 0..(a - 1) PROVE k \div b \in 0..(c - 1)
  <2> DEFINE p == k \div b
  <2>1. k \in Nat
    OBVIOUS
  <2>2. p \in Nat /\ b * p <= k
    BY <2>1, DivIs
  <2> HIDE DEF p
  <2>3. p * b = b * p /\ p * b \in Nat /\ c * b \in Nat /\ (p >= c => p * b >= c * b)
    BY <1>3, <2>2, Times
  <2>4. p < c
    BY <1>3, <1>4, <2>1, <2>2, <2>3
  <2> QED
    BY <1>3, <2>2, <2>4 DEF p
<1> QED
  BY <1>3, <1>4, <1>5, <1>6 DEF c
-----------------------------------------------------------------------------
(* The layout of a partition of n blocks *)

Inodes(n) == n + (n % InodesPerBlock)
IStore(n) == idiv_ceil(Inodes(n), InodesPerBlock)
IFree(n) == idiv_ceil(Inodes(n), BitsPerBlock)
BFree(n) == idiv_ceil(n, BitsPerBlock)
Used(n) == IStore(n) + IFree(n) + BFree(n) + 2

\* Partitions with room for their metadata, and for its bits in the first block
\* of the block bitmap, where write_bfree_blocks puts them.
Room == \A n \in Sizes : Used(n) <= n
FirstBlock == \A n \in Sizes : Used(n) <= BitsPerBlock

Size(n) == DOMAIN disk = 0..(n - 1)

LEMMA GeometryIs ==
    ASSUME NEW n \in Sizes
    PROVE  /\ n \in Nat \ {0} /\ Inodes(n) \in Nat \ {0}
           /\ IStore(n) \in Nat \ {0} /\ IFree(n) \in Nat \ {0} /\ BFree(n) \in Nat \ {0}
           /\ Used(n) \in Nat
<1>1. n \in Nat \ {0} /\ InodesPerBlock \in Nat \ {0} /\ BitsPerBlock \in Nat \ {0}
  BY FormatAssumption
<1>2. n % InodesPerBlock \in Nat
  BY <1>1, DivIs
<1>3. Inodes(n) \in Nat \ {0}
  BY <1>1, <1>2 DEF Inodes
<1>4. IStore(n) \in Nat \ {0} /\ IFree(n) \in Nat \ {0} /\ BFree(n) \in Nat \ {0}
  BY <1>1, <1>3, CeilIs DEF IStore, IFree, BFree
<1> QED
  BY <1>1, <1>3, <1>4 DEF Used

LEMMA CountsAre ==
    ASSUME NEW n \in Sizes, Size(n)
    PROVE  /\ nr_blocks = n /\ nr_inodes = Inodes(n) /\ nr_istore_blocks = IStore(n)
           /\ nr_ifree_blocks = IFree(n) /\ nr_bfree_blocks = BFree(n)
           /\ NrUsed = Used(n) /\ FirstDataBlock = Used(n) - 1
           /\ nr_data_blocks - 1 = n - Used(n)
<1>1. n \in Nat /\ IStore(n) \in Nat /\ IFree(n) \in Nat /\ BFree(n) \in Nat
  BY GeometryIs
<1>2. Cardinality(0..(n - 1)) = n
  BY <1>1, FS_Interval
<1>3. nr_blocks = n
  BY <1>2 DEF nr_blocks, Size
<1>4. /\ nr_inodes = Inodes(n) /\ nr_istore_blocks = IStore(n)
      /\ nr_ifree_blocks = IFree(n) /\ nr_bfree_blocks = BFree(n)
  BY <1>3 DEF nr_inodes, nr_istore_blocks, nr_ifree_blocks, nr_bfree_blocks,
              Inodes, IStore, IFree, BFree
<1> QED
  BY <1>1, <1>3, <1>4 DEF NrUsed, FirstDataBlock, nr_data_blocks, Used

\* What mkfs writes to each block.
Super(n) ==
    [kind |-> "super", nr_inodes |-> Inodes(n), nr_istore_blocks |-> IStore(n),
     nr_ifree_blocks |-> IFree(n), nr_bfree_blocks |-> BFree(n),
     nr_free_inodes |-> Inodes(n) - 1, nr_free_blocks |-> n - Used(n)]
StoreBlock(n, k) == [kind |-> "istore", root |-> IF k = 0 THEN Used(n) - 1 ELSE 0]
IFreeBlock(k) ==
    [kind |-> "ifree", bits |-> IF k = 0 THEN 2..(BitsPerBlock - 1) ELSE 0..(BitsPerBlock - 1)]
BFreeBlock(n, k) ==
    [kind |-> "bfree", bits |-> IF k = 0 THEN Used(n)..(BitsPerBlock - 1) ELSE 0..(BitsPerBlock - 1)]

Layout(n, b) ==
    IF b = 0 THEN Super(n)
    ELSE IF b < 1 + IStore(n) THEN StoreBlock(n, b - 1)
    ELSE IF b < 1 + IStore(n) + IFree(n) THEN IFreeBlock(b - 1 - IStore(n))
    ELSE IF b < 1 + IStore(n) + IFree(n) + BFree(n)
         THEN BFreeBlock(n, b - 1 - IStore(n) - IFree(n))
    ELSE [kind |-> "root"]

\* The first o blocks are written, the others are as they were.
WrittenTo(n, o) == \A b \in 0..(n - 1) : disk[b] = IF b < o THEN Layout(n, b) ELSE Raw

\* Where mkfs is, and what a mount has read.
Bits(first, count) == {x \in Nat : x >= first /\ x < count * BitsPerBlock}

At(p, o, count) == phase = p /\ off = o + i /\ i \in 0..(count - 1)

MkfsInv(n) ==
    /\ WrittenTo(n, off) /\ ifree = {} /\ bfree = {}
    /\ \/ phase = "super" /\ off = 0 /\ i = 0
       \/ At("istore", 1, IStore(n))
       \/ At("ifree", 1 + IStore(n), IFree(n))
       \/ At("bfree", 1 + IStore(n) + IFree(n), BFree(n))
       \/ phase = "root" /\ off = Used(n) - 1 /\ i = 0
       \/ phase = "made" /\ off = Used(n)

MountInv(n) ==
    /\ WrittenTo(n, Used(n)) /\ off = Used(n)
    /\ \/ phase = "read_ifree" /\ i \in 0..(IFree(n) - 1) /\ ifree = Bits(2, i) /\ bfree = {}
       \/ /\ phase = "read_bfree" /\ i \in 0..(BFree(n) - 1) /\ ifree = Bits(2, IFree(n))
          /\ Used(n) <= BitsPerBlock => bfree = Bits(Used(n), i)
       \/ /\ phase = "mounted" /\ ifree = Bits(2, IFree(n))
          /\ Used(n) <= BitsPerBlock => bfree = Bits(Used(n), BFree(n))

FormatInv(n) == Size(n) /\ (phase = "failed" \/ MkfsInv(n) \/ MountInv(n))
-----------------------------------------------------------------------------
(* mkfs *)

\* One block is written, the next of the layout.
LEMMA WriteIs ==
    ASSUME NEW n \in Sizes, Size(n), WrittenTo(n, off), off \in 0..(n - 1),
           Write(Layout(n, off))
    PROVE  Size(n)' /\ WrittenTo(n, off)' /\ off' = off + 1
<1> DEFINE c == Layout(n, off)
<1> HIDE DEF c
<1>1. disk' = [disk EXCEPT ![off] = c] /\ off' = off + 1 /\ n \in Nat
  BY GeometryIs DEF Write, c
<1>2. DOMAIN disk' = 0..(n - 1)
  BY <1>1 DEF Size
<1>3. \A b \in 0..(n - 1) : disk'[b] = IF b = off THEN c ELSE disk[b]
  BY <1>1 DEF Size
<1>4. \A b \in 0..(n - 1) : disk'[b] = IF b < off + 1 THEN Layout(n, b) ELSE Raw
  <2> TAKE b \in 0..(n - 1)
  <2>1. disk[b] = IF b < off THEN Layout(n, b) ELSE Raw
    BY DEF WrittenTo
  <2>2. CASE b = off
    BY <1>1, <1>3, <2>2 DEF c
  <2>3. CASE b # off
    <3>1. b < off + 1 <=> b < off
      BY <1>1, <2>3
    <3> QED
      BY <1>3, <2>1, <2>3, <3>1
  <2> QED
    BY <2>2, <2>3
<1>5. Size(n)' /\ WrittenTo(n, off)'
  BY <1>1, <1>2, <1>4 DEF Size, WrittenTo
<1> QED
  BY <1>1, <1>5

\* The blocks of a phase are the ones the layout has there.
LEMMA LayoutIs ==
    ASSUME NEW n \in Sizes
    PROVE  /\ Layout(n, 0) = Super(n)
           /\ \A k \in 0..(IStore(n) - 1) : Layout(n, 1 + k) = StoreBlock(n, k)
           /\ \A k \in 0..(IFree(n) - 1) : Layout(n, 1 + IStore(n) + k) = IFreeBlock(k)
           /\ \A k \in 0..(BFree(n) - 1) : Layout(n, 1 + IStore(n) + IFree(n) + k) = BFreeBlock(n, k)
           /\ Layout(n, Used(n) - 1) = [kind |-> "root"]
<1> DEFINE s == IStore(n)
           f == IFree(n)
           g == BFree(n)
<1>1. s \in Nat \ {0} /\ f \in Nat \ {0} /\ g \in Nat \ {0}
  BY GeometryIs
<1>2. \A b : Layout(n, b) = IF b = 0 THEN Super(n)
                            ELSE IF b < 1 + s THEN StoreBlock(n, b - 1)
                            ELSE IF b < 1 + s + f THEN IFreeBlock(b - 1 - s)
                            ELSE IF b < 1 + s + f + g THEN BFreeBlock(n, b - 1 - s - f)
                            ELSE [kind |-> "root"]
  BY DEF Layout
<1>3. Used(n) = s + f + g + 2
  BY DEF Used
<1> HIDE DEF s, f, g
<1>4. ASSUME NEW k \in 0..(s - 1) PROVE Layout(n, 1 + k) = StoreBlock(n, k)
  <2>1. 1 + k # 0 /\ 1 + k < 1 + s /\ (1 + k) - 1 = k
    BY <1>1
  <2> QED
    BY <1>2, <2>1
<1>5. ASSUME NEW k \in 0..(f - 1) PROVE Layout(n, 1 + s + k) = IFreeBlock(k)
  <2>1. 1 + s + k # 0 /\ ~ (1 + s + k < 1 + s) /\ 1 + s + k < 1 + s + f /\ (1 + s + k) - 1 - s = k
    BY <1>1
  <2> QED
    BY <1>2, <2>1
<1>6. ASSUME NEW k \in 0..(g - 1) PROVE Layout(n, 1 + s + f + k) = BFreeBlock(n, k)
  <2> DEFINE b == 1 + s + f + k
  <2>1. /\ b # 0 /\ ~ (b < 1 + s) /\ ~ (b < 1 + s + f)
        /\ b < 1 + s + f + g /\ b - 1 - s - f = k
    BY <1>1
  <2> HIDE DEF b
  <2> QED
    BY <1>2, <2>1 DEF b
<1>7. Layout(n, Used(n) - 1) = [kind |-> "root"]
  <2> DEFINE b == Used(n) - 1
  <2>1. /\ b # 0 /\ ~ (b < 1 + s) /\ ~ (b < 1 + s + f) /\ ~ (b < 1 + s + f + g)
    BY <1>1, <1>3
  <2> HIDE DEF b
  <2> QED
    BY <1>2, <2>1 DEF b
<1> QED
  BY <1>2, <1>4, <1>5, <1>6, <1>7 DEF s, f, g

LEMMA FormatInit == Init => \E n \in Sizes : FormatInv(n)
<1> SUFFICES ASSUME Init PROVE \E n \in Sizes : FormatInv(n)
  OBVIOUS
<1>1. PICK n \in Sizes : disk = [b \in 0..(n - 1) |-> Raw]
  BY DEF Init
<1>2. n \in Nat
  BY GeometryIs
<1>3. Size(n)
  BY <1>1 DEF Size
<1>4. WrittenTo(n, 0)
  BY <1>1, <1>2 DEF WrittenTo
<1>5. MkfsInv(n)
  BY <1>4 DEF MkfsInv, Init
<1> QED
  BY <1>3, <1>5 DEF FormatInv

LEMMA MkfsStep ==
    ASSUME NEW n \in Sizes, Used(n) <= n, Size(n), MkfsInv(n),
           \/ write_superblock \/ write_inode_store \/ write_ifree_blocks \/ write_bfree_blocks
           \/ write_root_index_block
    PROVE  FormatInv(n)'
<1> DEFINE s == IStore(n)
           f == IFree(n)
           g == BFree(n)
           u == Used(n)
<1>1. n \in Nat /\ s \in Nat \ {0} /\ f \in Nat \ {0} /\ g \in Nat \ {0} /\ u \in Nat
      /\ u = s + f + g + 2 /\ u <= n
  BY GeometryIs DEF Used
<1>2. /\ nr_blocks = n /\ nr_inodes = Inodes(n) /\ nr_istore_blocks = s
      /\ nr_ifree_blocks = f /\ nr_bfree_blocks = g
      /\ NrUsed = u /\ FirstDataBlock = u - 1 /\ nr_data_blocks - 1 = n - u
  BY CountsAre
<1>3. WrittenTo(n, off) /\ ifree = {} /\ bfree = {}
  BY DEF MkfsInv
<1>4. UNCHANGED <<ifree, bfree>>
  BY DEF write_superblock, write_inode_store, write_ifree_blocks, write_bfree_blocks,
         write_root_index_block
<1>5. ASSUME off \in 0..(n - 1), Write(Layout(n, off)),
             \/ phase' = "istore" /\ off' = 1 + i' /\ i' \in 0..(s - 1)
             \/ phase' = "ifree" /\ off' = 1 + s + i' /\ i' \in 0..(f - 1)
             \/ phase' = "bfree" /\ off' = 1 + s + f + i' /\ i' \in 0..(g - 1)
             \/ phase' = "root" /\ off' = u - 1 /\ i' = 0
             \/ phase' = "made" /\ off' = u
      PROVE  FormatInv(n)'
  <2>1. Size(n)' /\ WrittenTo(n, off)'
    BY <1>3, <1>5, WriteIs
  <2>2. MkfsInv(n)'
    BY <1>3, <1>4, <1>5, <2>1 DEF MkfsInv, At
  <2> QED
    BY <2>1, <2>2 DEF FormatInv
<1>6. CASE write_superblock
  <2>1. phase = "super" /\ phase' = "istore" /\ i' = i /\ Write(Superblock)
    BY <1>6 DEF write_superblock
  <2>2. off = 0 /\ i = 0
    BY <2>1 DEF MkfsInv, At
  <2>3. Superblock = Layout(n, off)
    <3>1. Superblock = Super(n)
      BY <1>2 DEF Superblock, Super
    <3> QED
      BY <2>2, <3>1, LayoutIs
  <2>4. off \in 0..(n - 1) /\ off' = 1 + i' /\ i' \in 0..(s - 1)
    BY <1>1, <2>1, <2>2 DEF Write
  <2> QED
    BY <1>5, <2>1, <2>3, <2>4
<1>7. CASE write_inode_store
  <2> DEFINE c == [kind |-> "istore", root |-> IF i = 0 THEN FirstDataBlock ELSE 0]
  <2>1. phase = "istore" /\ Write(c) /\ Continue(s, "ifree")
    BY <1>2, <1>7 DEF write_inode_store
  <2>2. off = 1 + i /\ i \in 0..(s - 1)
    BY <2>1 DEF MkfsInv, At
  <2>3. c = Layout(n, off)
    <3>1. c = StoreBlock(n, i)
      BY <1>2 DEF StoreBlock
    <3> QED
      BY <2>2, <3>1, LayoutIs
  <2>4. off \in 0..(n - 1) /\ off' = off + 1
    BY <1>1, <2>1, <2>2 DEF Write
  <2> HIDE DEF c, s, f, g, u
  <2>5. CASE i + 1 < s
    BY <1>1, <1>5, <2>1, <2>2, <2>3, <2>4, <2>5 DEF Continue
  <2>6. CASE ~ (i + 1 < s)
    BY <1>1, <1>5, <2>1, <2>2, <2>3, <2>4, <2>6 DEF Continue
  <2> QED
    BY <2>5, <2>6
<1>8. CASE write_ifree_blocks
  <2> DEFINE c == [kind |-> "ifree",
                   bits |-> IF i = 0 THEN 2..(BitsPerBlock - 1) ELSE 0..(BitsPerBlock - 1)]
  <2>1. phase = "ifree" /\ Write(c) /\ Continue(f, "bfree")
    BY <1>2, <1>8 DEF write_ifree_blocks
  <2>2. off = 1 + s + i /\ i \in 0..(f - 1)
    BY <2>1 DEF MkfsInv, At
  <2>3. c = Layout(n, off)
    <3>1. c = IFreeBlock(i)
      BY DEF IFreeBlock
    <3> QED
      BY <2>2, <3>1, LayoutIs
  <2>4. off \in 0..(n - 1) /\ off' = off + 1
    BY <1>1, <2>1, <2>2 DEF Write
  <2> HIDE DEF c, s, f, g, u
  <2>5. CASE i + 1 < f
    BY <1>1, <1>5, <2>1, <2>2, <2>3, <2>4, <2>5 DEF Continue
  <2>6. CASE ~ (i + 1 < f)
    BY <1>1, <1>5, <2>1, <2>2, <2>3, <2>4, <2>6 DEF Continue
  <2> QED
    BY <2>5, <2>6
<1>9. CASE write_bfree_blocks
  <2> DEFINE c == [kind |-> "bfree",
                   bits |-> IF i = 0 THEN NrUsed..(BitsPerBlock - 1) ELSE 0..(BitsPerBlock - 1)]
  <2>1. phase = "bfree" /\ Write(c) /\ Continue(g, "root")
    BY <1>2, <1>9 DEF write_bfree_blocks
  <2>2. off = 1 + s + f + i /\ i \in 0..(g - 1)
    BY <2>1 DEF MkfsInv, At
  <2>3. c = Layout(n, off)
    <3>1. c = BFreeBlock(n, i)
      BY <1>2 DEF BFreeBlock
    <3> QED
      BY <2>2, <3>1, LayoutIs
  <2>4. off \in 0..(n - 1) /\ off' = off + 1
    BY <1>1, <2>1, <2>2 DEF Write
  <2> HIDE DEF c, s, f, g, u
  <2>5. CASE i + 1 < g
    BY <1>1, <1>5, <2>1, <2>2, <2>3, <2>4, <2>5 DEF Continue
  <2>6. CASE ~ (i + 1 < g)
    BY <1>1, <1>5, <2>1, <2>2, <2>3, <2>4, <2>6 DEF Continue
  <2> QED
    BY <2>5, <2>6
<1>10. CASE write_root_index_block
  <2>1. phase = "root" /\ phase' = "made" /\ Write([kind |-> "root"])
    BY <1>10 DEF write_root_index_block
  <2>2. off = u - 1
    BY <2>1 DEF MkfsInv, At
  <2>3. Layout(n, off) = [kind |-> "root"]
    BY <2>2, LayoutIs
  <2>4. off \in 0..(n - 1) /\ off' = u
    BY <1>1, <2>1, <2>2 DEF Write
  <2> QED
    BY <1>5, <2>1, <2>3, <2>4
<1> QED
  BY <1>6, <1>7, <1>8, <1>9, <1>10
-----------------------------------------------------------------------------
(* ouichefs_fill_super *)

\* One more block of a bitmap is read.
LEMMA BitsAre ==
    ASSUME NEW first \in Nat, first <= BitsPerBlock, NEW k \in Nat
    PROVE  Bits(first, k)
           \cup {k * BitsPerBlock + b : b \in IF k = 0 THEN first..(BitsPerBlock - 1)
                                              ELSE 0..(BitsPerBlock - 1)}
           = Bits(first, k + 1)
<1> DEFINE w == BitsPerBlock
           m == k * w
           new == {m + b : b \in IF k = 0 THEN first..(w - 1) ELSE 0..(w - 1)}
<1>1. w \in Nat \ {0}
  BY FormatAssumption
<1>2. m \in Nat /\ (k + 1) * w = m + w /\ (k # 0 => m >= w) /\ (k = 0 => m = 0)
  <2>1. m \in Nat /\ (k + 1) * w = m + w /\ (k >= 1 => m >= 1 * w)
    BY <1>1, Times
  <2> QED
    BY <1>1, <2>1
<1>3. \A x : x \in Bits(first, k) <=> x \in Nat /\ x >= first /\ x < m
  BY DEF Bits
<1>4. \A x : x \in Bits(first, k + 1) <=> x \in Nat /\ x >= first /\ x < m + w
  BY <1>2 DEF Bits
<1> HIDE DEF w, m
<1>5. CASE k = 0
  <2>1. m = 0
    BY <1>2, <1>5
  <2>2. \A x : x \in new <=> x \in Nat /\ x >= first /\ x < w
    BY <1>1, <1>5, <2>1
  <2> HIDE DEF new
  <2>3. \A x : x \in Bits(first, k) \cup new <=> x \in Bits(first, k + 1)
    BY <1>1, <1>3, <1>4, <2>1, <2>2
  <2> QED
    BY <2>3 DEF new, m, w
<1>6. CASE k # 0
  <2>1. \A x : x \in new <=> x \in Nat /\ x >= m /\ x < m + w
    <3>1. ASSUME NEW x \in Nat, x >= m, x < m + w PROVE x \in new
      <4>1. x - m \in 0..(w - 1) /\ m + (x - m) = x
        BY <1>1, <1>2, <3>1
      <4> QED
        BY <1>6, <4>1
    <3>2. ASSUME NEW b \in 0..(w - 1) PROVE m + b \in Nat /\ m + b >= m /\ m + b < m + w
      BY <1>1, <1>2
    <3> QED
      BY <1>6, <3>1, <3>2
  <2> HIDE DEF new
  <2>2. first \in Nat /\ first <= m
    BY <1>1, <1>2, <1>6 DEF w
  <2>3. \A x : x \in Bits(first, k) \cup new <=> x \in Bits(first, k + 1)
    BY <1>1, <1>2, <1>3, <1>4, <2>1, <2>2
  <2> QED
    BY <2>3 DEF new, m, w
<1> QED
  BY <1>5, <1>6

\* What ouichefs_fill_super finds where it looks.
LEMMA BlocksRead ==
    ASSUME NEW n \in Sizes, Used(n) <= n, WrittenTo(n, Used(n))
    PROVE  /\ sb = Super(n)
           /\ \A k \in 0..(IStore(n) - 1) : disk[1 + k] = StoreBlock(n, k)
           /\ \A k \in 0..(IFree(n) - 1) : disk[IStore(n) + k + 1] = IFreeBlock(k)
           /\ \A k \in 0..(BFree(n) - 1) : disk[IStore(n) + IFree(n) + k + 1] = BFreeBlock(n, k)
           /\ disk[Used(n) - 1] = [kind |-> "root"]
<1> DEFINE s == IStore(n)
           f == IFree(n)
           g == BFree(n)
           u == Used(n)
<1>1. n \in Nat /\ s \in Nat \ {0} /\ f \in Nat \ {0} /\ g \in Nat \ {0} /\ u \in Nat
      /\ u = s + f + g + 2 /\ u <= n
  BY GeometryIs DEF Used
<1>2. /\ Layout(n, 0) = Super(n)
      /\ \A k \in 0..(s - 1) : Layout(n, 1 + k) = StoreBlock(n, k)
      /\ \A k \in 0..(f - 1) : Layout(n, 1 + s + k) = IFreeBlock(k)
      /\ \A k \in 0..(g - 1) : Layout(n, 1 + s + f + k) = BFreeBlock(n, k)
      /\ Layout(n, u - 1) = [kind |-> "root"]
  BY LayoutIs
<1>3. \A b \in 0..(n - 1) : b < u => disk[b] = Layout(n, b)
  BY DEF WrittenTo
<1> HIDE DEF s, f, g, u
<1>4. sb = Super(n) /\ disk[u - 1] = [kind |-> "root"]
  <2>1. 0 \in 0..(n - 1) /\ 0 < u /\ u - 1 \in 0..(n - 1) /\ u - 1 < u
    BY <1>1
  <2> QED
    BY <1>2, <1>3, <2>1 DEF sb
<1>5. ASSUME NEW k \in 0..(s - 1) PROVE disk[1 + k] = StoreBlock(n, k)
  <2>1. 1 + k \in 0..(n - 1) /\ 1 + k < u
    BY <1>1
  <2> QED
    BY <1>2, <1>3, <2>1
<1>6. ASSUME NEW k \in 0..(f - 1) PROVE disk[s + k + 1] = IFreeBlock(k)
  <2>1. s + k + 1 \in 0..(n - 1) /\ s + k + 1 < u /\ s + k + 1 = 1 + s + k
    BY <1>1
  <2> QED
    BY <1>2, <1>3, <2>1
<1>7. ASSUME NEW k \in 0..(g - 1) PROVE disk[s + f + k + 1] = BFreeBlock(n, k)
  <2>1. s + f + k + 1 \in 0..(n - 1) /\ s + f + k + 1 < u /\ s + f + k + 1 = 1 + s + f + k
    BY <1>1
  <2> QED
    BY <1>2, <1>3, <2>1
<1> QED
  BY <1>4, <1>5, <1>6, <1>7 DEF s, f, g, u

LEMMA MountStep ==
    ASSUME NEW n \in Sizes, Used(n) <= n, Size(n), MountInv(n), read_ifree \/ read_bfree
    PROVE  FormatInv(n)'
<1> DEFINE s == IStore(n)
           f == IFree(n)
           g == BFree(n)
<1>1. n \in Nat /\ s \in Nat \ {0} /\ f \in Nat \ {0} /\ g \in Nat \ {0} /\ Used(n) \in Nat
  BY GeometryIs
<1>2. BitsPerBlock \in Nat /\ 2 <= BitsPerBlock
  BY FormatAssumption
<1>3. WrittenTo(n, Used(n)) /\ off = Used(n)
  BY DEF MountInv
<1>4. /\ sb.nr_istore_blocks = s /\ sb.nr_ifree_blocks = f /\ sb.nr_bfree_blocks = g
      /\ \A k \in 0..(f - 1) : disk[s + k + 1] = IFreeBlock(k)
      /\ \A k \in 0..(g - 1) : disk[s + f + k + 1] = BFreeBlock(n, k)
  BY <1>3, BlocksRead DEF Super
<1> HIDE DEF s, f, g
<1>5. UNCHANGED <<disk, off>>
  BY DEF read_ifree, read_bfree
<1>6. Size(n)' /\ WrittenTo(n, Used(n))' /\ off' = Used(n)
  BY <1>3, <1>5 DEF Size, WrittenTo
<1>7. CASE read_ifree
  <2>1. /\ phase = "read_ifree" /\ ifree' = ifree \cup BitsRead(s + i + 1)
        /\ Continue(f, "read_bfree") /\ bfree' = bfree
    BY <1>4, <1>7 DEF read_ifree
  <2>2. i \in 0..(f - 1) /\ ifree = Bits(2, i) /\ bfree = {}
    BY <2>1 DEF MountInv, f
  <2>3. ifree' = Bits(2, i + 1)
    <3>1. disk[s + i + 1] = IFreeBlock(i)
      BY <1>4, <2>2
    <3>2. disk[s + i + 1].bits = IF i = 0 THEN 2..(BitsPerBlock - 1) ELSE 0..(BitsPerBlock - 1)
      BY <3>1 DEF IFreeBlock
    <3>3. i \in Nat
      BY <1>1, <2>2
    <3> QED
      BY <1>2, <2>1, <2>2, <3>2, <3>3, BitsAre DEF BitsRead
  <2>4. CASE i + 1 < f
    <3>1. i' = i + 1 /\ phase' = "read_ifree" /\ i' \in 0..(f - 1)
      BY <1>1, <2>1, <2>2, <2>4 DEF Continue
    <3> QED
      BY <1>6, <2>1, <2>2, <2>3, <3>1 DEF FormatInv, MountInv, f
  <2>5. CASE ~ (i + 1 < f)
    <3>1. i' = 0 /\ phase' = "read_bfree" /\ i + 1 = f /\ i' \in 0..(g - 1)
      BY <1>1, <2>1, <2>2, <2>5 DEF Continue
    <3>2. Bits(Used(n), 0) = {}
      <4>1. 0 * BitsPerBlock = 0
        BY <1>2
      <4>2. \A x \in Nat : ~ (x < 0)
        OBVIOUS
      <4> QED
        BY <4>1, <4>2 DEF Bits
    <3>3. bfree' = Bits(Used(n), i')
      BY <2>1, <2>2, <3>1, <3>2
    <3>4. ifree' = Bits(2, f)
      BY <2>3, <3>1
    <3> QED
      BY <1>6, <3>1, <3>3, <3>4 DEF FormatInv, MountInv, f, g
  <2> QED
    BY <2>4, <2>5
<1>8. CASE read_bfree
  <2>1. /\ phase = "read_bfree" /\ bfree' = bfree \cup BitsRead(s + f + i + 1)
        /\ Continue(g, "mounted") /\ ifree' = ifree
    BY <1>4, <1>8 DEF read_bfree
  <2>2. i \in 0..(g - 1) /\ ifree = Bits(2, f)
        /\ (Used(n) <= BitsPerBlock => bfree = Bits(Used(n), i))
    BY <2>1 DEF MountInv, f, g
  <2>3. Used(n) <= BitsPerBlock => bfree' = Bits(Used(n), i + 1)
    <3>1. disk[s + f + i + 1] = BFreeBlock(n, i)
      BY <1>4, <2>2
    <3>2. disk[s + f + i + 1].bits
          = IF i = 0 THEN Used(n)..(BitsPerBlock - 1) ELSE 0..(BitsPerBlock - 1)
      BY <3>1 DEF BFreeBlock
    <3>3. i \in Nat
      BY <1>1, <2>2
    <3> QED
      BY <1>1, <2>1, <2>2, <3>2, <3>3, BitsAre DEF BitsRead
  <2>4. CASE i + 1 < g
    <3>1. i' = i + 1 /\ phase' = "read_bfree" /\ i' \in 0..(g - 1)
      BY <1>1, <2>1, <2>2, <2>4 DEF Continue
    <3> QED
      BY <1>6, <2>1, <2>2, <2>3, <3>1 DEF FormatInv, MountInv, f, g
  <2>5. CASE ~ (i + 1 < g)
    <3>1. phase' = "mounted" /\ i + 1 = g
      BY <1>1, <2>1, <2>2, <2>5 DEF Continue
    <3> QED
      BY <1>6, <2>1, <2>2, <2>3, <3>1 DEF FormatInv, MountInv, f, g
  <2> QED
    BY <2>4, <2>5
<1> QED
  BY <1>7, <1>8

LEMMA FormatNext ==
    ASSUME Room, NEW n \in Sizes, FormatInv(n), [Next]_vars
    PROVE  FormatInv(n)'
<1>0. Used(n) <= n /\ Size(n)
  BY DEF Room, FormatInv
<1>1. CASE \/ write_superblock \/ write_inode_store \/ write_ifree_blocks \/ write_bfree_blocks
           \/ write_root_index_block
  <2>1. phase \in {"super", "istore", "ifree", "bfree", "root"}
    BY <1>1 DEF write_superblock, write_inode_store, write_ifree_blocks, write_bfree_blocks,
                write_root_index_block
  <2>2. MkfsInv(n)
    BY <2>1 DEF FormatInv, MountInv
  <2> QED
    BY <1>0, <1>1, <2>2, MkfsStep
<1>2. CASE WriteFails
  BY <1>0, <1>2 DEF WriteFails, FormatInv, Size
<1>3. CASE Mount
  <2>1. phase = "made" /\ i' = 0 /\ phase' = "read_ifree" /\ UNCHANGED <<disk, off, ifree, bfree>>
    BY <1>3 DEF Mount
  <2>2. MkfsInv(n)
    BY <2>1 DEF FormatInv, MountInv
  <2>3. WrittenTo(n, Used(n)) /\ off = Used(n) /\ ifree = {} /\ bfree = {}
    BY <2>1, <2>2 DEF MkfsInv, At
  <2>4. Bits(2, 0) = {}
    <3>1. 0 * BitsPerBlock = 0 /\ \A x \in Nat : ~ (x < 0)
      BY FormatAssumption
    <3> QED
      BY <3>1 DEF Bits
  <2>5. 0 \in 0..(IFree(n) - 1)
    BY GeometryIs
  <2>6. MountInv(n)'
    BY <2>1, <2>3, <2>4, <2>5 DEF MountInv, WrittenTo
  <2> QED
    BY <1>0, <2>1, <2>6 DEF FormatInv, Size
<1>4. CASE read_ifree \/ read_bfree
  <2>1. MountInv(n)
    BY <1>4 DEF read_ifree, read_bfree, FormatInv, MkfsInv, At
  <2> QED
    BY <1>0, <1>4, <2>1, MountStep
<1>5. CASE MountFails
  <2>1. phase \in {"read_ifree", "read_bfree"} /\ phase' = "made" /\ ifree' = {} /\ bfree' = {}
        /\ UNCHANGED <<disk, off>>
    BY <1>5 DEF MountFails
  <2>2. MountInv(n)
    BY <2>1 DEF FormatInv, MkfsInv, At
  <2>3. MkfsInv(n)'
    BY <2>1, <2>2 DEF MkfsInv, MountInv, WrittenTo
  <2> QED
    BY <1>0, <2>1, <2>3 DEF FormatInv, Size
<1>6. CASE UNCHANGED vars
  BY <1>6 DEF vars, FormatInv, Size, MkfsInv, MountInv, WrittenTo, At
<1> QED
  BY <1>1, <1>2, <1>3, <1>4, <1>5, <1>6 DEF Next

\* What a mounted partition looks like.
LEMMA Mounted ==
    ASSUME Room, NEW n \in Sizes, FormatInv(n), phase = "mounted"
    PROVE  /\ Used(n) <= n /\ Size(n) /\ WrittenTo(n, Used(n))
           /\ ifree = Bits(2, IFree(n))
           /\ Used(n) <= BitsPerBlock => bfree = Bits(Used(n), BFree(n))
BY DEF Room, FormatInv, MkfsInv, MountInv, At

FormatHolds == \E n \in Sizes : FormatInv(n)

\* mkfs and ouichefs_fill_super agree on the inodes: on every partition with
\* room for its metadata, each inode number has its place in a block that mkfs
\* wrote as inode store, and all but the first two are free.
THEOREM InodesArePlaced == Room => (Spec => []InodesHavePlace)
<1> SUFFICES ASSUME Room PROVE Spec => []InodesHavePlace
  OBVIOUS
<1>1. FormatHolds /\ [Next]_vars => FormatHolds'
  BY FormatNext DEF FormatHolds
<1>2. FormatHolds => InodesHavePlace
  <2> SUFFICES ASSUME NEW n \in Sizes, FormatInv(n), phase = "mounted"
               PROVE  /\ \A ino \in 0..(sb.nr_inodes - 1) : disk[InodeBlock(ino)].kind = "istore"
                      /\ {ino \in ifree : ino < sb.nr_inodes} = 2..(sb.nr_inodes - 1)
    BY DEF InodesHavePlace, FormatHolds
  <2> DEFINE N == Inodes(n)
  <2>1. Used(n) <= n /\ WrittenTo(n, Used(n)) /\ ifree = Bits(2, IFree(n))
    BY Mounted
  <2>2. sb.nr_inodes = N /\ \A k \in 0..(IStore(n) - 1) : disk[1 + k] = StoreBlock(n, k)
    BY <2>1, BlocksRead DEF Super
  <2>3. N \in Nat \ {0} /\ InodesPerBlock \in Nat \ {0} /\ BitsPerBlock \in Nat \ {0}
    BY GeometryIs, FormatAssumption
  <2>4. ASSUME NEW ino \in 0..(N - 1) PROVE disk[InodeBlock(ino)].kind = "istore"
    <3> DEFINE k == ino \div InodesPerBlock
    <3>1. k \in 0..(IStore(n) - 1)
      BY <2>3, CeilIs DEF IStore
    <3>2. InodeBlock(ino) = k + 1
      BY DEF InodeBlock
    <3> HIDE DEF k
    <3>3. k + 1 = 1 + k
      BY <3>1, GeometryIs
    <3>4. disk[1 + k] = StoreBlock(n, k)
      BY <2>2, <3>1
    <3> QED
      BY <3>2, <3>3, <3>4 DEF StoreBlock
  <2>5. IFree(n) * BitsPerBlock >= N /\ IFree(n) * BitsPerBlock \in Nat
    BY <2>3, CeilIs, GeometryIs, Times DEF IFree
  <2> HIDE DEF N
  <2>6. {ino \in ifree : ino < N} = 2..(N - 1)
    <3> DEFINE m == IFree(n) * BitsPerBlock
    <3>1. m \in Nat /\ m >= N /\ ifree = {x \in Nat : x >= 2 /\ x < m}
      BY <2>1, <2>5 DEF Bits
    <3> HIDE DEF m
    <3> QED
      BY <2>3, <3>1
  <2> QED
    BY <2>2, <2>4, <2>6
<1>3. Init => FormatHolds
  BY FormatInit DEF FormatHolds
<1> QED
  BY <1>1, <1>2, <1>3, PTL DEF Spec

\* The block the root inode names is the directory block mkfs wrote, and it is
\* not free, wherever the bits of the used blocks fit the first block of the
\* bitmap.
THEOREM RootIsFound == Room /\ FirstBlock => (Spec => []RootFound)
<1> SUFFICES ASSUME Room, FirstBlock PROVE Spec => []RootFound
  OBVIOUS
<1>1. FormatHolds /\ [Next]_vars => FormatHolds'
  BY FormatNext DEF FormatHolds
<1>2. FormatHolds => RootFound
  <2> SUFFICES ASSUME NEW n \in Sizes, FormatInv(n), phase = "mounted"
               PROVE  /\ disk[disk[InodeBlock(1)].root].kind = "root"
                      /\ disk[InodeBlock(1)].root \notin bfree
    BY DEF RootFound, FormatHolds
  <2>1. Used(n) <= n /\ WrittenTo(n, Used(n)) /\ bfree = Bits(Used(n), BFree(n))
    BY Mounted DEF FirstBlock
  <2>2. disk[1 + 0] = StoreBlock(n, 0) /\ disk[Used(n) - 1] = [kind |-> "root"]
    <3>1. 0 \in 0..(IStore(n) - 1)
      BY GeometryIs
    <3> QED
      BY <2>1, <3>1, BlocksRead
  <2>3. InodeBlock(1) = 1 + 0
    <3> DEFINE q == 1 \div InodesPerBlock
    <3>1. InodesPerBlock \in Nat \ {0, 1}
      BY FormatAssumption
    <3>2. q \in Nat /\ InodesPerBlock * q <= 1
      BY <3>1, DivIs
    <3>3. q * InodesPerBlock = InodesPerBlock * q /\ (q >= 1 => q * InodesPerBlock >= 1 * InodesPerBlock)
          /\ q * InodesPerBlock \in Nat
      BY <3>1, <3>2, Times
    <3>4. q = 0
      BY <3>1, <3>2, <3>3
    <3> QED
      BY <3>4 DEF InodeBlock
  <2>4. disk[InodeBlock(1)].root = Used(n) - 1
    BY <2>2, <2>3 DEF StoreBlock
  <2>5. Used(n) - 1 \notin bfree
    BY <2>1, GeometryIs DEF Bits
  <2> QED
    BY <2>2, <2>4, <2>5
<1>3. Init => FormatHolds
  BY FormatInit DEF FormatHolds
<1> QED
  BY <1>1, <1>2, <1>3, PTL DEF Spec

\* After a mount get_free_block finds exactly the blocks mkfs left alone, and
\* nr_free_blocks is their number, wherever the bits of the used blocks fit the
\* first block of the bitmap.
THEOREM FreeBlocksAreFound == Room /\ FirstBlock => (Spec => []FreeBlocksAreData)
<1> SUFFICES ASSUME Room, FirstBlock PROVE Spec => []FreeBlocksAreData
  OBVIOUS
<1>1. FormatHolds /\ [Next]_vars => FormatHolds'
  BY FormatNext DEF FormatHolds
<1>2. FormatHolds => FreeBlocksAreData
  <2> DEFINE free == {b \in bfree : b < nr_blocks}
  <2> SUFFICES ASSUME NEW n \in Sizes, FormatInv(n), phase = "mounted"
               PROVE  /\ free = {b \in DOMAIN disk : disk[b] = Raw}
                      /\ sb.nr_free_blocks = Cardinality(free)
    BY DEF FreeBlocksAreData, FormatHolds
  <2> DEFINE u == Used(n)
             m == BFree(n) * BitsPerBlock
  <2>1. u <= n /\ Size(n) /\ WrittenTo(n, u) /\ bfree = Bits(u, BFree(n))
    BY Mounted DEF FirstBlock
  <2>2. nr_blocks = n /\ sb.nr_free_blocks = n - u
    BY <2>1, CountsAre, BlocksRead DEF Super
  <2>3. n \in Nat \ {0} /\ u \in Nat /\ m \in Nat /\ m >= n
    BY GeometryIs, CeilIs, Times, FormatAssumption DEF BFree
  <2>4. bfree = {x \in Nat : x >= u /\ x < m}
    BY <2>1 DEF Bits
  <2> HIDE DEF u, m
  <2>5. free = u..(n - 1)
    BY <2>1, <2>2, <2>3, <2>4
  <2>6. \A b \in 0..(n - 1) : disk[b] = Raw <=> b >= u
    <3> TAKE b \in 0..(n - 1)
    <3>1. disk[b] = IF b < u THEN Layout(n, b) ELSE Raw
      BY <2>1 DEF WrittenTo
    <3>2. Layout(n, b) # Raw
      <4>1. Layout(n, b).kind \in {"super", "istore", "ifree", "bfree", "root"}
        BY DEF Layout, Super, StoreBlock, IFreeBlock, BFreeBlock
      <4> QED
        BY <4>1 DEF Raw
    <3> QED
      BY <2>3, <3>1, <3>2
  <2>7. {b \in DOMAIN disk : disk[b] = Raw} = u..(n - 1)
    <3>1. DOMAIN disk = 0..(n - 1)
      BY <2>1 DEF Size
    <3> QED
      BY <2>3, <2>6, <3>1
  <2>8. Cardinality(u..(n - 1)) = n - u
    BY <2>1, <2>3, FS_Interval
  <2> QED
    BY <2>2, <2>5, <2>7, <2>8
<1>3. Init => FormatHolds
  BY FormatInit DEF FormatHolds
<1> QED
  BY <1>1, <1>2, <1>3, PTL DEF Spec
=============================================================================
