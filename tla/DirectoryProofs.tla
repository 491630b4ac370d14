--------------------------- MODULE DirectoryProofs ---------------------------
(* Theorems about Directory, for every number of inodes, entries and names. *)
EXTENDS Directory, FiniteSetTheorems, WellFoundedInduction, TLAPS

(* The least and the greatest number of a set, for every set of numbers that *)
(* has one.                                                                  *)

Below == {ss \in Nat \X Nat : ss[1] < ss[2]}

LEMMA BelowWellFounded == IsWellFoundedOn(Below, Nat)
BY NatLessThanWellFounded DEF OpToRel, Below

LEMMA BelowIs == \A a, b \in Nat : a < b => <<a, b>> \in Below
BY DEF Below

\* A set of natural numbers has a least member: with it a statement about all
\* numbers is proved from its first counterexample.
LEMMA LeastNat ==
    ASSUME NEW S \in SUBSET Nat, S # {}
    PROVE  \E x \in S : \A y \in S : x <= y
<1>1. PICK x \in S : \A y \in S : ~ (<<y, x>> \in Below)
  BY WFMin, BelowWellFounded
<1>2. \A y \in S : ~ (y < x)
  BY <1>1, BelowIs, Zenon
<1> QED
  BY <1>2

\* Min, as the searches for a first entry or bit use it.
LEMMA MinIs ==
    ASSUME NEW S \in SUBSET Nat, S # {}
    PROVE  Min(S) \in S /\ \A y \in S : Min(S) <= y
BY LeastNat DEF Min

\* Max of a set that is bounded.
LEMMA MaxIs ==
    ASSUME NEW S \in SUBSET Nat, S # {}, NEW b \in Nat, \A y \in S : y <= b
    PROVE  Max(S) \in S /\ \A y \in S : y <= Max(S)
<1> DEFINE T == {b - y : y \in S}
<1>1. T \in SUBSET Nat /\ T # {}
  <2>1. \A y \in S : b - y \in Nat
    OBVIOUS
  <2> QED
    BY <2>1
<1>2. PICK x \in T : \A z \in T : x <= z
  BY <1>1, LeastNat
<1>3. PICK m \in S : x = b - m
  OBVIOUS
<1>4. \A y \in S : m >= y
  <2> TAKE y \in S
  <2>1. b - y \in T /\ y \in Nat /\ m \in Nat
    OBVIOUS
  <2>2. b - m <= b - y
    BY <1>2, <1>3, <2>1
  <2> QED
    BY <2>1, <2>2
<1> HIDE DEF T
<1> QED
  BY <1>4 DEF Max
-----------------------------------------------------------------------------

Block == [Slot -> Entry]

\* What EntriesPacked says of one block.
Packed(w) ==
    \A s \in Slot : w[s].inode = 0 => \A t \in s..(MaxSub - 1) : w[t] = NoEntry
Named(w) == \A s \in Slot : w[s].inode # 0 => w[s].filename \in Names
-----------------------------------------------------------------------------
(* A directory block *)

\* The search for the first empty entry, from any position on.
LEMMA FirstEmptyIs ==
    ASSUME NEW w \in Block, Packed(w), NEW p \in 0..MaxSub
    PROVE  /\ FirstEmpty(w, p) \in p..MaxSub
           /\ \A s \in Slot : p <= s /\ s < FirstEmpty(w, p) => w[s].inode # 0
           /\ \A s \in Slot : s >= FirstEmpty(w, p) => w[s] = NoEntry
<1> DEFINE S == {s \in Slot : s >= p /\ w[s].inode = 0} \cup {MaxSub}
           n == FirstEmpty(w, p)
<1>1. S \in SUBSET Nat /\ S # {} /\ \A s \in S : s >= p /\ s <= MaxSub
  BY DirectoryAssumption DEF Slot
<1>2. n \in S /\ \A s \in S : n <= s
  BY <1>1, MinIs DEF FirstEmpty
<1>3. n \in p..MaxSub
  BY <1>1, <1>2, DirectoryAssumption
<1>4. \A s \in Slot : p <= s /\ s < n => w[s].inode # 0
  <2> SUFFICES ASSUME NEW s \in Slot, p <= s, s < n, w[s].inode = 0 PROVE FALSE
    OBVIOUS
  <2>1. s \in S /\ s \in Nat /\ n \in Nat
    BY <1>3, DirectoryAssumption DEF Slot
  <2> QED
    BY <1>2, <2>1
<1>5. \A s \in Slot : s >= n => w[s] = NoEntry
  <2> SUFFICES ASSUME NEW s \in Slot, s >= n PROVE w[s] = NoEntry
    OBVIOUS
  <2>1. n # MaxSub
    BY <1>3, DirectoryAssumption DEF Slot
  <2>2. n \in Slot /\ w[n].inode = 0
    BY <1>2, <2>1
  <2>3. s \in n..(MaxSub - 1)
    BY <1>3, DirectoryAssumption DEF Slot
  <2> QED
    BY <2>2, <2>3 DEF Packed
<1> QED
  BY <1>3, <1>4, <1>5

LEMMA EmptyBlockIs ==
    /\ EmptyBlock \in Block /\ Packed(EmptyBlock) /\ Named(EmptyBlock)
    /\ \A s \in Slot : EmptyBlock[s].inode = 0
<1>1. NoEntry \in Entry /\ NoEntry.inode = 0
  BY DEF NoEntry, Entry
<1>2. EmptyBlock \in Block /\ \A s \in Slot : EmptyBlock[s] = NoEntry
  BY <1>1 DEF EmptyBlock, Block
<1>3. \A s \in Slot : \A t \in s..(MaxSub - 1) : t \in Slot
  BY DirectoryAssumption DEF Slot
<1> QED
  BY <1>1, <1>2, <1>3 DEF Packed, Named

\* A directory whose last entry is empty has room.
LEMMA RoomLeft ==
    ASSUME NEW w \in Block, Packed(w), w[MaxSub - 1].inode = 0
    PROVE  FirstEmpty(w, 0) # MaxSub
<1>1. MaxSub - 1 \in Slot /\ MaxSub \in Nat /\ 0 \in 0..MaxSub /\ 0 <= MaxSub - 1
  BY DirectoryAssumption DEF Slot
<1>2. \A s \in Slot : 0 <= s /\ s < FirstEmpty(w, 0) => w[s].inode # 0
  BY <1>1, FirstEmptyIs
<1> QED
  BY <1>1, <1>2

\* An entry is added behind the others.
LEMMA AddEntryIs ==
    ASSUME NEW w \in Block, Packed(w), Named(w), FirstEmpty(w, 0) # MaxSub,
           NEW ino \in Inode, NEW name \in Names
    PROVE  LET n == FirstEmpty(w, 0)
               v == AddEntry(w, ino, name)
           IN /\ v \in Block /\ Packed(v) /\ Named(v)
              /\ n \in Slot /\ w[n].inode = 0
              /\ v[n].inode = ino /\ v[n].filename = Stored[name]
              /\ \A s \in Slot \ {n} : v[s] = w[s]
<1> DEFINE n == FirstEmpty(w, 0)
           e == [inode |-> ino, filename |-> Stored[name]]
           v == AddEntry(w, ino, name)
<1>1. /\ n \in 0..MaxSub /\ \A s \in Slot : s < n => w[s].inode # 0
      /\ \A s \in Slot : s >= n => w[s] = NoEntry
  BY FirstEmptyIs, DirectoryAssumption DEF Slot
<1>2. n \in Slot /\ w[n] = NoEntry
  BY <1>1, DirectoryAssumption DEF Slot
<1>3. e \in Entry /\ e.inode = ino /\ e.filename = Stored[name] /\ Stored[name] \in Names /\ ino # 0
  BY DirectoryAssumption DEF Entry, Inode
<1> HIDE DEF n, e
<1>4. v = [w EXCEPT ![n] = e]
  BY DEF AddEntry, n, e
<1> HIDE DEF v
<1>5. v \in Block /\ v[n] = e /\ \A s \in Slot \ {n} : v[s] = w[s]
  BY <1>2, <1>3, <1>4 DEF Block
<1>6. Packed(v)
  <2> SUFFICES ASSUME NEW s \in Slot, v[s].inode = 0, NEW t \in s..(MaxSub - 1)
               PROVE  v[t] = NoEntry
    BY DEF Packed
  <2>1. s # n /\ w[s].inode = 0
    BY <1>3, <1>5
  <2>2. s > n
    BY <1>1, <1>2, <2>1, DirectoryAssumption DEF Slot
  <2>3. t \in Slot /\ t > n
    BY <1>1, <2>2, DirectoryAssumption DEF Slot
  <2>4. t # n /\ w[t] = NoEntry
    BY <1>1, <2>3, DirectoryAssumption DEF Slot
  <2> QED
    BY <1>5, <2>3, <2>4
<1>7. Named(v)
  BY <1>3, <1>5 DEF Named
<1>8. w[n].inode = 0
  BY <1>2 DEF NoEntry
<1> QED
  BY <1>2, <1>3, <1>5, <1>6, <1>7, <1>8 DEF n, v

\* Removing the only entry of an inode moves those behind it up by one.
LEMMA RemoveEntryIs ==
    ASSUME NEW w \in Block, Packed(w), Named(w), NEW ino \in Inode, NEW p \in Slot,
           w[p].inode = ino, \A s \in Slot : w[s].inode = ino => s = p
    PROVE  LET v == RemoveEntry(w, ino)
           IN /\ v \in Block /\ Packed(v) /\ Named(v)
              /\ \A s \in Slot : v[s] = IF s < p THEN w[s]
                                        ELSE IF s + 1 < MaxSub THEN w[s + 1] ELSE NoEntry
<1> DEFINE n == FirstEmpty(w, 0)
           v == RemoveEntry(w, ino)
           f_id == Max({s \in Slot : s < n /\ w[s].inode = ino} \cup {-1})
<1>1. /\ n \in 0..MaxSub /\ \A s \in Slot : s < n => w[s].inode # 0
      /\ \A s \in Slot : s >= n => w[s] = NoEntry
  BY FirstEmptyIs, DirectoryAssumption DEF Slot
<1>2. ino # 0 /\ p \in Nat /\ NoEntry.inode = 0
  BY DirectoryAssumption DEF Inode, Slot, NoEntry
<1>3. p < n
  BY <1>1, <1>2, DirectoryAssumption DEF Slot
<1>4. f_id = p
  <2>1. {s \in Slot : s < n /\ w[s].inode = ino} \cup {-1} = {p, -1}
    BY <1>3
  <2>2. \A x \in {p, -1} : (\A y \in {p, -1} : x >= y) <=> x = p
    BY <1>2
  <2> QED
    BY <2>1, <2>2 DEF Max
<1>5. v = [s \in Slot |-> IF s = n - 1 THEN NoEntry
                          ELSE IF s >= p /\ s < n THEN w[s + 1] ELSE w[s]]
  BY <1>4 DEF RemoveEntry
<1> HIDE DEF n, v, f_id
<1>6. \A s \in Slot : v[s] = IF s < p THEN w[s]
                             ELSE IF s + 1 < MaxSub THEN w[s + 1] ELSE NoEntry
  <2> SUFFICES ASSUME NEW s \in Slot
               PROVE  v[s] = IF s < p THEN w[s]
                             ELSE IF s + 1 < MaxSub THEN w[s + 1] ELSE NoEntry
    OBVIOUS
  <2>1. s \in Nat /\ n \in Nat /\ MaxSub \in Nat /\ s < MaxSub /\ n <= MaxSub
    BY <1>1, DirectoryAssumption DEF Slot
  <2>2. s + 1 < MaxSub => s + 1 \in Slot
    BY <2>1 DEF Slot
  <2>3. CASE s < p
    BY <1>2, <1>3, <1>5, <2>1, <2>3
  <2>4. CASE s >= p /\ s < n - 1
    BY <1>2, <1>5, <2>1, <2>4
  <2>5. CASE s >= n - 1 /\ s >= p
    <3>1. v[s] = NoEntry
      BY <1>1, <1>5, <2>1, <2>5
    <3>2. s + 1 < MaxSub => w[s + 1] = NoEntry
      BY <1>1, <2>1, <2>2, <2>5
    <3> QED
      BY <1>2, <2>1, <2>5, <3>1, <3>2
  <2> QED
    BY <1>2, <2>1, <2>3, <2>4, <2>5
<1>7. \A s \in Slot : s + 1 < MaxSub => s + 1 \in Slot
  BY DirectoryAssumption DEF Slot
<1>8. NoEntry \in Entry
  BY DEF NoEntry, Entry
<1>9. v \in Block
  <2>1. \A s \in Slot : v[s] \in Entry
    BY <1>6, <1>7, <1>8 DEF Block
  <2> QED
    BY <1>5, <2>1 DEF Block
<1>10. Packed(v)
  <2> SUFFICES ASSUME NEW s \in Slot, v[s].inode = 0, NEW t \in s..(MaxSub - 1)
               PROVE  v[t] = NoEntry
    BY DEF Packed
  <2>1. s \in Nat /\ t \in Nat /\ t \in Slot /\ s <= t /\ MaxSub \in Nat
    BY DirectoryAssumption DEF Slot
  <2>2. s >= p
    BY <1>1, <1>2, <1>3, <1>6, <2>1
  <2>3. CASE s + 1 < MaxSub
    <3>1. w[s + 1].inode = 0 /\ s + 1 \in Slot
      BY <1>2, <1>6, <1>7, <2>1, <2>2, <2>3
    <3>2. t + 1 < MaxSub => w[t + 1] = NoEntry
      BY <2>1, <3>1 DEF Packed
    <3> QED
      BY <1>2, <1>6, <2>1, <2>2, <3>2
  <2>4. CASE s + 1 >= MaxSub
    BY <1>2, <1>6, <2>1, <2>2, <2>4
  <2> QED
    BY <2>1, <2>3, <2>4
<1>11. Named(v)
  BY <1>2, <1>6, <1>7 DEF Named
<1> QED
  BY <1>6, <1>9, <1>10, <1>11 DEF v
-----------------------------------------------------------------------------
(* The tree *)

\* Blocks F and modes m that agree: no inode has two entries, entries name
\* used inodes other than the root, and every other used inode has an entry.
Unique(F) ==
    \A d, e \in Inode, s, t \in Slot :
      F[d][s].inode # 0 /\ F[d][s].inode = F[e][t].inode => d = e /\ s = t
Valid(F, m) ==
    \A d \in Inode, s \in Slot :
      F[d][s].inode # 0 => F[d][s].inode # Root /\ m[F[d][s].inode] # "none"
Covered(F, m) ==
    \A i \in Inode \ {Root} :
      m[i] # "none" => \E d \in Inode, s \in Slot : F[d][s].inode = i
Tree(F, m) == Unique(F) /\ Valid(F, m) /\ Covered(F, m)

Modes == {"dir", "file", "none"}
Dirent == [Inode -> Block]

\* F and G differ in one entry, in an empty slot of F.
AddedAt(F, G, d, n, ino) ==
    /\ F[d][n].inode = 0 /\ G[d][n].inode = ino
    /\ \A c \in Inode, r \in Slot : ~ (c = d /\ r = n) => G[c][r].inode = F[c][r].inode
Absent(F, ino) == \A c \in Inode, r \in Slot : F[c][r].inode # ino

\* G lacks the entry that F has in slot p of d.
RemovedAt(F, G, d, p) ==
    /\ \A c \in Inode \ {d} : G[c] = F[c]
    /\ \A s \in Slot : G[d][s] = IF s < p THEN F[d][s]
                                  ELSE IF s + 1 < MaxSub THEN F[d][s + 1] ELSE NoEntry

\* One more entry, for an inode that had none.
LEMMA TreeAdd ==
    ASSUME NEW F \in Dirent, NEW G \in Dirent, NEW m \in [Inode -> Modes], Tree(F, m),
           NEW d \in Inode, NEW n \in Slot, NEW ino \in Inode \ {Root}, NEW mode \in {"file", "dir"},
           AddedAt(F, G, d, n, ino), Absent(F, ino)
    PROVE  Tree(G, [m EXCEPT ![ino] = mode])
<1> USE DEF AddedAt, Absent
<1> DEFINE k == [m EXCEPT ![ino] = mode]
<1>1. k[ino] = mode /\ \A i \in Inode \ {ino} : k[i] = m[i]
  OBVIOUS
<1>2. \A c \in Inode, r \in Slot : F[c][r].inode \in Inode \cup {0} /\ G[c][r].inode \in Inode \cup {0}
  BY DEF Dirent, Block, Entry
<1>3. ino # 0
  BY DirectoryAssumption DEF Inode
<1> HIDE DEF k
<1>4. Unique(G)
  BY <1>3 DEF Unique, Tree
<1>5. Valid(G, k)
  <2> SUFFICES ASSUME NEW c \in Inode, NEW r \in Slot, G[c][r].inode # 0
               PROVE  G[c][r].inode # Root /\ k[G[c][r].inode] # "none"
    BY DEF Valid
  <2>1. CASE c = d /\ r = n
    BY <1>1, <2>1
  <2>2. CASE ~ (c = d /\ r = n)
    BY <1>1, <1>2, <2>2 DEF Valid, Tree
  <2> QED
    BY <2>1, <2>2
<1>6. Covered(G, k)
  <2> SUFFICES ASSUME NEW i \in Inode \ {Root}, k[i] # "none"
               PROVE  \E c \in Inode, r \in Slot : G[c][r].inode = i
    BY DEF Covered
  <2>1. CASE i = ino
    BY <2>1
  <2>2. CASE i # ino
    <3>1. PICK c \in Inode, r \in Slot : F[c][r].inode = i
      BY <1>1, <2>2 DEF Covered, Tree
    <3>2. i # 0
      BY DirectoryAssumption DEF Inode
    <3> QED
      BY <3>1, <3>2
  <2> QED
    BY <2>1, <2>2
<1> QED
  BY <1>4, <1>5, <1>6 DEF Tree, k

\* One entry less, and its inode no longer used.
LEMMA TreeRemove ==
    ASSUME NEW F \in Dirent, NEW G \in Dirent, NEW m \in [Inode -> Modes], Tree(F, m),
           NEW d \in Inode, NEW p \in Slot, NEW ino \in Inode, F[d][p].inode = ino,
           RemovedAt(F, G, d, p)
    PROVE  Tree(G, [m EXCEPT ![ino] = "none"]) /\ Absent(G, ino)
<1> USE DEF RemovedAt, Absent
<1> DEFINE k == [m EXCEPT ![ino] = "none"]
           from(c, r) == IF c = d /\ r >= p THEN r + 1 ELSE r
<1>1. k[ino] = "none" /\ \A i \in Inode \ {ino} : k[i] = m[i]
  OBVIOUS
<1>0. ino # 0
  BY DirectoryAssumption DEF Inode
<1>2. NoEntry.inode = 0 /\ p \in Nat /\ MaxSub \in Nat
  BY DirectoryAssumption DEF NoEntry, Slot
<1>3. \A r \in Slot : r \in Nat /\ (r + 1 < MaxSub => r + 1 \in Slot) /\ (r > p => r - 1 \in Slot)
  BY <1>2 DEF Slot
<1>4. \A c \in Inode, r \in Slot : F[c][r].inode \in Inode \cup {0} /\ G[c][r].inode \in Inode \cup {0}
  BY DEF Dirent, Block, Entry
<1>5. ASSUME NEW c \in Inode, NEW r \in Slot, G[c][r].inode # 0
      PROVE  /\ from(c, r) \in Slot /\ F[c][from(c, r)].inode = G[c][r].inode
             /\ ~ (c = d /\ from(c, r) = p)
  <2>1. CASE c # d
    BY <1>5, <2>1
  <2>2. CASE c = d /\ r < p
    <3>1. from(c, r) = r /\ r # p /\ G[d][r] = F[d][r]
      BY <1>2, <1>3, <2>2
    <3> QED
      BY <2>2, <3>1
  <2>3. CASE c = d /\ r >= p
    <3>1. ~ (r < p) /\ r + 1 # p
      BY <1>2, <1>3, <2>3
    <3>2. r + 1 < MaxSub
      BY <1>2, <1>5, <2>3, <3>1
    <3>3. G[d][r] = F[d][r + 1]
      BY <3>1, <3>2
    <3> QED
      BY <1>3, <2>3, <3>1, <3>2, <3>3
  <2> QED
    BY <1>2, <1>3, <2>1, <2>2, <2>3
<1> HIDE DEF k, from, RemovedAt
<1>6. \A c \in Inode, r \in Slot : G[c][r].inode # ino
  <2> SUFFICES ASSUME NEW c \in Inode, NEW r \in Slot, G[c][r].inode = ino PROVE FALSE
    OBVIOUS
  <2>0. G[c][r].inode # 0
    BY <1>0
  <2>a. from(c, r) \in Slot /\ F[c][from(c, r)].inode = ino /\ ~ (c = d /\ from(c, r) = p)
    BY <1>5, <2>0
  <2>1. PICK q \in Slot : F[c][q].inode = ino /\ ~ (c = d /\ q = p)
    BY <2>a, Zenon
  <2>2. c = d /\ q = p
    BY <1>0, <2>1 DEF Unique, Tree
  <2> QED
    BY <2>1, <2>2
<1>7. Unique(G)
  <2> SUFFICES ASSUME NEW c \in Inode, NEW e \in Inode, NEW r \in Slot, NEW t \in Slot,
                      G[c][r].inode # 0, G[c][r].inode = G[e][t].inode
               PROVE  c = e /\ r = t
    BY DEF Unique
  <2>1. /\ from(c, r) \in Slot /\ F[c][from(c, r)].inode = G[c][r].inode
        /\ from(e, t) \in Slot /\ F[e][from(e, t)].inode = G[c][r].inode
    BY <1>5
  <2>2. c = e /\ from(c, r) = from(e, t)
    BY <2>1 DEF Unique, Tree
  <2> QED
    BY <1>2, <1>3, <2>2 DEF from
<1>8. Valid(G, k)
  <2> SUFFICES ASSUME NEW c \in Inode, NEW r \in Slot, G[c][r].inode # 0
               PROVE  G[c][r].inode # Root /\ k[G[c][r].inode] # "none"
    BY DEF Valid
  <2>1. from(c, r) \in Slot /\ F[c][from(c, r)].inode = G[c][r].inode
    BY <1>5
  <2> QED
    BY <1>1, <1>4, <1>6, <2>1 DEF Valid, Tree
<1>9. Covered(G, k)
  <2> SUFFICES ASSUME NEW i \in Inode \ {Root}, k[i] # "none"
               PROVE  \E c \in Inode, r \in Slot : G[c][r].inode = i
    BY DEF Covered
  <2>1. i # ino /\ m[i] # "none"
    BY <1>1
  <2>2. PICK c \in Inode, t \in Slot : F[c][t].inode = i
    BY <2>1 DEF Covered, Tree
  <2>3. CASE c # d
    BY <2>2, <2>3 DEF RemovedAt
  <2>4. CASE c = d /\ t < p
    BY <2>2, <2>4 DEF RemovedAt
  <2>5. CASE c = d /\ t > p
    <3>1. t - 1 \in Slot /\ ~ (t - 1 < p) /\ (t - 1) + 1 < MaxSub /\ (t - 1) + 1 = t
      BY <1>2, <1>3, <2>5 DEF Slot
    <3> QED
      BY <2>2, <2>5, <3>1 DEF RemovedAt
  <2> QED
    <3>1. c = d => t # p
      BY <2>1, <2>2
    <3> QED
      BY <1>2, <1>3, <2>3, <2>4, <2>5, <3>1
<1> QED
  BY <1>6, <1>7, <1>8, <1>9 DEF Tree, k

\* Only the inodes of the entries matter.
LEMMA TreeSame ==
    ASSUME NEW F, NEW G, NEW m, Tree(F, m),
           \A c \in Inode, r \in Slot : G[c][r].inode = F[c][r].inode
    PROVE  Tree(G, m)
BY DEF Tree, Unique, Valid, Covered
-----------------------------------------------------------------------------
(* The inductive invariant *)

DirTypes ==
    /\ ifree_bitmap \subseteq Inode /\ nr_free_inodes \in Int
    /\ i_mode \in [Inode -> Modes] /\ i_nlink \in [Inode -> Int] /\ files \in Dirent
    /\ torn \in Inode \cup {0}

BlocksInv == \A i \in Inode : Packed(files[i]) /\ Named(files[i])

\* Only directories have entries.
ModesInv ==
    /\ i_mode[Root] = "dir"
    /\ \A i \in Inode : i_mode[i] = "none" <=> i \in ifree_bitmap
    /\ \A i \in Inode : i_mode[i] # "dir" => \A s \in Slot : files[i][s].inode = 0

\* A rename that stopped between the directories has left one entry too many.
OneMore(F, e, n) ==
    /\ Tree(F, i_mode) /\ torn # Root /\ i_mode[torn] # "none"
    /\ F[e][n].inode = 0 /\ files[e][n].inode = torn
    /\ \A c \in Inode, r \in Slot : ~ (c = e /\ r = n) => files[c][r].inode = F[c][r].inode

TreeInv ==
    ~oops => /\ torn = 0 => Tree(files, i_mode)
             /\ torn # 0 => \E F \in Dirent, e \in Inode, n \in Slot : OneMore(F, e, n)

DirInv == DirTypes /\ BlocksInv /\ ModesInv /\ TreeInv

LEMMA RootIsInode == Root \in Inode /\ 0 \notin Inode /\ 0 \in Slot /\ Inode \subseteq Int /\ Slot \subseteq Nat
BY DirectoryAssumption DEF Root, Inode, Slot

LEMMA DirInvInit == Init => DirInv
<1> SUFFICES ASSUME Init PROVE DirInv
  OBVIOUS
<1>1. files \in Dirent /\ \A i \in Inode : files[i] = EmptyBlock
  BY EmptyBlockIs DEF Init, Dirent
<1>2. i_mode \in [Inode -> Modes] /\ i_mode[Root] = "dir" /\ \A i \in Inode \ {Root} : i_mode[i] = "none"
  BY RootIsInode DEF Init, Modes
<1>3. DirTypes
  <2>1. ifree_bitmap \subseteq Inode /\ nr_free_inodes \in Int /\ torn = 0
    BY DirectoryAssumption DEF Init, Inode
  <2>2. i_nlink \in [Inode -> Int]
    BY DEF Init
  <2> QED
    BY <1>1, <1>2, <2>1, <2>2 DEF DirTypes
<1>4. BlocksInv
  BY <1>1, EmptyBlockIs DEF BlocksInv
<1>5. ModesInv
  <2>1. \A i \in Inode : i = Root <=> i \notin ifree_bitmap
    BY DirectoryAssumption DEF Init, Inode, Root
  <2> QED
    BY <1>1, <1>2, <2>1, EmptyBlockIs DEF ModesInv
<1>6. TreeInv
  <2>1. Tree(files, i_mode)
    BY <1>1, <1>2, EmptyBlockIs DEF Tree, Unique, Valid, Covered
  <2> QED
    BY <2>1 DEF TreeInv, Init
<1> QED
  BY <1>3, <1>4, <1>5, <1>6 DEF DirInv

\* ouichefs_lookup finds a name if an entry has it.
LEMMA LookupIs ==
    ASSUME DirInv, NEW d \in Inode, NEW name \in Names
    PROVE  /\ Lookup(d, name) \in Inode \cup {0}
           /\ Lookup(d, name) # 0 =>
                \E p \in Slot : files[d][p].inode = Lookup(d, name) /\ files[d][p].filename = name
           /\ Lookup(d, name) = 0 => \A s \in Slot : files[d][s].filename # name
<1> DEFINE w == files[d]
           n == FirstEmpty(w, 0)
           hits == {s \in Slot : s < n /\ w[s].filename = name}
<1>1. w \in Block /\ Packed(w)
  BY DEF DirInv, DirTypes, BlocksInv, Dirent
<1>2. /\ n \in 0..MaxSub /\ \A s \in Slot : s < n => w[s].inode # 0
      /\ \A s \in Slot : s >= n => w[s] = NoEntry
  BY <1>1, FirstEmptyIs, DirectoryAssumption DEF Slot
<1>3. Lookup(d, name) = IF hits = {} THEN 0 ELSE w[Min(hits)].inode
  BY DEF Lookup
<1>4. hits \in SUBSET Nat
  BY RootIsInode
<1>5. \A s \in Slot : w[s].inode \in Inode \cup {0}
  BY <1>1 DEF Block, Entry
<1>6. \A s \in Slot : s >= n => w[s].filename # name
  BY <1>2, DirectoryAssumption DEF NoEntry
<1> HIDE DEF w, n
<1>7. CASE hits = {}
  <2>1. \A s \in Slot : w[s].filename # name
    <3> TAKE s \in Slot
    <3>1. s \in Nat /\ n \in Nat
      BY <1>2, RootIsInode, DirectoryAssumption
    <3> QED
      BY <1>6, <1>7, <3>1
  <2> QED
    BY <1>3, <1>7, <2>1 DEF w
<1>8. CASE hits # {}
  <2>1. Min(hits) \in hits
    BY <1>4, <1>8, MinIs
  <2>2. Min(hits) \in Slot /\ w[Min(hits)].inode # 0 /\ w[Min(hits)].filename = name
    BY <1>2, <2>1
  <2> QED
    BY <1>3, <1>5, <1>8, <2>2 DEF w
<1> QED
  BY <1>7, <1>8

LEMMA LinkCountType ==
    ASSUME NEW links \in [Inode -> Int], NEW d \in Inode, NEW mode, NEW n \in Int
    PROVE  LinkCount(links, d, mode, n) \in [Inode -> Int]
BY DEF LinkCount

\* ouichefs_create and ouichefs_mkdir.
LEMMA DirInvCreate ==
    ASSUME DirInv, NEW d \in Inode, NEW name \in Names, NEW mode \in {"file", "dir"},
           Create(d, name, mode)
    PROVE  DirInv'
<1>1. ~oops /\ torn = 0 /\ i_mode[d] = "dir" /\ files[d][MaxSub - 1].inode = 0 /\ torn' = torn /\ oops' = oops
  BY DEF Create, MayCall, Dirs
<1>2. PICK ino \in Inode :
        /\ ino \in ifree_bitmap /\ ifree_bitmap' = ifree_bitmap \ {ino}
        /\ nr_free_inodes' = nr_free_inodes - 1
        /\ i_mode' = [i_mode EXCEPT ![ino] = mode]
        /\ i_nlink' = LinkCount([i_nlink EXCEPT ![ino] = 1], d, mode, 1)
        /\ files' = [files EXCEPT ![ino] = EmptyBlock, ![d] = AddEntry(@, ino, name)]
  BY DEF Create, GetFreeInode
<1> USE DEF DirInv
<1>3. files \in Dirent /\ i_mode \in [Inode -> Modes] /\ files[d] \in Block /\ Packed(files[d])
      /\ Named(files[d])
  BY DEF DirTypes, BlocksInv, Dirent
<1>4. i_mode[ino] = "none" /\ ino # d /\ ino # Root
  BY <1>1, <1>2 DEF ModesInv
<1>5. FirstEmpty(files[d], 0) # MaxSub
  BY <1>1, <1>3, RoomLeft
<1> DEFINE n == FirstEmpty(files[d], 0)
           v == AddEntry(files[d], ino, name)
<1>6. /\ v \in Block /\ Packed(v) /\ Named(v) /\ n \in Slot /\ files[d][n].inode = 0
      /\ v[n].inode = ino /\ \A s \in Slot \ {n} : v[s] = files[d][s]
  BY <1>3, <1>5, AddEntryIs
<1>7. files' \in Dirent /\ files'[d] = v /\ files'[ino] = EmptyBlock
      /\ \A i \in Inode \ {d, ino} : files'[i] = files[i]
  BY <1>2, <1>3, <1>4, <1>6, EmptyBlockIs DEF Dirent
<1> HIDE DEF n, v
<1>8. DirTypes'
  <2>1. i_mode' \in [Inode -> Modes]
    BY <1>2, <1>3 DEF Modes
  <2>2. i_nlink' \in [Inode -> Int]
    <3>1. [i_nlink EXCEPT ![ino] = 1] \in [Inode -> Int]
      BY DEF DirTypes
    <3> QED
      BY <1>2, <3>1, LinkCountType
  <2>3. ifree_bitmap' \subseteq Inode /\ nr_free_inodes' \in Int /\ torn' \in Inode \cup {0}
    BY <1>1, <1>2 DEF DirTypes
  <2> QED
    BY <1>7, <2>1, <2>2, <2>3 DEF DirTypes
<1>9. BlocksInv'
  BY <1>6, <1>7, EmptyBlockIs DEF BlocksInv
<1>10. ModesInv'
  <2>1. i_mode'[ino] = mode /\ \A i \in Inode \ {ino} : i_mode'[i] = i_mode[i]
    BY <1>2, <1>3
  <2>2. i_mode'[Root] = "dir" /\ \A i \in Inode : i_mode'[i] = "none" <=> i \in ifree_bitmap'
    BY <1>2, <1>4, <2>1, RootIsInode DEF ModesInv
  <2>3. \A i \in Inode : i_mode'[i] # "dir" => \A s \in Slot : files'[i][s].inode = 0
    BY <1>1, <1>4, <1>7, <2>1, EmptyBlockIs DEF ModesInv
  <2> QED
    BY <2>2, <2>3 DEF ModesInv
<1>11. TreeInv'
  <2>1. Tree(files, i_mode)
    BY <1>1 DEF TreeInv
  <2>2. Absent(files, ino)
    BY <1>4, <2>1, RootIsInode DEF Tree, Valid, Absent
  <2>3. \A c \in Inode, r \in Slot : ~ (c = d /\ r = n) => files'[c][r].inode = files[c][r].inode
    <3> TAKE c \in Inode, r \in Slot
    <3>1. CASE c = d
      BY <1>6, <1>7, <3>1
    <3>2. CASE c = ino
      BY <1>4, <1>7, <3>2, EmptyBlockIs DEF ModesInv
    <3>3. CASE c # d /\ c # ino
      BY <1>7, <3>3
    <3> QED
      BY <3>1, <3>2, <3>3
  <2>4. files'[d][n].inode = ino
    BY <1>6, <1>7
  <2>5. AddedAt(files, files', d, n, ino)
    BY <1>6, <2>3, <2>4 DEF AddedAt
  <2>6. Tree(files', [i_mode EXCEPT ![ino] = mode])
    BY <1>3, <1>4, <1>6, <1>7, <2>1, <2>2, <2>5, TreeAdd
  <2> QED
    BY <1>1, <1>2, <2>6 DEF TreeInv
<1> QED
  BY <1>8, <1>9, <1>10, <1>11

\* What a removed entry leaves of a directory.
LEMMA Removal ==
    ASSUME DirInv, ~oops, torn = 0, NEW d \in Inode, NEW ino \in Inode, NEW p \in Slot,
           files[d][p].inode = ino
    PROVE  /\ ino # Root /\ i_mode[ino] # "none" /\ i_mode[d] = "dir"
           /\ RemoveEntry(files[d], ino) \in Block
           /\ Packed(RemoveEntry(files[d], ino)) /\ Named(RemoveEntry(files[d], ino))
           /\ \A s \in Slot : RemoveEntry(files[d], ino)[s] =
                IF s < p THEN files[d][s]
                ELSE IF s + 1 < MaxSub THEN files[d][s + 1] ELSE NoEntry
<1> USE DEF DirInv
<1>1. Tree(files, i_mode) /\ ino # 0
  BY RootIsInode DEF TreeInv
<1>2. ino # Root /\ i_mode[ino] # "none" /\ i_mode[d] = "dir"
  BY <1>1 DEF Tree, Valid, ModesInv
<1>3. \A s \in Slot : files[d][s].inode = ino => s = p
  BY <1>1 DEF Tree, Unique
<1>4. files[d] \in Block /\ Packed(files[d]) /\ Named(files[d])
  BY DEF DirTypes, BlocksInv, Dirent
<1> QED
  BY <1>2, <1>3, <1>4, RemoveEntryIs

\* ouichefs_unlink and ouichefs_rmdir, of an inode that holds nothing.
LEMMA DirInvUnlink ==
    ASSUME DirInv, ~oops, torn = 0, NEW d \in Inode, NEW ino \in Inode, NEW p \in Slot,
           files[d][p].inode = ino, \A s \in Slot : files[ino][s].inode = 0, Unlink(d, ino)
    PROVE  DirInv'
<1> USE DEF DirInv
<1>1. /\ files' = [files EXCEPT ![d] = RemoveEntry(@, ino)]
      /\ i_nlink' = LinkCount([i_nlink EXCEPT ![ino] = @ - 1], d, i_mode[ino], -1)
      /\ i_mode' = [i_mode EXCEPT ![ino] = "none"]
      /\ ifree_bitmap' = ifree_bitmap \cup {ino} /\ nr_free_inodes' = nr_free_inodes + 1
      /\ torn' = torn /\ oops' = oops
  BY DEF Unlink, PutInode
<1> DEFINE v == RemoveEntry(files[d], ino)
<1>2. /\ ino # Root /\ i_mode[ino] # "none" /\ i_mode[d] = "dir"
      /\ v \in Block /\ Packed(v) /\ Named(v)
      /\ \A s \in Slot : v[s] = IF s < p THEN files[d][s]
                                ELSE IF s + 1 < MaxSub THEN files[d][s + 1] ELSE NoEntry
  BY Removal
<1>3. files \in Dirent /\ i_mode \in [Inode -> Modes] /\ Tree(files, i_mode)
  BY DEF DirTypes, TreeInv
<1>4. files' \in Dirent /\ files'[d] = v /\ \A i \in Inode \ {d} : files'[i] = files[i]
  BY <1>1, <1>2, <1>3 DEF Dirent
<1>5. ino # d
  BY RootIsInode
<1> HIDE DEF v
<1>6. DirTypes'
  <2>1. i_mode' \in [Inode -> Modes]
    BY <1>1, <1>3 DEF Modes
  <2>2. i_nlink' \in [Inode -> Int]
    <3>1. [i_nlink EXCEPT ![ino] = @ - 1] \in [Inode -> Int]
      BY DEF DirTypes
    <3> QED
      BY <1>1, <3>1, LinkCountType, -1 \in Int
  <2>3. ifree_bitmap' \subseteq Inode /\ nr_free_inodes' \in Int /\ torn' \in Inode \cup {0}
    BY <1>1 DEF DirTypes
  <2> QED
    BY <1>4, <2>1, <2>2, <2>3 DEF DirTypes
<1>7. BlocksInv'
  BY <1>2, <1>4 DEF BlocksInv
<1>8. ModesInv'
  <2>1. i_mode'[ino] = "none" /\ \A i \in Inode \ {ino} : i_mode'[i] = i_mode[i]
    BY <1>1, <1>3
  <2>2. i_mode'[Root] = "dir" /\ \A i \in Inode : i_mode'[i] = "none" <=> i \in ifree_bitmap'
    BY <1>1, <1>2, <2>1, RootIsInode DEF ModesInv
  <2>3. \A i \in Inode : i_mode'[i] # "dir" => \A s \in Slot : files'[i][s].inode = 0
    BY <1>2, <1>4, <1>5, <2>1 DEF ModesInv
  <2> QED
    BY <2>2, <2>3 DEF ModesInv
<1>9. TreeInv'
  <2>1. RemovedAt(files, files', d, p)
    BY <1>2, <1>4 DEF RemovedAt
  <2>2. Tree(files', [i_mode EXCEPT ![ino] = "none"])
    BY <1>3, <1>4, <2>1, TreeRemove
  <2> QED
    BY <1>1, <2>2 DEF TreeInv
<1> QED
  BY <1>6, <1>7, <1>8, <1>9

\* A rename within a directory changes the name of one entry.
LEMMA InPlaceIs ==
    ASSUME DirInv, NEW d \in Inode, NEW old \in Names, NEW new \in Names, Lookup(d, old) # 0,
           RenameInPlace(d, old, new)
    PROVE  \E q \in Slot :
             /\ files[d][q].filename = old /\ files[d][q].inode # 0
             /\ files'[d][q].inode = files[d][q].inode /\ files'[d][q].filename = Stored[new]
             /\ \A s \in Slot \ {q} : files'[d][s] = files[d][s]
             /\ \A i \in Inode \ {d} : files'[i] = files[i]
             /\ files' \in Dirent
<1> DEFINE S == {s \in Slot : files[d][s].filename = old}
           q == Max(S)
<1>1. files \in Dirent /\ Packed(files[d])
  BY DEF DirInv, DirTypes, BlocksInv
<1>2. S \in SUBSET Nat /\ S # {} /\ \A y \in S : y <= MaxSub
  BY LookupIs, DirectoryAssumption DEF Slot
<1>3. q \in S
  BY <1>2, MaxIs, DirectoryAssumption
<1>4. q \in Slot /\ files[d][q].filename = old
  BY <1>3
<1>5. files[d][q].inode # 0
  <2>1. q \in q..(MaxSub - 1)
    BY <1>4, DirectoryAssumption DEF Slot
  <2>2. NoEntry.filename # old
    BY DirectoryAssumption DEF NoEntry
  <2> QED
    BY <1>1, <1>4, <2>1, <2>2 DEF Packed
<1>6. files' = [files EXCEPT ![d][q].filename = Stored[new]]
  BY DEF RenameInPlace
<1> HIDE DEF q, S
<1> DEFINE e == [files[d][q] EXCEPT !.filename = Stored[new]]
           w == [files[d] EXCEPT ![q] = e]
<1>7. files[d] \in Block /\ files[d][q] \in Entry /\ Stored[new] \in Names
  BY <1>1, <1>4, DirectoryAssumption DEF Dirent, Block
<1>8. e \in Entry /\ e.inode = files[d][q].inode /\ e.filename = Stored[new]
  BY <1>7 DEF Entry
<1> HIDE DEF e
<1>9. w \in Block /\ w[q] = e /\ \A s \in Slot \ {q} : w[s] = files[d][s]
  BY <1>4, <1>7, <1>8 DEF Block
<1>10. files' = [files EXCEPT ![d] = w]
  BY <1>6 DEF e
<1> HIDE DEF w
<1>11. files' \in Dirent /\ files'[d] = w /\ \A i \in Inode \ {d} : files'[i] = files[i]
  BY <1>1, <1>9, <1>10 DEF Dirent
<1> QED
  BY <1>4, <1>5, <1>8, <1>9, <1>11

LEMMA DirInvInPlace ==
    ASSUME DirInv, ~oops, torn = 0, NEW d \in Inode, NEW old \in Names, NEW new \in Names,
           Lookup(d, old) # 0, RenameInPlace(d, old, new)
    PROVE  DirInv'
<1> USE DEF DirInv
<1>1. PICK q \in Slot :
        /\ files[d][q].inode # 0
        /\ files'[d][q].inode = files[d][q].inode /\ files'[d][q].filename = Stored[new]
        /\ \A s \in Slot \ {q} : files'[d][s] = files[d][s]
        /\ \A i \in Inode \ {d} : files'[i] = files[i]
        /\ files' \in Dirent
  BY InPlaceIs
<1>2. UNCHANGED <<ifree_bitmap, nr_free_inodes, i_mode, i_nlink, torn, oops>>
  BY DEF RenameInPlace, inodevars
<1>3. \A c \in Inode, r \in Slot : files'[c][r].inode = files[c][r].inode
  BY <1>1
<1>4. DirTypes'
  BY <1>1, <1>2 DEF DirTypes
<1>5. BlocksInv'
  <2>1. Packed(files'[d])
    <3> SUFFICES ASSUME NEW s \in Slot, files'[d][s].inode = 0, NEW t \in s..(MaxSub - 1)
                 PROVE  files'[d][t] = NoEntry
      BY DEF Packed
    <3>1. t \in Slot
      BY DirectoryAssumption DEF Slot
    <3>2. files[d][t] = NoEntry
      BY <1>3 DEF BlocksInv, Packed
    <3> QED
      BY <1>1, <3>1, <3>2 DEF NoEntry
  <2>2. Named(files'[d])
    <3> SUFFICES ASSUME NEW s \in Slot, files'[d][s].inode # 0 PROVE files'[d][s].filename \in Names
      BY DEF Named
    <3>1. files[d][s].filename \in Names /\ Stored[new] \in Names
      BY <1>3, DirectoryAssumption DEF BlocksInv, Named
    <3> QED
      BY <1>1, <3>1
  <2> QED
    BY <1>1, <2>1, <2>2 DEF BlocksInv
<1>6. ModesInv'
  BY <1>2, <1>3 DEF ModesInv
<1>7. TreeInv'
  <2>1. Tree(files', i_mode)
    BY <1>3, TreeSame DEF TreeInv
  <2> QED
    BY <1>2, <2>1 DEF TreeInv
<1> QED
  BY <1>4, <1>5, <1>6, <1>7

\* A rename between directories, whichever way its second half goes.
LEMMA DirInvAcross ==
    ASSUME DirInv, ~oops, torn = 0, NEW d \in Inode, NEW old \in Names, NEW new \in Names,
           NEW e \in Dirs \ {d}, Lookup(d, old) # 0, RenameAcross(d, old, e, new)
    PROVE  DirInv'
<1> DEFINE ino == Lookup(d, old)
<1>1. ino \in Inode
  BY LookupIs
<1>2. PICK p \in Slot : files[d][p].inode = ino
  BY LookupIs
<1>3. FirstEmpty(files[e], 0) # MaxSub
      /\ (RemoveOld(d, ino, e, new) \/ OverrunOld(d, ino, e, new) \/ TornOld(d, ino, e, new))
  BY DEF RenameAcross
<1> HIDE DEF ino
<1>4. e \in Inode /\ e # d /\ i_mode[e] = "dir"
  BY DEF Dirs
<1> DEFINE n == FirstEmpty(files[e], 0)
           v == AddEntry(files[e], ino, new)
           u == RemoveEntry(files[d], ino)
           F == [files EXCEPT ![d] = u]
<1>5. files \in Dirent /\ i_mode \in [Inode -> Modes] /\ Tree(files, i_mode)
  BY DEF DirInv, DirTypes, TreeInv
<1>6. files[e] \in Block /\ Packed(files[e]) /\ Named(files[e])
  BY <1>4, <1>5 DEF DirInv, BlocksInv, Dirent
<1>7. /\ v \in Block /\ Packed(v) /\ Named(v) /\ n \in Slot /\ files[e][n].inode = 0
      /\ v[n].inode = ino /\ \A s \in Slot \ {n} : v[s] = files[e][s]
  BY <1>1, <1>3, <1>6, AddEntryIs
<1>8. /\ ino # Root /\ i_mode[ino] # "none" /\ i_mode[d] = "dir"
      /\ u \in Block /\ Packed(u) /\ Named(u)
      /\ \A s \in Slot : u[s] = IF s < p THEN files[d][s]
                                ELSE IF s + 1 < MaxSub THEN files[d][s + 1] ELSE NoEntry
  BY <1>1, <1>2, Removal
<1> HIDE DEF n, v, u
<1>9. CASE RemoveOld(d, ino, e, new)
  <2>1. /\ files' = [files EXCEPT ![e] = v, ![d] = u]
        /\ i_nlink' = LinkCount(LinkCount(i_nlink, e, i_mode[ino], 1), d, i_mode[ino], -1)
        /\ UNCHANGED <<ifree_bitmap, nr_free_inodes, i_mode, torn, oops>>
    BY <1>4, <1>9 DEF RemoveOld, inodevars, u, v
  <2>2. files' \in Dirent /\ files'[e] = v /\ files'[d] = u
        /\ \A i \in Inode \ {d, e} : files'[i] = files[i]
    BY <1>4, <1>5, <1>7, <1>8, <2>1 DEF Dirent
  <2>3. F \in Dirent /\ F[d] = u /\ \A i \in Inode \ {d} : F[i] = files[i]
    BY <1>5, <1>8 DEF Dirent
  <2> HIDE DEF F
  <2>4. DirTypes'
    <3>1. i_nlink' \in [Inode -> Int]
      BY <1>4, <2>1, LinkCountType, -1 \in Int, 1 \in Int DEF DirInv, DirTypes
    <3> QED
      BY <2>1, <2>2, <3>1 DEF DirInv, DirTypes
  <2>5. BlocksInv'
    BY <1>7, <1>8, <2>2 DEF DirInv, BlocksInv
  <2>6. ModesInv'
    <3>1. ifree_bitmap' = ifree_bitmap /\ i_mode' = i_mode
      BY <2>1
    <3>2. \A i \in Inode : i_mode[i] # "dir" => files'[i] = files[i]
      BY <1>4, <1>8, <2>2
    <3> QED
      BY <3>1, <3>2 DEF DirInv, ModesInv
  <2>7. RemovedAt(files, F, d, p)
    BY <1>8, <2>3 DEF RemovedAt
  <2>8. Tree(F, [i_mode EXCEPT ![ino] = "none"]) /\ Absent(F, ino)
    BY <1>1, <1>2, <1>5, <2>3, <2>7, TreeRemove
  <2>9. AddedAt(F, files', e, n, ino)
    BY <1>4, <1>7, <2>2, <2>3 DEF AddedAt
  <2>10. [i_mode EXCEPT ![ino] = "none"] \in [Inode -> Modes] /\ i_mode[ino] \in {"file", "dir"}
    BY <1>1, <1>5, <1>8 DEF Modes
  <2>11. Tree(files', [[i_mode EXCEPT ![ino] = "none"] EXCEPT ![ino] = i_mode[ino]])
    BY <1>1, <1>4, <1>7, <1>8, <2>2, <2>3, <2>8, <2>9, <2>10, TreeAdd
  <2>12. [[i_mode EXCEPT ![ino] = "none"] EXCEPT ![ino] = i_mode[ino]] = i_mode
    BY <1>1, <1>5
  <2>13. TreeInv'
    BY <2>1, <2>11, <2>12 DEF TreeInv
  <2> QED
    BY <2>4, <2>5, <2>6, <2>13 DEF DirInv
<1>10. CASE OverrunOld(d, ino, e, new) \/ TornOld(d, ino, e, new)
  <2>1. /\ files' = [files EXCEPT ![e] = v]
        /\ i_nlink' = LinkCount(i_nlink, e, i_mode[ino], 1)
        /\ UNCHANGED <<ifree_bitmap, nr_free_inodes, i_mode>>
        /\ (oops' = TRUE /\ torn' = torn) \/ (oops' = oops /\ torn' = ino)
    BY <1>10 DEF OverrunOld, TornOld, inodevars, v
  <2>2. files' \in Dirent /\ files'[e] = v /\ \A i \in Inode \ {e} : files'[i] = files[i]
    BY <1>4, <1>5, <1>7, <2>1 DEF Dirent
  <2>3. DirTypes'
    <3>1. i_nlink' \in [Inode -> Int]
      BY <1>4, <2>1, LinkCountType, 1 \in Int DEF DirInv, DirTypes
    <3>2. torn' \in Inode \cup {0}
      BY <1>1, <2>1 DEF DirInv, DirTypes
    <3> QED
      BY <2>1, <2>2, <3>1, <3>2 DEF DirInv, DirTypes
  <2>4. BlocksInv'
    BY <1>7, <2>2 DEF DirInv, BlocksInv
  <2>5. ModesInv'
    BY <1>4, <2>1, <2>2 DEF DirInv, ModesInv
  <2>6. TreeInv'
    <3>1. CASE oops' = TRUE
      BY <3>1 DEF TreeInv
    <3>2. CASE torn' = ino
      <4>1. \A c \in Inode, r \in Slot : ~ (c = e /\ r = n) => files'[c][r].inode = files[c][r].inode
        BY <1>7, <2>2
      <4>2. PICK G \in Dirent, k \in Slot : G = files /\ k = n
        BY <1>5, <1>7
      <4>3. OneMore(G, e, k)'
        BY <1>5, <1>7, <1>8, <2>1, <2>2, <3>2, <4>1, <4>2 DEF OneMore
      <4>4. torn' # 0
        BY <1>1, <3>2, RootIsInode
      <4> QED
        BY <1>4, <4>3, <4>4 DEF TreeInv
    <3> QED
      BY <2>1, <3>1, <3>2
  <2> QED
    BY <2>3, <2>4, <2>5, <2>6 DEF DirInv
<1> QED
  BY <1>3, <1>9, <1>10

\* ouichefs_rmdir removes no directory from itself: it has to be empty.
LEMMA UnlinkApart ==
    ASSUME DirInv, NEW d \in Inode, NEW name \in Names, UnlinkFile(d, name) \/ Rmdir(d, name)
    PROVE  /\ ~oops /\ torn = 0 /\ Lookup(d, name) \in Inode /\ Unlink(d, Lookup(d, name))
           /\ Lookup(d, name) # d /\ \E p \in Slot : files[d][p].inode = Lookup(d, name)
<1> DEFINE ino == Lookup(d, name)
<1>1. ~oops /\ torn = 0 /\ ino # 0 /\ Unlink(d, ino)
  BY DEF UnlinkFile, Rmdir, MayCall
<1>2. ino \in Inode /\ \E p \in Slot : files[d][p].inode = ino
  BY <1>1, LookupIs
<1>3. CASE i_mode[ino] = "file"
  BY <1>1, <1>2, <1>3 DEF UnlinkFile, Rmdir, MayCall, Dirs
<1>4. CASE files[ino][0].inode = 0
  <2>1. \A s \in Slot : s \in 0..(MaxSub - 1)
    BY DEF Slot
  <2>2. \A s \in Slot : files[ino][s] = NoEntry
    BY <1>2, <1>4, <2>1, RootIsInode DEF Packed, DirInv, BlocksInv
  <2> QED
    BY <1>1, <1>2, <2>2, RootIsInode DEF NoEntry
<1> QED
  BY <1>3, <1>4 DEF UnlinkFile, Rmdir, RmdirAllowed

LEMMA DirInvNext == DirInv /\ [Next]_vars => DirInv'
<1> SUFFICES ASSUME DirInv, [Next]_vars PROVE DirInv'
  OBVIOUS
<1>1. ASSUME NEW d \in Inode, NEW name \in Names, NEW mode \in {"file", "dir"}, Create(d, name, mode)
      PROVE  DirInv'
  BY <1>1, DirInvCreate
<1>2. ASSUME NEW d \in Inode, NEW name \in Names, UnlinkFile(d, name) \/ Rmdir(d, name)
      PROVE  DirInv'
  <2> DEFINE ino == Lookup(d, name)
  <2>1. ~oops /\ torn = 0 /\ ino # 0 /\ Unlink(d, ino)
    BY <1>2 DEF UnlinkFile, Rmdir, MayCall
  <2>2. ino \in Inode /\ \E p \in Slot : files[d][p].inode = ino
    BY <2>1, LookupIs
  <2> HIDE DEF ino
  <2>3. \A s \in Slot : files[ino][s].inode = 0
    <3>1. CASE i_mode[ino] = "file"
      BY <2>2, <3>1 DEF DirInv, ModesInv
    <3>2. CASE files[ino][0].inode = 0
      <4>1. \A s \in Slot : s \in 0..(MaxSub - 1)
        BY DEF Slot
      <4>2. Packed(files[ino])
        BY <2>2 DEF DirInv, BlocksInv
      <4>3. \A s \in Slot : files[ino][s] = NoEntry
        BY <3>2, <4>1, <4>2, RootIsInode DEF Packed
      <4> QED
        BY <4>3 DEF NoEntry
    <3> QED
      BY <1>2, <3>1, <3>2 DEF UnlinkFile, Rmdir, RmdirAllowed, ino
  <2> QED
    BY <2>1, <2>2, <2>3, DirInvUnlink
<1>3. ASSUME NEW d \in Inode, NEW old \in Names, Rename(d, old) PROVE DirInv'
  BY <1>3, DirInvInPlace, DirInvAcross DEF Rename, MayCall
<1>4. CASE UNCHANGED <<inodevars, i_nlink, files, torn, oops>>
  <2>1. UNCHANGED <<ifree_bitmap, nr_free_inodes, i_mode, i_nlink, files, torn, oops>>
    BY <1>4 DEF inodevars
  <2>2. DirTypes' /\ BlocksInv' /\ ModesInv'
    BY <2>1 DEF DirInv, DirTypes, BlocksInv, ModesInv
  <2>3. TreeInv'
    BY <2>1 DEF DirInv, TreeInv, OneMore
  <2> QED
    BY <2>2, <2>3 DEF DirInv
<1>5. (\E d \in Inode : OpenDir(d)) \/ (\E n \in 1..MaxSub : Iterate(n)) \/ CloseDir \/ UNCHANGED vars
      => UNCHANGED <<inodevars, i_nlink, files, torn, oops>>
  BY DEF OpenDir, Iterate, CloseDir, vars
<1> QED
  BY <1>1, <1>2, <1>3, <1>4, <1>5 DEF Next

\* The entries of every directory come without a hole: ouichefs_lookup,
\* ouichefs_rmdir, ouichefs_unlink, ouichefs_rename and ouichefs_iterate stop
\* at the first empty entry and miss nothing, for blocks of any size and after
\* any sequence of creations, deletions and moves.
THEOREM AlwaysPacked == Spec => []EntriesPacked
<1>1. DirInv => EntriesPacked
  BY DEF DirInv, BlocksInv, EntriesPacked, Packed, Dirs
<1> QED
  BY <1>1, DirInvInit, DirInvNext, PTL DEF Spec
-----------------------------------------------------------------------------
(* The inode bitmap and the directories agree *)

EntriesOf(F, i) == {h \in Inode \X Slot : F[h[1]][h[2]].inode = i}

\* In a tree every used inode but the root has one entry, the others have none.
LEMMA TreeEntries ==
    ASSUME NEW F, NEW m, Tree(F, m), NEW i \in Inode
    PROVE  /\ i = Root \/ m[i] = "none" => EntriesOf(F, i) = {}
           /\ i # Root /\ m[i] # "none" => \E h \in Inode \X Slot : EntriesOf(F, i) = {h}
<1>1. i # 0
  BY RootIsInode
<1>2. ASSUME i = Root \/ m[i] = "none" PROVE EntriesOf(F, i) = {}
  <2> SUFFICES ASSUME NEW h \in Inode \X Slot, F[h[1]][h[2]].inode = i PROVE FALSE
    BY DEF EntriesOf
  <2>1. h[1] \in Inode /\ h[2] \in Slot
    OBVIOUS
  <2> QED
    BY <1>1, <1>2, <2>1 DEF Tree, Valid
<1>3. ASSUME i # Root, m[i] # "none" PROVE \E h \in Inode \X Slot : EntriesOf(F, i) = {h}
  <2>1. PICK d \in Inode, s \in Slot : F[d][s].inode = i
    BY <1>3 DEF Tree, Covered
  <2>2. \A e \in Inode, t \in Slot : F[e][t].inode = i => e = d /\ t = s
    BY <1>1, <2>1 DEF Tree, Unique
  <2>3. \A h \in Inode \X Slot : h \in EntriesOf(F, i) => h = <<d, s>>
    <3> TAKE h \in Inode \X Slot
    <3>1. h[1] \in Inode /\ h[2] \in Slot /\ h = <<h[1], h[2]>>
      OBVIOUS
    <3> QED
      BY <2>2, <3>1 DEF EntriesOf
  <2>4. <<d, s>> \in EntriesOf(F, i)
    BY <2>1 DEF EntriesOf
  <2>5. EntriesOf(F, i) \subseteq Inode \X Slot
    BY DEF EntriesOf
  <2>6. EntriesOf(F, i) = {<<d, s>>}
    BY <2>3, <2>4, <2>5
  <2> QED
    BY <2>5, <2>6
<1> QED
  BY <1>2, <1>3

\* The inode bitmap and the directories agree, whatever sequence of creations,
\* deletions, moves and failed moves led there: ouichefs_unlink, ouichefs_rmdir
\* and ouichefs_rename lose no file, and no entry names a free inode.
THEOREM TreeStaysIntact == Spec => []TreeIntact
<1>1. DirInv => TreeIntact
  <2> SUFFICES ASSUME DirInv, ~oops
               PROVE  /\ \A i \in Inode : (i_mode[i] = "none") <=> (i \in ifree_bitmap)
                      /\ \A i \in Inode : Cardinality(Holders(i)) =
                           (IF i = Root \/ i \notin Allocated THEN 0 ELSE 1)
                           + (IF i = torn THEN 1 ELSE 0)
    BY DEF TreeIntact
  <2>1. \A i \in Inode : (i_mode[i] = "none") <=> (i \in ifree_bitmap)
    BY DEF DirInv, ModesInv
  <2>2. ASSUME NEW i \in Inode
        PROVE  Cardinality(Holders(i)) = (IF i = Root \/ i \notin Allocated THEN 0 ELSE 1)
                                         + (IF i = torn THEN 1 ELSE 0)
    <3>1. i # 0 /\ (i \notin Allocated <=> i_mode[i] = "none")
      BY <2>1, RootIsInode DEF Allocated
    <3>2. Holders(i) = EntriesOf(files, i)
      <4>1. Dirs \X Slot \subseteq Inode \X Slot
        BY DEF Dirs
      <4>2. \A h \in Inode \X Slot : files[h[1]][h[2]].inode = i => h \in Dirs \X Slot
        <5> TAKE h \in Inode \X Slot
        <5>1. h[1] \in Inode /\ h[2] \in Slot /\ h = <<h[1], h[2]>>
          OBVIOUS
        <5> QED
          BY <3>1, <5>1 DEF DirInv, ModesInv, Dirs
      <4> QED
        BY <4>1, <4>2 DEF Holders, EntriesOf
    <3>3. ASSUME NEW F, Tree(F, i_mode)
          PROVE  /\ IsFiniteSet(EntriesOf(F, i))
                 /\ Cardinality(EntriesOf(F, i)) = IF i = Root \/ i \notin Allocated THEN 0 ELSE 1
      <4>1. CASE i = Root \/ i_mode[i] = "none"
        <5>1. EntriesOf(F, i) = {}
          BY <3>3, <4>1, TreeEntries
        <5> QED
          BY <3>1, <4>1, <5>1, FS_EmptySet
      <4>2. CASE ~ (i = Root \/ i_mode[i] = "none")
        <5>1. PICK h : EntriesOf(F, i) = {h}
          BY <3>3, <4>2, TreeEntries
        <5> QED
          BY <3>1, <4>2, <5>1, FS_Singleton
      <4> QED
        BY <4>1, <4>2
    <3>4. CASE torn = 0
      <4>1. Tree(files, i_mode)
        BY <3>4 DEF DirInv, TreeInv
      <4> QED
        BY <3>1, <3>2, <3>3, <3>4, <4>1
    <3>5. CASE torn # 0
      <4>1. PICK F \in Dirent, e \in Inode, n \in Slot : OneMore(F, e, n)
        BY <3>5 DEF DirInv, TreeInv
      <4>2. Tree(F, i_mode) /\ torn # Root /\ i_mode[torn] # "none" /\ F[e][n].inode = 0
            /\ files[e][n].inode = torn
        BY <4>1 DEF OneMore
      <4>3. \A h \in Inode \X Slot : h # <<e, n>> => files[h[1]][h[2]].inode = F[h[1]][h[2]].inode
        <5> TAKE h \in Inode \X Slot
        <5>1. h[1] \in Inode /\ h[2] \in Slot /\ h = <<h[1], h[2]>>
          OBVIOUS
        <5> QED
          BY <4>1, <5>1 DEF OneMore
      <4>4. <<e, n>> \in Inode \X Slot /\ <<e, n>> \notin EntriesOf(F, i)
        BY <3>1, <4>2 DEF EntriesOf
      <4>5. CASE i # torn
        <5>1. EntriesOf(files, i) = EntriesOf(F, i)
          BY <4>2, <4>3, <4>4, <4>5 DEF EntriesOf
        <5> QED
          BY <3>2, <3>3, <4>2, <4>5, <5>1
      <4>6. CASE i = torn
        <5>1. EntriesOf(files, i) = EntriesOf(F, i) \cup {<<e, n>>}
          BY <4>2, <4>3, <4>4, <4>6 DEF EntriesOf
        <5>2. Cardinality(EntriesOf(files, i)) = Cardinality(EntriesOf(F, i)) + 1
          BY <3>3, <4>2, <4>4, <5>1, FS_AddElement
        <5> QED
          BY <3>1, <3>2, <3>3, <4>2, <4>6, <5>2
      <4> QED
        BY <4>5, <4>6
    <3> QED
      BY <3>4, <3>5
  <2> QED
    BY <2>1, <2>2
<1> QED
  BY <1>1, DirInvInit, DirInvNext, PTL DEF Spec
-----------------------------------------------------------------------------
(* Names *)

\* What NamesUnique says of one block.
Distinct(w) ==
    \A s, t \in Slot : s # t /\ w[s].filename = w[t].filename => w[s] = NoEntry
NamesInv == \A d \in Inode : Distinct(files[d])

\* No name loses its end when it is stored: all have at most 27 characters.
Short == \A name \in Names : Stored[name] = name

LEMMA DistinctAdd ==
    ASSUME Short, NEW w \in Block, Packed(w), Named(w), Distinct(w), FirstEmpty(w, 0) # MaxSub,
           NEW ino \in Inode, NEW name \in Names, \A s \in Slot : w[s].filename # name
    PROVE  Distinct(AddEntry(w, ino, name))
<1> DEFINE n == FirstEmpty(w, 0)
           v == AddEntry(w, ino, name)
<1>1. n \in Slot /\ v[n].filename = name /\ \A s \in Slot \ {n} : v[s] = w[s]
  BY AddEntryIs DEF Short
<1> HIDE DEF n, v
<1>2. Distinct(v)
  BY <1>1 DEF Distinct
<1> QED
  BY <1>2 DEF v

LEMMA DistinctRemove ==
    ASSUME DirInv, ~oops, torn = 0, NEW d \in Inode, NEW ino \in Inode, NEW p \in Slot,
           files[d][p].inode = ino, Distinct(files[d])
    PROVE  Distinct(RemoveEntry(files[d], ino))
<1> DEFINE w == files[d]
           v == RemoveEntry(w, ino)
<1>1. /\ v \in Block /\ Packed(v) /\ Named(v)
      /\ \A s \in Slot : v[s] = IF s < p THEN w[s] ELSE IF s + 1 < MaxSub THEN w[s + 1] ELSE NoEntry
  BY Removal
<1> HIDE DEF v
<1>2. \A s \in Slot : v[s].filename = NoName => v[s] = NoEntry
  <2> TAKE s \in Slot
  <2>1. v[s].inode # 0 => v[s].filename # NoName
    BY <1>1, DirectoryAssumption DEF Named
  <2>2. s \in s..(MaxSub - 1)
    BY DirectoryAssumption DEF Slot
  <2> QED
    BY <1>1, <2>1, <2>2 DEF Packed
<1>3. ASSUME NEW s \in Slot, NEW t \in Slot, s # t, v[s].filename = v[t].filename
      PROVE  v[s] = NoEntry
  <2>1. s \in Nat /\ t \in Nat /\ p \in Nat /\ MaxSub \in Nat
    BY RootIsInode, DirectoryAssumption
  <2>2. CASE v[s] = NoEntry \/ v[t] = NoEntry
    BY <1>2, <1>3, <2>2 DEF NoEntry
  <2>3. CASE v[s] # NoEntry /\ v[t] # NoEntry
    <3>1. PICK a \in Slot : v[s] = w[a] /\ a = (IF s < p THEN s ELSE s + 1)
      BY <1>1, <2>1, <2>3 DEF Slot
    <3>2. PICK b \in Slot : v[t] = w[b] /\ b = (IF t < p THEN t ELSE t + 1)
      BY <1>1, <2>1, <2>3 DEF Slot
    <3>3. a # b
      BY <1>3, <2>1, <3>1, <3>2
    <3> QED
      BY <1>3, <3>1, <3>2, <3>3 DEF Distinct
  <2> QED
    BY <2>2, <2>3
<1> QED
  BY <1>3 DEF Distinct, v

LEMMA NamesInvNext == Short /\ DirInv /\ NamesInv /\ [Next]_vars => NamesInv'
<1> SUFFICES ASSUME Short, DirInv, NamesInv, [Next]_vars PROVE NamesInv'
  OBVIOUS
<1>0. /\ files \in Dirent /\ \A i \in Inode : files[i] \in Block /\ Packed(files[i]) /\ Named(files[i])
      /\ \A i \in Inode : Distinct(files[i])
  BY DEF DirInv, DirTypes, BlocksInv, Dirent, NamesInv
<1>e. EmptyBlock \in Block /\ Distinct(EmptyBlock)
  BY EmptyBlockIs DEF Distinct, EmptyBlock
<1>1. ASSUME NEW d \in Inode, NEW name \in Names, NEW mode \in {"file", "dir"}, Create(d, name, mode)
      PROVE  NamesInv'
  <2>1. PICK ino \in Inode :
          files' = [files EXCEPT ![ino] = EmptyBlock, ![d] = AddEntry(@, ino, name)]
          /\ ino \in ifree_bitmap
    BY <1>1 DEF Create, GetFreeInode
  <2>2. ino # d /\ Lookup(d, name) = 0 /\ files[d][MaxSub - 1].inode = 0
    BY <1>1, <2>1 DEF Create, MayCall, Dirs, DirInv, ModesInv
  <2>3. FirstEmpty(files[d], 0) # MaxSub
    <3>1. MaxSub - 1 \in Slot /\ MaxSub \in Nat
      BY DirectoryAssumption DEF Slot
    <3>2. \A s \in Slot : s < FirstEmpty(files[d], 0) => files[d][s].inode # 0
      BY <1>0, FirstEmptyIs, RootIsInode, DirectoryAssumption
    <3> QED
      BY <2>2, <3>1, <3>2
  <2>4. \A s \in Slot : files[d][s].filename # name
    BY <2>2, LookupIs
  <2>5. Distinct(AddEntry(files[d], ino, name))
    BY <1>0, <2>3, <2>4, DistinctAdd
  <2>6. files'[d] = AddEntry(files[d], ino, name) /\ files'[ino] = EmptyBlock
        /\ \A i \in Inode \ {d, ino} : files'[i] = files[i]
    BY <1>0, <2>1, <2>2 DEF Dirent
  <2> QED
    BY <1>0, <1>e, <2>5, <2>6 DEF NamesInv
<1>2. ASSUME NEW d \in Inode, NEW name \in Names, UnlinkFile(d, name) \/ Rmdir(d, name)
      PROVE  NamesInv'
  <2> DEFINE ino == Lookup(d, name)
  <2>1. ~oops /\ torn = 0 /\ ino # 0 /\ files' = [files EXCEPT ![d] = RemoveEntry(files[d], ino)]
    BY <1>2 DEF UnlinkFile, Rmdir, MayCall, Unlink
  <2>2. ino \in Inode /\ \E p \in Slot : files[d][p].inode = ino
    BY <2>1, LookupIs
  <2> HIDE DEF ino
  <2>3. Distinct(RemoveEntry(files[d], ino))
    BY <1>0, <2>1, <2>2, DistinctRemove
  <2>4. files'[d] = RemoveEntry(files[d], ino) /\ \A i \in Inode \ {d} : files'[i] = files[i]
    BY <1>0, <2>1 DEF Dirent
  <2> QED
    BY <1>0, <2>3, <2>4 DEF NamesInv
<1>3. ASSUME NEW d \in Inode, NEW old \in Names, NEW new \in Names, Lookup(d, old) # 0,
             RenameInPlace(d, old, new)
      PROVE  NamesInv'
  <2>1. PICK q \in Slot :
          /\ files'[d][q].filename = Stored[new] /\ files[d][q].inode # 0
          /\ \A s \in Slot \ {q} : files'[d][s] = files[d][s]
          /\ \A i \in Inode \ {d} : files'[i] = files[i]
    BY <1>3, InPlaceIs
  <2>2. \A s \in Slot : files[d][s].filename # new
    BY <1>3 DEF RenameInPlace, NameFree, HasName
  <2>3. Distinct(files'[d])
    BY <1>0, <2>1, <2>2 DEF Distinct, Short
  <2> QED
    BY <1>0, <2>1, <2>3 DEF NamesInv
<1>4. ASSUME NEW d \in Inode, NEW old \in Names, NEW new \in Names, NEW e \in Dirs \ {d},
             ~oops, torn = 0, Lookup(d, old) # 0, RenameAcross(d, old, e, new)
      PROVE  NamesInv'
  <2> DEFINE ino == Lookup(d, old)
             v == AddEntry(files[e], ino, new)
             u == RemoveEntry(files[d], ino)
  <2>1. ino \in Inode /\ \E p \in Slot : files[d][p].inode = ino
    BY <1>4, LookupIs
  <2>2. e \in Inode /\ e # d
    BY DEF Dirs
  <2>3. /\ FirstEmpty(files[e], 0) # MaxSub /\ \A s \in Slot : files[e][s].filename # new
        /\ files' = [files EXCEPT ![e] = v, ![d] = u] \/ files' = [files EXCEPT ![e] = v]
    BY <1>4, <2>2 DEF RenameAcross, RemoveOld, OverrunOld, TornOld, NameFree, HasName
  <2> HIDE DEF ino
  <2>4. Distinct(v)
    BY <1>0, <2>1, <2>2, <2>3, DistinctAdd
  <2>5. Distinct(u)
    BY <1>0, <1>4, <2>1, DistinctRemove
  <2> HIDE DEF u, v
  <2>6. /\ files'[e] = v /\ (files'[d] = u \/ files'[d] = files[d])
        /\ \A i \in Inode \ {d, e} : files'[i] = files[i]
    BY <1>0, <2>2, <2>3 DEF Dirent
  <2> QED
    BY <1>0, <2>2, <2>4, <2>5, <2>6 DEF NamesInv
<1>5. CASE UNCHANGED files
  BY <1>5 DEF NamesInv
<1>6. ASSUME NEW d \in Inode, NEW old \in Names, Rename(d, old) PROVE NamesInv'
  BY <1>3, <1>4, <1>6 DEF Rename, MayCall
<1> QED
  BY <1>1, <1>2, <1>5, <1>6 DEF Next, OpenDir, Iterate, CloseDir, vars

\* No directory has a name twice, through ouichefs_create, ouichefs_mkdir and
\* both kinds of ouichefs_rename, as long as no name is cut when it is stored.
THEOREM NamesStayUnique == Short => (Spec => []NamesUnique)
<1> SUFFICES ASSUME Short PROVE Spec => []NamesUnique
  OBVIOUS
<1>1. Init => DirInv /\ NamesInv
  BY DirInvInit, EmptyBlockIs DEF Init, NamesInv, Distinct, EmptyBlock
<1>2. DirInv /\ NamesInv /\ [Next]_vars => (DirInv /\ NamesInv)'
  BY DirInvNext, NamesInvNext
<1>3. NamesInv => NamesUnique
  BY DEF NamesInv, NamesUnique, Distinct, Dirs
<1> QED
  BY <1>1, <1>2, <1>3, PTL DEF Spec
-----------------------------------------------------------------------------
(* sysfs *)

\* The counter that mkfs starts one too high is NrInodes less the inodes in use.
CountInv == nr_free_inodes = NrInodes - Cardinality(Allocated)

LEMMA AllocatedFinite == IsFiniteSet(Allocated) /\ Cardinality(Allocated) \in Nat
<1>1. IsFiniteSet(Inode) /\ Allocated \subseteq Inode
  BY FS_Interval, DirectoryAssumption DEF Inode, Allocated
<1>2. IsFiniteSet(Allocated)
  BY <1>1, FS_Subset
<1> QED
  BY <1>2, FS_CardinalityType

LEMMA CountInvNext == DirInv /\ CountInv /\ [Next]_vars => CountInv'
<1> SUFFICES ASSUME DirInv, CountInv, [Next]_vars PROVE CountInv'
  OBVIOUS
<1>0. NrInodes \in Nat
  BY DirectoryAssumption
<1>1. ASSUME NEW ino \in Inode, ino \in ifree_bitmap, ifree_bitmap' = ifree_bitmap \ {ino},
             nr_free_inodes' = nr_free_inodes - 1
      PROVE  CountInv'
  <2>1. ino \notin Allocated /\ Allocated' = Allocated \cup {ino}
    BY <1>1 DEF Allocated
  <2>2. Cardinality(Allocated') = Cardinality(Allocated) + 1
    BY <2>1, AllocatedFinite, FS_AddElement
  <2> QED
    BY <1>0, <1>1, <2>2, AllocatedFinite DEF CountInv
<1>2. ASSUME NEW ino \in Inode, ino \notin ifree_bitmap, ifree_bitmap' = ifree_bitmap \cup {ino},
             nr_free_inodes' = nr_free_inodes + 1
      PROVE  CountInv'
  <2>1. ino \in Allocated /\ Allocated' = Allocated \ {ino}
    BY <1>2 DEF Allocated
  <2>2. Cardinality(Allocated') = Cardinality(Allocated) - 1
    BY <2>1, AllocatedFinite, FS_RemoveElement
  <2> QED
    BY <1>0, <1>2, <2>2, AllocatedFinite DEF CountInv
<1>3. ASSUME NEW d \in Inode, NEW name \in Names, NEW mode \in {"file", "dir"}, Create(d, name, mode)
      PROVE  CountInv'
  BY <1>1, <1>3 DEF Create, GetFreeInode
<1>4. ASSUME NEW d \in Inode, NEW name \in Names, UnlinkFile(d, name) \/ Rmdir(d, name)
      PROVE  CountInv'
  <2> DEFINE ino == Lookup(d, name)
  <2>1. /\ ~oops /\ torn = 0 /\ ino # 0 /\ ifree_bitmap' = ifree_bitmap \cup {ino}
        /\ nr_free_inodes' = nr_free_inodes + 1
    BY <1>4 DEF UnlinkFile, Rmdir, MayCall, Unlink, PutInode
  <2>2. ino \in Inode /\ \E p \in Slot : files[d][p].inode = ino
    BY <2>1, LookupIs
  <2>3. ino \notin ifree_bitmap
    BY <2>1, <2>2, Removal DEF DirInv, ModesInv
  <2> QED
    BY <1>2, <2>1, <2>2, <2>3
<1>5. CASE UNCHANGED inodevars
  BY <1>5 DEF inodevars, CountInv, Allocated
<1>6. ASSUME NEW d \in Inode, NEW name \in Names, Rename(d, name) PROVE CountInv'
  BY <1>5, <1>6 DEF Rename, RenameInPlace, RenameAcross, RemoveOld, OverrunOld, TornOld
<1> QED
  BY <1>3, <1>4, <1>5, <1>6 DEF Next, OpenDir, Iterate, CloseDir, vars

\* total_small_file_count is right whenever the inodes in use are the first
\* ones: the counter of mkfs and the loop of sysfs, each off by one, cancel out
\* on every partition and after every sequence of operations.
THEOREM SmallFilesAreCounted == Spec => []SmallFilesCounted
<1>1. Init => CountInv
  <2> SUFFICES ASSUME Init PROVE CountInv
    OBVIOUS
  <2>1. Allocated = {Root}
    BY DirectoryAssumption DEF Init, Allocated, Inode, Root
  <2>2. Cardinality(Allocated) = 1
    BY <2>1, FS_Singleton
  <2> QED
    BY <2>2 DEF Init, CountInv
<1>2. DirInv /\ CountInv => SmallFilesCounted
  <2> SUFFICES ASSUME DirInv, CountInv, Allocated = 1..Cardinality(Allocated)
               PROVE  total_small_file_count = Cardinality(Regular)
    BY DEF SmallFilesCounted
  <2>1. InodesInUse = Cardinality(Allocated)
    BY AllocatedFinite, DirectoryAssumption DEF InodesInUse, CountInv
  <2>2. \A i \in Inode : i < InodesInUse + 1 <=> i \in Allocated
    BY <2>1, AllocatedFinite, DirectoryAssumption DEF Inode
  <2>3. \A i \in Allocated : i \in Inode /\ (i_mode[i] # "dir" <=> i_mode[i] = "file")
    BY DEF Allocated, DirInv, DirTypes, ModesInv, Modes
  <2>4. {i \in Inode : i < InodesInUse + 1 /\ i_mode[i] # "dir"} = Regular
    BY <2>2, <2>3 DEF Regular
  <2> QED
    BY <2>4 DEF total_small_file_count
<1> QED
  BY <1>1, <1>2, DirInvInit, DirInvNext, CountInvNext, PTL DEF Spec
-----------------------------------------------------------------------------
(* Listings *)

ListingFields == {"dir", "pos", "got", "stay", "removed", "done"}

\* What a listing l has done about inode i, whose entry is in slot p.
Reported(l, i, p) ==
    /\ p >= l.pos => \A k \in DOMAIN l.got : l.got[k] # i
    /\ \A j, k \in DOMAIN l.got : l.got[j] = i /\ l.got[k] = i => j = k
    /\ ~l.removed /\ p < l.pos => \E k \in DOMAIN l.got : l.got[k] = i
    /\ l.done /\ ~l.removed => p < l.pos

ListInv ==
    listing # NoListing =>
      /\ ~oops /\ torn = 0
      /\ DOMAIN listing = ListingFields /\ listing.dir \in Dirs
      /\ listing.pos \in 0..MaxSub /\ listing.got \in Seq(Inode)
      /\ listing.stay \subseteq Inode
      /\ \A i \in listing.stay : \E p \in Slot :
           files[listing.dir][p].inode = i /\ Reported(listing, i, p)

\* A step that leaves the entries of the directory being listed where they are.
LEMMA ListKept ==
    ASSUME DirInv, ListInv, listing' = listing, oops' = oops, torn' = torn,
           listing # NoListing => listing.dir \in Dirs',
           listing # NoListing =>
             \A s \in Slot : files[listing.dir][s].inode # 0 =>
               files'[listing.dir][s].inode = files[listing.dir][s].inode
    PROVE  ListInv'
<1> SUFFICES ASSUME listing # NoListing PROVE ListInv'
  BY DEF ListInv
<1>1. \A i \in listing.stay : \E p \in Slot :
        files'[listing.dir][p].inode = i /\ Reported(listing, i, p)
  <2> TAKE i \in listing.stay
  <2>1. i # 0
    BY RootIsInode DEF ListInv
  <2>2. PICK p \in Slot : files[listing.dir][p].inode = i /\ Reported(listing, i, p)
    BY DEF ListInv
  <2> QED
    BY <2>1, <2>2
<1> QED
  BY <1>1 DEF ListInv, Reported

\* A step that removes an entry from the directory being listed.
LEMMA ListShort ==
    ASSUME DirInv, ListInv, listing # NoListing, NEW ino \in Inode, NEW p \in Slot,
           files[listing.dir][p].inode = ino,
           files'[listing.dir] = RemoveEntry(files[listing.dir], ino),
           listing' = [listing EXCEPT !.stay = @ \ {ino}, !.removed = TRUE],
           oops' = oops, torn' = torn, listing.dir \in Dirs'
    PROVE  ListInv'
<1> DEFINE d == listing.dir
<1>1. /\ listing'.dir = d /\ listing'.pos = listing.pos /\ listing'.got = listing.got
      /\ listing'.done = listing.done /\ DOMAIN listing' = ListingFields
      /\ listing'.stay = listing.stay \ {ino}
  BY DEF ListInv, ListingFields
<1>2. listing'.removed
  BY DEF ListInv, ListingFields
<1>3. ~oops /\ torn = 0 /\ d \in Inode /\ listing.pos \in Nat
  BY DirectoryAssumption DEF ListInv, Dirs
<1>4. \A s \in Slot : files'[d][s] = IF s < p THEN files[d][s]
                                   ELSE IF s + 1 < MaxSub THEN files[d][s + 1] ELSE NoEntry
  BY <1>3, Removal
<1>5. ASSUME NEW i \in listing'.stay
      PROVE  \E q \in Slot : files'[d][q].inode = i /\ Reported(listing', i, q)
  <2>1. i \in listing.stay /\ i # ino
    BY <1>1
  <2>2. PICK r \in Slot : files[d][r].inode = i /\ Reported(listing, i, r)
    BY <2>1 DEF ListInv
  <2>3. r # p /\ r \in Nat /\ p \in Nat /\ MaxSub \in Nat /\ r < MaxSub
    BY <2>1, <2>2, DirectoryAssumption DEF Slot
  <2>4. PICK q \in Slot : q <= r /\ q \in Nat /\ files'[d][q] = files[d][r]
    <3>1. CASE r < p
      BY <1>4, <2>3, <3>1
    <3>2. CASE r > p
      <4>1. r - 1 \in Slot /\ ~ (r - 1 < p) /\ (r - 1) + 1 < MaxSub /\ (r - 1) + 1 = r
            /\ r - 1 <= r /\ r - 1 \in Nat
        BY <2>3, <3>2 DEF Slot
      <4> QED
        BY <1>4, <4>1
    <3> QED
      BY <2>3, <3>1, <3>2
  <2>5. q >= listing.pos => r >= listing.pos
    BY <1>3, <2>3, <2>4
  <2>6. Reported(listing', i, q)
    BY <1>1, <1>2, <2>2, <2>5 DEF Reported
  <2> QED
    BY <2>2, <2>4, <2>6
<1>6. listing'.dir \in Dirs' /\ ~oops' /\ torn' = 0
  BY <1>1, <1>3
<1>7. listing'.pos \in 0..MaxSub /\ listing'.got \in Seq(Inode) /\ listing'.stay \subseteq Inode
  BY <1>1 DEF ListInv
<1> QED
  BY <1>1, <1>5, <1>6, <1>7 DEF ListInv

LEMMA ListOpen ==
    ASSUME DirInv, NEW d \in Inode, OpenDir(d)
    PROVE  ListInv'
<1>1. ~oops /\ torn = 0 /\ d \in Dirs /\ UNCHANGED <<oops, torn, files>> /\ Dirs' = Dirs
  BY DEF OpenDir, MayCall, inodevars, Dirs
<1>2. /\ listing'.dir = d /\ listing'.pos = 0 /\ listing'.got = <<>>
      /\ DOMAIN listing' = ListingFields
      /\ listing'.stay = {files[d][s].inode : s \in Slot} \ {0}
  BY DEF OpenDir, ListingFields
<1>3. ~listing'.done
  BY DEF OpenDir
<1>4. \A s \in Slot : files[d][s].inode \in Inode \cup {0}
  BY DEF DirInv, DirTypes, Dirent, Block, Entry
<1>5. listing'.stay \subseteq Inode
  BY <1>2, <1>4
<1>6. ASSUME NEW i \in listing'.stay
      PROVE  \E p \in Slot : files'[d][p].inode = i /\ Reported(listing', i, p)
  <2>1. PICK p \in Slot : files[d][p].inode = i
    BY <1>2
  <2>2. DOMAIN listing'.got = {} /\ ~ (p < listing'.pos)
    BY <1>2, DirectoryAssumption DEF Slot
  <2>3. Reported(listing', i, p)
    BY <1>3, <2>2 DEF Reported
  <2> QED
    BY <1>1, <2>1, <2>3
<1> QED
  BY <1>1, <1>2, <1>5, <1>6, DirectoryAssumption DEF ListInv

\* Positions in a listing and in the directory.
LEMMA Positions ==
    ASSUME NEW len \in Nat, NEW some \in Nat, NEW pos \in Nat
    PROVE  /\ \A k \in (len + 1)..(len + some) : k - len \in 1..some /\ k \in Nat
           /\ \A k \in (len + 1)..(len + some), p \in Nat : pos + (k - len) - 1 = p =>
                k = len + 1 + p - pos /\ p >= pos /\ p < pos + some
           /\ \A p \in Nat : p >= pos /\ p < pos + some =>
                /\ len + 1 + p - pos \in (len + 1)..(len + some)
                /\ len + 1 + p - pos \in 1..(len + some)
                /\ pos + ((len + 1 + p - pos) - len) - 1 = p
OBVIOUS

\* One call of ouichefs_iterate reports the entries from pos on, each once.
LEMMA ListIterate ==
    ASSUME DirInv, ListInv, NEW n \in 1..MaxSub, Iterate(n)
    PROVE  ListInv'
<1> DEFINE d == listing.dir
           w == files[d]
           pos == listing.pos
           got == listing.got
           last == FirstEmpty(w, pos)
           some == Min({n, last - pos})
           more == [k \in 1..some |-> w[pos + k - 1].inode]
<1>1. listing # NoListing /\ ~oops /\ torn = 0 /\ UNCHANGED <<oops, torn, files>> /\ Dirs' = Dirs
  BY DEF Iterate, inodevars, Dirs
<1>2. /\ DOMAIN listing = ListingFields /\ d \in Dirs /\ d \in Inode /\ pos \in 0..MaxSub
      /\ got \in Seq(Inode) /\ listing.stay \subseteq Inode
  BY <1>1 DEF ListInv, Dirs
<1>3. w \in Block /\ Packed(w)
  BY <1>2 DEF DirInv, DirTypes, BlocksInv, Dirent
<1>4. /\ last \in pos..MaxSub /\ \A s \in Slot : pos <= s /\ s < last => w[s].inode # 0
      /\ \A s \in Slot : s >= last => w[s] = NoEntry
  BY <1>2, <1>3, FirstEmptyIs
<1>5. some \in Nat /\ pos + some <= last /\ (some = 0 => last = pos)
  <2>1. {n, last - pos} \in SUBSET Nat /\ n > 0
    BY <1>2, <1>4, DirectoryAssumption
  <2>2. some \in {n, last - pos} /\ some <= last - pos
    BY <2>1, MinIs
  <2> QED
    BY <1>2, <1>4, <2>1, <2>2, DirectoryAssumption
<1>6. /\ listing'.dir = d /\ listing'.pos = pos + some /\ listing'.got = got \o more
      /\ DOMAIN listing' = ListingFields /\ listing'.stay = listing.stay
  BY <1>2 DEF Iterate, ListingFields, NextPos
<1>7. listing'.removed = listing.removed /\ (listing'.done <=> some = 0)
  BY <1>2 DEF Iterate, ListingFields
<1> HIDE DEF last, some, w, pos
<1>8. \A k \in 1..some : pos + k - 1 \in Slot /\ pos + k - 1 < last /\ pos + k - 1 >= pos
  BY <1>2, <1>4, <1>5, DirectoryAssumption DEF Slot
<1>9. more \in Seq(Inode) /\ Len(more) = some
  <2>1. \A k \in 1..some : w[pos + k - 1].inode \in Inode
    BY <1>3, <1>4, <1>8 DEF Block, Entry
  <2> QED
    BY <1>5, <2>1
<1>10. \A k \in 1..some : more[k] = w[pos + k - 1].inode
  OBVIOUS
<1> HIDE DEF more
<1> DEFINE all == got \o more
           len == Len(got)
<1>11. /\ all \in Seq(Inode) /\ Len(all) = len + some /\ len \in Nat
       /\ \A k \in 1..len : all[k] = got[k]
       /\ \A k \in (len + 1)..(len + some) : all[k] = more[k - len]
  BY <1>2, <1>5, <1>9
<1>16. \A k : k \in (len + 1)..(len + some) => all[k] = more[k - len]
  BY <1>11
<1>12. DOMAIN got = 1..len /\ DOMAIN all = 1..(len + some)
  BY <1>2, <1>11
<1> HIDE DEF all, got, len
<1>13. ASSUME NEW i \in listing.stay
       PROVE  \E p \in Slot : w[p].inode = i /\ Reported(listing', i, p)
  <2>1. PICK p \in Slot : w[p].inode = i /\ Reported(listing, i, p)
    BY <1>1 DEF ListInv, w
  <2>a. /\ p >= pos => \A k \in DOMAIN got : got[k] # i
        /\ \A j, k \in DOMAIN got : got[j] = i /\ got[k] = i => j = k
        /\ ~listing.removed /\ p < pos => \E k \in DOMAIN got : got[k] = i
    BY <2>1 DEF Reported, pos, got
  <2>2. i # 0 /\ p \in Nat /\ NoEntry.inode = 0
    BY <1>2, RootIsInode DEF NoEntry
  <2>3. \A s \in Slot : w[s].inode = i => s = p
    BY <1>1, <1>2, <2>1, <2>2 DEF DirInv, TreeInv, Tree, Unique, w
  <2>4. p < last
    BY <1>2, <1>4, <2>1, <2>2, DirectoryAssumption
  \* Where the inode is in what was reported.
  <2>5. ASSUME NEW k \in DOMAIN all, all[k] = i
        PROVE  (k \in DOMAIN got /\ got[k] = i) \/ (k = len + 1 + p - pos /\ p >= pos /\ p < pos + some)
    <3>1. CASE k <= len
      BY <1>11, <1>12, <2>5, <3>1
    <3>2. CASE k > len
      <4>0. k \in (len + 1)..(len + some) /\ len \in Nat /\ some \in Nat
        BY <1>5, <1>11, <1>12, <3>2
      <4>a. k - len \in 1..some /\ k \in Nat
        BY <4>0, Positions, 0 \in Nat
      <4>1. k - len \in 1..some /\ all[k] = more[k - len] /\ k \in Nat
        BY <1>16, <4>0, <4>a
      <4>2. w[pos + (k - len) - 1].inode = i
        BY <1>10, <2>5, <4>1
      <4>3. pos + (k - len) - 1 = p
        BY <1>8, <2>3, <4>1, <4>2
      <4>4. pos \in Nat
        BY <1>2, DirectoryAssumption
      <4> QED
        BY <2>2, <4>0, <4>3, <4>4, Positions
    <3> QED
      BY <1>11, <1>12, <3>1, <3>2
  <2>6. p >= pos + some => \A k \in DOMAIN all : all[k] # i
    BY <1>2, <1>5, <2>2, <2>5, <2>a, DirectoryAssumption
  <2>7. \A j, k \in DOMAIN all : all[j] = i /\ all[k] = i => j = k
    BY <1>2, <1>5, <2>2, <2>5, <2>a, DirectoryAssumption
  <2>8. ASSUME ~listing.removed, p < pos + some PROVE \E k \in DOMAIN all : all[k] = i
    <3>1. CASE p < pos
      <4>1. PICK k \in DOMAIN got : got[k] = i
        BY <2>8, <2>a, <3>1
      <4>2. k \in DOMAIN all /\ all[k] = i
        BY <1>5, <1>11, <1>12, <4>1
      <4> QED
        BY <4>2
    <3>2. CASE p >= pos
      <4> DEFINE k == len + 1 + p - pos
      <4>0. len \in Nat /\ some \in Nat /\ pos \in Nat /\ p \in Nat /\ p >= pos /\ p < pos + some
        BY <1>2, <1>5, <1>11, <2>2, <2>8, <3>2, DirectoryAssumption
      <4>a. k \in (len + 1)..(len + some) /\ k - len \in 1..some
            /\ pos + (k - len) - 1 = p /\ k \in 1..(len + some)
        BY <4>0, Positions
      <4>1. k \in DOMAIN all /\ k \in (len + 1)..(len + some) /\ k - len \in 1..some
            /\ pos + (k - len) - 1 = p
        BY <1>12, <4>a
      <4> HIDE DEF k
      <4>2. all[k] = i
        <5>1. all[k] = more[k - len]
          BY <1>16, <4>1
        <5>2. more[k - len] = w[p].inode
          BY <1>10, <4>1
        <5> QED
          BY <2>1, <5>1, <5>2
      <4> QED
        BY <4>1, <4>2
    <3> QED
      BY <1>2, <2>2, <3>1, <3>2
  <2>9. some = 0 => p < pos + some
    BY <1>2, <1>5, <2>2, <2>4
  <2>10. Reported(listing', i, p)
    BY <1>6, <1>7, <2>6, <2>7, <2>8, <2>9 DEF Reported, all, got
  <2> QED
    BY <2>1, <2>10
<1>14. listing'.pos \in 0..MaxSub /\ listing'.got \in Seq(Inode) /\ listing'.stay \subseteq Inode
  BY <1>2, <1>4, <1>5, <1>6, <1>11, DirectoryAssumption DEF all, got
<1>15. \A i \in listing'.stay : \E p \in Slot :
         files'[listing'.dir][p].inode = i /\ Reported(listing', i, p)
  BY <1>1, <1>6, <1>13 DEF w
<1> QED
  BY <1>1, <1>2, <1>6, <1>14, <1>15 DEF ListInv

\* A reader of directory d or of directory ino, when ino leaves d.
LEMMA ListLeaves ==
    ASSUME DirInv, ListInv, ~oops, torn = 0, NEW d \in Inode, NEW ino \in Inode, NEW p \in Slot,
           files[d][p].inode = ino, listing' = Leaves(d, ino),
           files' = [files EXCEPT ![d] = RemoveEntry(@, ino)],
           i_mode' = [i_mode EXCEPT ![ino] = "none"], oops' = oops, torn' = torn, ino # d
    PROVE  ListInv'
<1>1. files \in Dirent /\ i_mode \in [Inode -> Modes]
  BY DEF DirInv, DirTypes
<1>2. files'[d] = RemoveEntry(files[d], ino) /\ \A i \in Inode \ {d} : files'[i] = files[i]
  BY <1>1 DEF Dirent
<1>3. \A i \in Dirs \ {ino} : i \in Inode /\ i \in Dirs'
  BY <1>1 DEF Dirs
<1>4. NoListing.dir = 0 /\ d # 0 /\ ino # 0
  BY RootIsInode DEF NoListing
<1>5. CASE listing.dir = d
  <2>1. listing # NoListing
    BY <1>4, <1>5
  <2>2. listing' = [listing EXCEPT !.stay = @ \ {ino}, !.removed = TRUE]
    BY <1>5 DEF Leaves
  <2>3. d \in Dirs'
    BY <1>3, <1>5, <2>1 DEF ListInv
  <2> QED
    BY <1>2, <1>5, <2>1, <2>2, <2>3, ListShort
<1>6. CASE listing.dir # d /\ listing.dir = ino
  BY <1>6 DEF Leaves, ListInv
<1>7. CASE listing.dir # d /\ listing.dir # ino
  <2>1. listing' = listing
    BY <1>7 DEF Leaves
  <2>2. listing # NoListing => listing.dir \in Dirs'
    BY <1>3, <1>7 DEF ListInv
  <2>3. listing # NoListing => files'[listing.dir] = files[listing.dir]
    BY <1>2, <1>3, <1>7 DEF ListInv
  <2> QED
    BY <2>1, <2>2, <2>3, ListKept
<1> QED
  BY <1>5, <1>6, <1>7

LEMMA ListCreate ==
    ASSUME DirInv, ListInv, NEW d \in Inode, NEW name \in Names, NEW mode \in {"file", "dir"},
           Create(d, name, mode)
    PROVE  ListInv'
<1>1. /\ ~oops /\ torn = 0 /\ i_mode[d] = "dir" /\ files[d][MaxSub - 1].inode = 0
      /\ torn' = torn /\ oops' = oops /\ listing' = listing
  BY DEF Create, MayCall, Dirs
<1>2. PICK ino \in Inode :
        /\ ino \in ifree_bitmap /\ i_mode' = [i_mode EXCEPT ![ino] = mode]
        /\ files' = [files EXCEPT ![ino] = EmptyBlock, ![d] = AddEntry(@, ino, name)]
  BY DEF Create, GetFreeInode
<1>3. files \in Dirent /\ i_mode \in [Inode -> Modes] /\ files[d] \in Block /\ Packed(files[d])
      /\ Named(files[d])
  BY DEF DirInv, DirTypes, BlocksInv, Dirent
<1>4. i_mode[ino] = "none" /\ ino # d
  BY <1>1, <1>2 DEF DirInv, ModesInv
<1>5. FirstEmpty(files[d], 0) # MaxSub
  BY <1>1, <1>3, RoomLeft
<1>6. /\ files[d][FirstEmpty(files[d], 0)].inode = 0
      /\ \A s \in Slot \ {FirstEmpty(files[d], 0)} : AddEntry(files[d], ino, name)[s] = files[d][s]
  BY <1>3, <1>5, AddEntryIs
<1>7. files'[d] = AddEntry(files[d], ino, name) /\ \A i \in Inode \ {d, ino} : files'[i] = files[i]
  BY <1>2, <1>3, <1>4 DEF Dirent
<1>8. \A i \in Dirs : i \in Inode /\ i # ino /\ i \in Dirs'
  BY <1>2, <1>3, <1>4 DEF Dirs
<1>9. \A i \in Dirs, s \in Slot : files[i][s].inode # 0 => files'[i][s].inode = files[i][s].inode
  BY <1>6, <1>7, <1>8
<1>10. listing # NoListing => listing.dir \in Dirs
  BY DEF ListInv
<1> QED
  BY <1>1, <1>8, <1>9, <1>10, ListKept

LEMMA ListRename ==
    ASSUME DirInv, ListInv, NEW d \in Inode, NEW old \in Names, Rename(d, old)
    PROVE  ListInv'
<1>1. ~oops /\ torn = 0 /\ d \in Dirs /\ Lookup(d, old) # 0
  BY DEF Rename, MayCall
<1>2. PICK new \in Names : RenameInPlace(d, old, new)
                           \/ \E e \in Dirs \ {d} : RenameAcross(d, old, e, new)
  BY DEF Rename
<1>3. listing # NoListing => listing.dir \in Dirs /\ listing.dir \in Inode
  BY DEF ListInv, Dirs
<1>4. CASE RenameInPlace(d, old, new)
  <2>1. UNCHANGED <<i_mode, listing, oops, torn>>
    BY <1>4 DEF RenameInPlace, inodevars
  <2>2. \A c \in Inode, s \in Slot : files'[c][s].inode = files[c][s].inode
    BY <1>1, <1>4, InPlaceIs
  <2>3. Dirs' = Dirs
    BY <2>1 DEF Dirs
  <2> QED
    BY <1>3, <2>1, <2>2, <2>3, ListKept
<1>5. ASSUME NEW e \in Dirs \ {d}, RenameAcross(d, old, e, new) PROVE ListInv'
  <2> DEFINE ino == Lookup(d, old)
             n == FirstEmpty(files[e], 0)
             v == AddEntry(files[e], ino, new)
  <2>1. ino \in Inode
    BY <1>1, LookupIs
  <2>2. PICK p \in Slot : files[d][p].inode = ino
    BY <1>1, LookupIs
  <2>3. n # MaxSub /\ (RemoveOld(d, ino, e, new) \/ OverrunOld(d, ino, e, new) \/ TornOld(d, ino, e, new))
    BY <1>5 DEF RenameAcross
  <2> HIDE DEF ino
  <2>4. e \in Inode /\ e # d
    BY DEF Dirs
  <2>5. files \in Dirent /\ files[e] \in Block /\ Packed(files[e]) /\ Named(files[e])
    BY <2>4 DEF DirInv, DirTypes, BlocksInv, Dirent
  <2>6. files[e][n].inode = 0 /\ \A s \in Slot \ {n} : v[s] = files[e][s]
    BY <2>1, <2>3, <2>5, AddEntryIs
  <2> HIDE DEF n, v
  <2>7. CASE RemoveOld(d, ino, e, new)
    <3>1. /\ files' = [files EXCEPT ![e] = v, ![d] = RemoveEntry(@, ino)]
          /\ listing' = IF listing.dir = d THEN Leaves(d, ino) ELSE listing
          /\ UNCHANGED <<i_mode, oops, torn>>
      BY <2>4, <2>7 DEF RemoveOld, inodevars, v
    <3>2. files'[d] = RemoveEntry(files[d], ino) /\ files'[e] = v
          /\ \A i \in Inode \ {d, e} : files'[i] = files[i]
      BY <2>4, <2>5, <3>1 DEF Dirent
    <3>3. Dirs' = Dirs
      BY <3>1 DEF Dirs
    <3>4. CASE listing.dir = d
      <4>1. listing # NoListing
        BY <3>4, RootIsInode DEF NoListing
      <4>2. listing' = [listing EXCEPT !.stay = @ \ {ino}, !.removed = TRUE]
        BY <3>1, <3>4 DEF Leaves
      <4> QED
        BY <1>1, <2>1, <2>2, <3>1, <3>2, <3>3, <3>4, <4>1, <4>2, ListShort
    <3>5. CASE listing.dir # d
      <4>1. \A i \in Inode \ {d}, s \in Slot : files[i][s].inode # 0 => files'[i][s].inode = files[i][s].inode
        BY <2>6, <3>2
      <4>2. listing' = listing
        BY <3>1, <3>5
      <4> QED
        BY <1>3, <3>1, <3>3, <3>5, <4>1, <4>2, ListKept
    <3> QED
      BY <3>4, <3>5
  <2>8. CASE OverrunOld(d, ino, e, new) \/ TornOld(d, ino, e, new)
    BY <2>8 DEF OverrunOld, TornOld, ListInv
  <2> QED
    BY <2>3, <2>7, <2>8
<1> QED
  BY <1>2, <1>4, <1>5

LEMMA ListInvNext == DirInv /\ ListInv /\ [Next]_vars => ListInv'
<1> SUFFICES ASSUME DirInv, ListInv, [Next]_vars PROVE ListInv'
  OBVIOUS
<1>1. ASSUME NEW d \in Inode, NEW name \in Names, NEW mode \in {"file", "dir"}, Create(d, name, mode)
      PROVE  ListInv'
  BY <1>1, ListCreate
<1>2. ASSUME NEW d \in Inode, NEW name \in Names, UnlinkFile(d, name) \/ Rmdir(d, name)
      PROVE  ListInv'
  <2> DEFINE ino == Lookup(d, name)
  <2>1. /\ ~oops /\ torn = 0 /\ ino \in Inode /\ Unlink(d, ino) /\ ino # d
        /\ \E p \in Slot : files[d][p].inode = ino
    BY <1>2, UnlinkApart
  <2> HIDE DEF ino
  <2>2. /\ files' = [files EXCEPT ![d] = RemoveEntry(@, ino)] /\ listing' = Leaves(d, ino)
        /\ i_mode' = [i_mode EXCEPT ![ino] = "none"] /\ oops' = oops /\ torn' = torn
    BY <2>1 DEF Unlink
  <2> QED
    BY <2>1, <2>2, ListLeaves
<1>3. ASSUME NEW d \in Inode, NEW old \in Names, Rename(d, old) PROVE ListInv'
  BY <1>3, ListRename
<1>4. ASSUME NEW d \in Inode, OpenDir(d) PROVE ListInv'
  BY <1>4, ListOpen
<1>5. ASSUME NEW n \in 1..MaxSub, Iterate(n) PROVE ListInv'
  BY <1>5, ListIterate
<1>6. CASE CloseDir
  BY <1>6 DEF CloseDir, ListInv
<1>7. CASE UNCHANGED vars
  <2>1. UNCHANGED <<i_mode, files, listing, torn, oops>>
    BY <1>7 DEF vars, inodevars
  <2> QED
    BY <2>1, ListKept DEF Dirs, ListInv
<1> QED
  BY <1>1, <1>2, <1>3, <1>4, <1>5, <1>6, <1>7 DEF Next

\* A listing by ouichefs_iterate reports a file that stays in the directory at
\* most once, and by its end exactly once if nothing was removed meanwhile,
\* however large the directory and the buffers, and whatever others create,
\* delete and move between two calls.
THEOREM ListingsReportOnce == Spec => []ListsEachOnce
<1>1. Init => ListInv
  BY DEF Init, ListInv
<1>2. ListInv => ListsEachOnce
  <2> SUFFICES ASSUME ListInv, listing # NoListing, NEW i \in listing.stay
               PROVE  /\ Times(listing.got, i) <= 1
                      /\ listing.done /\ ~listing.removed => Times(listing.got, i) = 1
    BY DEF ListsEachOnce
  <2> DEFINE got == listing.got
             at == {k \in DOMAIN got : got[k] = i}
  <2>1. PICK p \in Slot : Reported(listing, i, p)
    BY DEF ListInv
  <2>2. \A j, k \in at : j = k
    BY <2>1 DEF Reported
  <2>3. CASE at = {}
    <3>1. Times(got, i) = 0
      BY <2>3, FS_EmptySet DEF Times
    <3>2. ~ (listing.done /\ ~listing.removed)
      BY <2>1, <2>3 DEF Reported
    <3> QED
      BY <3>1, <3>2
  <2>4. CASE at # {}
    <3>1. PICK k : at = {k}
      BY <2>2, <2>4
    <3>2. Times(got, i) = 1
      BY <3>1, FS_Singleton DEF Times
    <3> QED
      BY <3>2
  <2> QED
    BY <2>3, <2>4
<1> QED
  BY <1>1, <1>2, DirInvInit, DirInvNext, ListInvNext, PTL DEF Spec
-----------------------------------------------------------------------------
(* Link counts *)

\* The inodes a block has entries for, and the directories among them.
Members(w) == {w[s].inode : s \in Slot} \ {0}
Kids(F, m, d) == {i \in Members(F[d]) : m[i] = "dir"}

LEMMA MembersAdd ==
    ASSUME NEW w \in Block, Packed(w), Named(w), FirstEmpty(w, 0) # MaxSub,
           NEW ino \in Inode, NEW name \in Names
    PROVE  Members(AddEntry(w, ino, name)) = Members(w) \cup {ino}
<1> DEFINE n == FirstEmpty(w, 0)
           v == AddEntry(w, ino, name)
<1>1. n \in Slot /\ w[n].inode = 0 /\ v[n].inode = ino /\ \A s \in Slot \ {n} : v[s] = w[s]
  BY AddEntryIs
<1>2. ino # 0
  BY RootIsInode
<1> HIDE DEF n, v
<1> QED
  BY <1>1, <1>2 DEF Members, v

LEMMA MembersRemove ==
    ASSUME DirInv, ~oops, torn = 0, NEW d \in Inode, NEW ino \in Inode, NEW p \in Slot,
           files[d][p].inode = ino
    PROVE  Members(RemoveEntry(files[d], ino)) = Members(files[d]) \ {ino}
<1> DEFINE w == files[d]
           v == RemoveEntry(w, ino)
<1>1. \A s \in Slot : v[s] = IF s < p THEN w[s] ELSE IF s + 1 < MaxSub THEN w[s + 1] ELSE NoEntry
  BY Removal
<1>2. \A s \in Slot : w[s].inode = ino => s = p
  BY RootIsInode DEF DirInv, TreeInv, Tree, Unique
<1>3. NoEntry.inode = 0 /\ ino # 0 /\ w[p].inode = ino
  BY RootIsInode DEF NoEntry
<1>4. \A s \in Slot : /\ s \in Nat /\ s < MaxSub /\ MaxSub \in Nat /\ p \in Nat
                      /\ s + 1 < MaxSub => s + 1 \in Slot
                      /\ s > p => s - 1 \in Slot /\ ~ (s - 1 < p) /\ (s - 1) + 1 < MaxSub
                                  /\ (s - 1) + 1 = s
  BY DirectoryAssumption DEF Slot
<1> HIDE DEF v, w
<1>5. ASSUME NEW s \in Slot, v[s].inode # 0
      PROVE  v[s].inode # ino /\ \E t \in Slot : w[t].inode = v[s].inode
  <2>1. CASE s < p
    BY <1>1, <1>2, <1>4, <2>1
  <2>2. CASE ~ (s < p) /\ s + 1 < MaxSub
    <3>1. s + 1 \in Slot /\ s + 1 # p /\ v[s] = w[s + 1]
      BY <1>1, <1>4, <2>2
    <3> QED
      BY <1>2, <3>1
  <2>3. CASE ~ (s < p) /\ ~ (s + 1 < MaxSub)
    BY <1>1, <1>3, <1>5, <2>3
  <2> QED
    BY <2>1, <2>2, <2>3
<1>6. ASSUME NEW t \in Slot, w[t].inode # ino
      PROVE  \E s \in Slot : v[s].inode = w[t].inode
  <2>1. CASE t < p
    BY <1>1, <2>1
  <2>2. CASE t > p
    <3>1. t - 1 \in Slot /\ v[t - 1] = w[t]
      BY <1>1, <1>4, <2>2
    <3> QED
      BY <3>1
  <2> QED
    BY <1>3, <1>4, <1>6, <2>1, <2>2
<1>7. \A i : i \in Members(v) <=> i \in Members(w) \ {ino}
  BY <1>5, <1>6 DEF Members
<1> QED
  BY <1>7 DEF v, w

LEMMA KidsFinite ==
    ASSUME NEW F \in Dirent, NEW m, NEW d \in Inode
    PROVE  IsFiniteSet(Kids(F, m, d)) /\ Cardinality(Kids(F, m, d)) \in Nat
<1>1. Kids(F, m, d) \subseteq Inode
  BY DEF Kids, Members, Dirent, Block, Entry
<1>2. IsFiniteSet(Inode)
  BY FS_Interval, DirectoryAssumption DEF Inode
<1> QED
  BY <1>1, <1>2, FS_Subset, FS_CardinalityType

\* One subdirectory more or less.
LEMMA KidsChange ==
    ASSUME NEW S, IsFiniteSet(S), Cardinality(S) \in Nat, NEW i, NEW mode
    PROVE  /\ i \notin S => Cardinality(IF mode = "dir" THEN S \cup {i} ELSE S)
                            = Cardinality(S) + (IF mode = "dir" THEN 1 ELSE 0)
           /\ (i \in S <=> mode = "dir") => Cardinality(S \ {i})
                            = Cardinality(S) - (IF mode = "dir" THEN 1 ELSE 0)
<1>1. ASSUME i \notin S PROVE Cardinality(S \cup {i}) = Cardinality(S) + 1
  BY <1>1, FS_AddElement
<1>2. /\ i \in S => Cardinality(S \ {i}) = Cardinality(S) - 1
      /\ i \notin S => Cardinality(S \ {i}) = Cardinality(S)
  BY FS_RemoveElement
<1>3. CASE mode = "dir"
  BY <1>1, <1>2, <1>3
<1>4. CASE mode # "dir"
  BY <1>2, <1>4
<1> QED
  BY <1>3, <1>4

Base(d) == IF d = Root THEN 2 ELSE 1
LinksInv ==
    ~oops /\ torn = 0 =>
      \A d \in Dirs : i_nlink[d] = Base(d) + Cardinality(Kids(files, i_mode, d))

\* inode_inc_link_count and inode_dec_link_count, when a directory comes or goes.
LEMMA LinkCountIs ==
    ASSUME NEW links \in [Inode -> Int], NEW d \in Inode, NEW mode, NEW n \in Int
    PROVE  /\ LinkCount(links, d, mode, n) \in [Inode -> Int]
           /\ LinkCount(links, d, mode, n)[d] = links[d] + (IF mode = "dir" THEN n ELSE 0)
           /\ \A i \in Inode \ {d} : LinkCount(links, d, mode, n)[i] = links[i]
BY DEF LinkCount

LEMMA LinksCreate ==
    ASSUME DirInv, LinksInv, NEW d \in Inode, NEW name \in Names, NEW mode \in {"file", "dir"},
           Create(d, name, mode)
    PROVE  LinksInv'
<1>1. /\ ~oops /\ torn = 0 /\ d \in Dirs /\ files[d][MaxSub - 1].inode = 0
      /\ torn' = torn /\ oops' = oops
  BY DEF Create, MayCall
<1>2. PICK ino \in Inode :
        /\ ino \in ifree_bitmap /\ i_mode' = [i_mode EXCEPT ![ino] = mode]
        /\ i_nlink' = LinkCount([i_nlink EXCEPT ![ino] = 1], d, mode, 1)
        /\ files' = [files EXCEPT ![ino] = EmptyBlock, ![d] = AddEntry(@, ino, name)]
  BY DEF Create, GetFreeInode
<1>3. files \in Dirent /\ i_mode \in [Inode -> Modes] /\ files[d] \in Block /\ Packed(files[d])
      /\ Named(files[d]) /\ i_nlink \in [Inode -> Int]
  BY DEF DirInv, DirTypes, BlocksInv, Dirent
<1>4. i_mode[ino] = "none" /\ ino # d /\ ino # Root /\ ino # 0
  BY <1>1, <1>2, RootIsInode DEF DirInv, ModesInv, Dirs
<1>5. FirstEmpty(files[d], 0) # MaxSub
  BY <1>1, <1>3, RoomLeft
<1>6. /\ files'[d] = AddEntry(files[d], ino, name) /\ files'[ino] = EmptyBlock
      /\ \A i \in Inode \ {d, ino} : files'[i] = files[i]
  BY <1>2, <1>3, <1>4 DEF Dirent
<1>7. i_mode'[ino] = mode /\ \A i \in Inode \ {ino} : i_mode'[i] = i_mode[i]
  BY <1>2, <1>3
<1>8. \A c \in Inode : Members(files[c]) \subseteq Inode \ {ino}
  <2>1. \A c \in Inode, s \in Slot : files[c][s].inode # ino /\ files[c][s].inode \in Inode \cup {0}
    BY <1>1, <1>3, <1>4 DEF DirInv, TreeInv, Tree, Valid, Dirent, Block, Entry
  <2> QED
    BY <2>1 DEF Members
<1>9. Members(files'[d]) = Members(files[d]) \cup {ino} /\ Members(files'[ino]) = {}
  <2>1. Members(files'[d]) = Members(files[d]) \cup {ino}
    BY <1>3, <1>5, <1>6, MembersAdd
  <2>2. Members(EmptyBlock) = {}
    BY EmptyBlockIs DEF Members
  <2> QED
    BY <1>6, <2>1, <2>2
<1>10. \A c \in Inode \ {d, ino} : Kids(files', i_mode', c) = Kids(files, i_mode, c)
  BY <1>6, <1>7, <1>8 DEF Kids
<1>11. Kids(files', i_mode', ino) = {}
  BY <1>9 DEF Kids
<1>12. Kids(files', i_mode', d) = IF mode = "dir" THEN Kids(files, i_mode, d) \cup {ino}
                                  ELSE Kids(files, i_mode, d)
  BY <1>7, <1>8, <1>9 DEF Kids
<1>13. ino \notin Kids(files, i_mode, d)
  BY <1>8 DEF Kids
<1>14. Cardinality(Kids(files', i_mode', d))
       = Cardinality(Kids(files, i_mode, d)) + (IF mode = "dir" THEN 1 ELSE 0)
  BY <1>3, <1>12, <1>13, KidsFinite, KidsChange
<1>15. /\ i_nlink'[ino] = 1 /\ i_nlink'[d] = i_nlink[d] + (IF mode = "dir" THEN 1 ELSE 0)
       /\ \A i \in Inode \ {d, ino} : i_nlink'[i] = i_nlink[i]
  <2> DEFINE links == [i_nlink EXCEPT ![ino] = 1]
  <2>1. links \in [Inode -> Int] /\ links[ino] = 1 /\ \A i \in Inode \ {ino} : links[i] = i_nlink[i]
    BY <1>3
  <2> HIDE DEF links
  <2>2. i_nlink' = LinkCount(links, d, mode, 1)
    BY <1>2 DEF links
  <2> QED
    BY <1>4, <2>1, <2>2, LinkCountIs, 1 \in Int
<1>16. ASSUME NEW c \in Dirs' PROVE i_nlink'[c] = Base(c) + Cardinality(Kids(files', i_mode', c))
  <2>1. c \in Inode
    BY DEF Dirs
  <2>2. CASE c = ino
    BY <1>4, <1>11, <1>15, <2>2, FS_EmptySet DEF Base
  <2>3. CASE c = d
    <3>1. i_nlink[d] = Base(d) + Cardinality(Kids(files, i_mode, d)) /\ Base(d) \in Int
      BY <1>1 DEF LinksInv, Base
    <3> QED
      BY <1>3, <1>14, <1>15, <2>3, <3>1, KidsFinite
  <2>4. CASE c # ino /\ c # d
    <3>1. c \in Dirs
      BY <1>7, <2>1, <2>4 DEF Dirs
    <3> QED
      BY <1>1, <1>10, <1>15, <2>1, <2>4, <3>1 DEF LinksInv
  <2> QED
    BY <2>2, <2>3, <2>4
<1> QED
  BY <1>16 DEF LinksInv

LEMMA LinksUnlink ==
    ASSUME DirInv, LinksInv, ~oops, torn = 0, NEW d \in Inode, NEW ino \in Inode, NEW p \in Slot,
           files[d][p].inode = ino, Unlink(d, ino), ino # d
    PROVE  LinksInv'
<1>1. /\ files' = [files EXCEPT ![d] = RemoveEntry(@, ino)]
      /\ i_nlink' = LinkCount([i_nlink EXCEPT ![ino] = @ - 1], d, i_mode[ino], -1)
      /\ i_mode' = [i_mode EXCEPT ![ino] = "none"]
  BY DEF Unlink
<1>2. files \in Dirent /\ i_mode \in [Inode -> Modes] /\ i_nlink \in [Inode -> Int]
  BY DEF DirInv, DirTypes
<1>3. files'[d] = RemoveEntry(files[d], ino) /\ \A i \in Inode \ {d} : files'[i] = files[i]
  BY <1>1, <1>2 DEF Dirent
<1>4. i_mode'[ino] = "none" /\ \A i \in Inode \ {ino} : i_mode'[i] = i_mode[i]
  BY <1>1, <1>2
<1>5. \A c \in Inode \ {d} : ino \notin Members(files[c])
  BY RootIsInode DEF DirInv, TreeInv, Tree, Unique, Members
<1>6. \A c \in Inode : Members(files[c]) \subseteq Inode
  BY <1>2 DEF Members, Dirent, Block, Entry
<1>7. Members(files'[d]) = Members(files[d]) \ {ino} /\ ino \in Members(files[d])
  <2>1. Members(files'[d]) = Members(files[d]) \ {ino}
    BY <1>3, MembersRemove
  <2>2. ino \in Members(files[d])
    BY RootIsInode DEF Members
  <2> QED
    BY <2>1, <2>2
<1>8. \A c \in Inode \ {d} : Kids(files', i_mode', c) = Kids(files, i_mode, c)
  BY <1>3, <1>4, <1>5, <1>6 DEF Kids
<1>9. Kids(files', i_mode', d) = Kids(files, i_mode, d) \ {ino}
      /\ (ino \in Kids(files, i_mode, d) <=> i_mode[ino] = "dir")
  BY <1>4, <1>6, <1>7 DEF Kids
<1>10. Cardinality(Kids(files', i_mode', d))
       = Cardinality(Kids(files, i_mode, d)) + (IF i_mode[ino] = "dir" THEN -1 ELSE 0)
  <2>1. Cardinality(Kids(files, i_mode, d)) \in Nat /\ IsFiniteSet(Kids(files, i_mode, d))
    BY <1>2, KidsFinite
  <2> QED
    BY <1>9, <2>1, KidsChange
<1>11. /\ i_nlink'[d] = i_nlink[d] + (IF i_mode[ino] = "dir" THEN -1 ELSE 0)
       /\ \A i \in Inode \ {d, ino} : i_nlink'[i] = i_nlink[i]
  <2> DEFINE links == [i_nlink EXCEPT ![ino] = @ - 1]
  <2>1. links \in [Inode -> Int] /\ \A i \in Inode \ {ino} : links[i] = i_nlink[i]
    BY <1>2
  <2> HIDE DEF links
  <2>2. i_nlink' = LinkCount(links, d, i_mode[ino], -1)
    BY <1>1 DEF links
  <2> QED
    BY <2>1, <2>2, LinkCountIs, -1 \in Int
<1>12. ASSUME NEW c \in Dirs' PROVE i_nlink'[c] = Base(c) + Cardinality(Kids(files', i_mode', c))
  <2>1. c \in Inode /\ c # ino /\ c \in Dirs
    BY <1>4 DEF Dirs
  <2>2. CASE c = d
    <3>1. i_nlink[d] = Base(d) + Cardinality(Kids(files, i_mode, d)) /\ Base(d) \in Int
      BY <2>1, <2>2 DEF LinksInv, Base
    <3> QED
      BY <1>2, <1>10, <1>11, <2>2, <3>1, KidsFinite
  <2>3. CASE c # d
    BY <1>8, <1>11, <2>1, <2>3 DEF LinksInv
  <2> QED
    BY <2>2, <2>3
<1> QED
  BY <1>12 DEF LinksInv

LEMMA LinksRename ==
    ASSUME DirInv, LinksInv, NEW d \in Inode, NEW old \in Names, Rename(d, old)
    PROVE  LinksInv'
<1>1. ~oops /\ torn = 0 /\ d \in Dirs /\ Lookup(d, old) # 0
  BY DEF Rename, MayCall
<1>2. PICK new \in Names : RenameInPlace(d, old, new)
                           \/ \E e \in Dirs \ {d} : RenameAcross(d, old, e, new)
  BY DEF Rename
<1>3. files \in Dirent /\ i_mode \in [Inode -> Modes] /\ i_nlink \in [Inode -> Int]
  BY DEF DirInv, DirTypes
<1>4. CASE RenameInPlace(d, old, new)
  <2>1. UNCHANGED <<i_mode, i_nlink, oops, torn>>
    BY <1>4 DEF RenameInPlace, inodevars
  <2>2. \A c \in Inode, s \in Slot : files'[c][s].inode = files[c][s].inode
    BY <1>1, <1>4, InPlaceIs
  <2>3. \A c \in Inode : Kids(files', i_mode', c) = Kids(files, i_mode, c)
    BY <2>1, <2>2 DEF Kids, Members
  <2> QED
    BY <2>1, <2>3 DEF LinksInv, Dirs
<1>5. ASSUME NEW e \in Dirs \ {d}, RenameAcross(d, old, e, new) PROVE LinksInv'
  <2> DEFINE ino == Lookup(d, old)
             v == AddEntry(files[e], ino, new)
             k == IF i_mode[ino] = "dir" THEN 1 ELSE 0
  <2>1. ino \in Inode
    BY <1>1, LookupIs
  <2>2. PICK p \in Slot : files[d][p].inode = ino
    BY <1>1, LookupIs
  <2>3. /\ FirstEmpty(files[e], 0) # MaxSub
        /\ RemoveOld(d, ino, e, new) \/ OverrunOld(d, ino, e, new) \/ TornOld(d, ino, e, new)
    BY <1>5 DEF RenameAcross
  <2> HIDE DEF ino
  <2>4. e \in Inode /\ e # d /\ ino # 0
    BY <2>1, RootIsInode DEF Dirs
  <2>5. files[e] \in Block /\ Packed(files[e]) /\ Named(files[e])
    BY <1>3, <2>4 DEF DirInv, BlocksInv, Dirent
  <2>6. Members(v) = Members(files[e]) \cup {ino}
    BY <2>1, <2>3, <2>5, MembersAdd
  <2> HIDE DEF v
  <2>7. CASE RemoveOld(d, ino, e, new)
    <3>1. /\ files' = [files EXCEPT ![e] = v, ![d] = RemoveEntry(@, ino)]
          /\ i_nlink' = LinkCount(LinkCount(i_nlink, e, i_mode[ino], 1), d, i_mode[ino], -1)
          /\ UNCHANGED <<i_mode, oops, torn>>
      BY <2>4, <2>7 DEF RemoveOld, inodevars, v
    <3>2. files'[d] = RemoveEntry(files[d], ino) /\ files'[e] = v
          /\ \A i \in Inode \ {d, e} : files'[i] = files[i]
      BY <1>3, <2>4, <3>1 DEF Dirent
    <3>3. Members(files'[d]) = Members(files[d]) \ {ino} /\ ino \in Members(files[d])
      BY <1>1, <2>1, <2>2, <2>4, <3>2, MembersRemove DEF Members
    <3>4. ino \notin Members(files[e])
      BY <1>1, <2>2, <2>4 DEF DirInv, TreeInv, Tree, Unique, Members
    <3>5. \A c \in Inode \ {d, e} : Kids(files', i_mode', c) = Kids(files, i_mode, c)
      BY <3>1, <3>2 DEF Kids
    <3>6. /\ Kids(files', i_mode', d) = Kids(files, i_mode, d) \ {ino}
          /\ ino \in Kids(files, i_mode, d) <=> i_mode[ino] = "dir"
      BY <3>1, <3>3 DEF Kids
    <3>7. /\ Kids(files', i_mode', e) = IF i_mode[ino] = "dir" THEN Kids(files, i_mode, e) \cup {ino}
                                        ELSE Kids(files, i_mode, e)
          /\ ino \notin Kids(files, i_mode, e)
      BY <2>6, <3>1, <3>2, <3>4 DEF Kids
    <3>8. Cardinality(Kids(files', i_mode', d)) = Cardinality(Kids(files, i_mode, d)) - k
      BY <1>3, <3>6, KidsFinite, KidsChange
    <3>9. Cardinality(Kids(files', i_mode', e)) = Cardinality(Kids(files, i_mode, e)) + k
      BY <1>3, <2>4, <3>7, KidsFinite, KidsChange
    <3>10. /\ i_nlink'[d] = i_nlink[d] - k /\ i_nlink'[e] = i_nlink[e] + k
           /\ \A i \in Inode \ {d, e} : i_nlink'[i] = i_nlink[i]
      <4> DEFINE links == LinkCount(i_nlink, e, i_mode[ino], 1)
      <4>1. links \in [Inode -> Int] /\ links[e] = i_nlink[e] + k
            /\ \A i \in Inode \ {e} : links[i] = i_nlink[i]
        BY <1>3, <2>4, LinkCountIs, 1 \in Int
      <4> HIDE DEF links
      <4>2. i_nlink' = LinkCount(links, d, i_mode[ino], -1)
        BY <3>1 DEF links
      <4>3. i_nlink'[d] = links[d] + (IF i_mode[ino] = "dir" THEN -1 ELSE 0)
            /\ \A i \in Inode \ {d} : i_nlink'[i] = links[i]
        BY <4>1, <4>2, LinkCountIs, -1 \in Int
      <4> QED
        BY <1>3, <2>4, <4>1, <4>3
    <3> HIDE DEF k
    <3>11. k \in Int
      BY DEF k
    <3>12. ASSUME NEW c \in Dirs' PROVE i_nlink'[c] = Base(c) + Cardinality(Kids(files', i_mode', c))
      <4>1. c \in Inode /\ c \in Dirs
        BY <3>1 DEF Dirs
      <4>2. /\ i_nlink[c] = Base(c) + Cardinality(Kids(files, i_mode, c)) /\ Base(c) \in Int
            /\ Cardinality(Kids(files, i_mode, c)) \in Nat
        BY <1>1, <1>3, <4>1, KidsFinite DEF LinksInv, Base
      <4>3. CASE c = d
        BY <3>8, <3>10, <3>11, <4>2, <4>3
      <4>4. CASE c = e
        BY <3>9, <3>10, <3>11, <4>2, <4>4
      <4>5. CASE c # d /\ c # e
        BY <3>5, <3>10, <4>1, <4>2, <4>5
      <4> QED
        BY <4>3, <4>4, <4>5
    <3> QED
      BY <3>12 DEF LinksInv
  <2>8. CASE OverrunOld(d, ino, e, new)
    BY <2>8 DEF OverrunOld, LinksInv
  <2>9. CASE TornOld(d, ino, e, new)
    BY <2>4, <2>9 DEF TornOld, LinksInv
  <2> QED
    BY <2>3, <2>7, <2>8, <2>9
<1> QED
  BY <1>2, <1>4, <1>5

LEMMA LinksInvNext == DirInv /\ LinksInv /\ [Next]_vars => LinksInv'
<1> SUFFICES ASSUME DirInv, LinksInv, [Next]_vars PROVE LinksInv'
  OBVIOUS
<1>1. ASSUME NEW d \in Inode, NEW name \in Names, NEW mode \in {"file", "dir"}, Create(d, name, mode)
      PROVE  LinksInv'
  BY <1>1, LinksCreate
<1>2. ASSUME NEW d \in Inode, NEW name \in Names, UnlinkFile(d, name) \/ Rmdir(d, name)
      PROVE  LinksInv'
  BY <1>2, UnlinkApart, LinksUnlink
<1>3. ASSUME NEW d \in Inode, NEW old \in Names, Rename(d, old) PROVE LinksInv'
  BY <1>3, LinksRename
<1>4. CASE UNCHANGED <<inodevars, i_nlink, files, torn, oops>>
  BY <1>4 DEF inodevars, LinksInv, Dirs
<1> QED
  BY <1>1, <1>2, <1>3, <1>4 DEF Next, OpenDir, Iterate, CloseDir, vars

\* The link count of every directory is that of an empty one and one for each
\* subdirectory, through ouichefs_mkdir, ouichefs_rmdir and the moves of
\* ouichefs_rename that get to their end.
THEOREM LinksAreCounted == Spec => []LinksCountSubdirs
<1>1. Init => LinksInv
  <2> SUFFICES ASSUME Init, NEW d \in Dirs
               PROVE  i_nlink[d] = Base(d) + Cardinality(Kids(files, i_mode, d))
    BY DEF LinksInv
  <2>1. d = Root /\ i_nlink[d] = 2
    BY DEF Init, Dirs
  <2>2. files[d] = EmptyBlock
    BY <2>1, RootIsInode DEF Init
  <2>3. Kids(files, i_mode, d) = {}
    BY <2>2, EmptyBlockIs DEF Kids, Members
  <2> QED
    BY <2>1, <2>3, FS_EmptySet DEF Base
<1>2. DirInv /\ LinksInv => LinksCountSubdirs
  <2> SUFFICES ASSUME DirInv, LinksInv, ~oops, torn = 0, NEW d \in Dirs
               PROVE  i_nlink[d] = (IF d = Root THEN 2 ELSE 1) + Cardinality(Subdirs(d))
    BY DEF LinksCountSubdirs
  <2> DEFINE S == Subdirs(d)
             T == Kids(files, i_mode, d)
             f == [s \in S |-> files[d][s].inode]
  <2>1. d \in Inode
    BY DEF Dirs
  <2>2. S \subseteq Slot /\ IsFiniteSet(S)
    <3>1. IsFiniteSet(Slot) /\ S \subseteq Slot
      BY FS_Interval, DirectoryAssumption DEF Slot, Subdirs
    <3> QED
      BY <3>1, FS_Subset
  <2>3. \A s \in S : files[d][s].inode # 0 /\ files[d][s].inode \in T
    BY DEF Subdirs, Kids, Members
  <2>4. \A s, t \in S : files[d][s].inode = files[d][t].inode => s = t
    BY <2>1, <2>2, <2>3 DEF DirInv, TreeInv, Tree, Unique
  <2>5. \A i \in T : \E s \in S : files[d][s].inode = i
    BY DEF Subdirs, Kids, Members
  <2> HIDE DEF S, T
  <2>6. f \in [S -> T] /\ \A s \in S : f[s] = files[d][s].inode
    BY <2>3
  <2> HIDE DEF f
  <2>7. f \in Bijection(S, T)
    BY <2>4, <2>5, <2>6 DEF Bijection, Injection, Surjection, IsInjective
  <2>8. Cardinality(T) = Cardinality(S)
    BY <2>2, <2>7, FS_Bijection DEF ExistsBijection
  <2> QED
    BY <2>8 DEF LinksInv, Base, S, T
<1> QED
  BY <1>1, <1>2, DirInvInit, DirInvNext, LinksInvNext, PTL DEF Spec
=============================================================================
