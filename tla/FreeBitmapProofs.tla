-------------------------- MODULE FreeBitmapProofs ---------------------------
(***************************************************************************)
(* What the unlocked bitmap keeps for every number of threads, words and   *)
(* bits per word and every interleaving of their loads and stores: damage  *)
(* stays in the words whose updates collided.                              *)
(***************************************************************************)
EXTENDS FreeBitmap, FiniteSetTheorems, TLAPS

\* Threads that were given their block, or have yet to put it back.
HasBlock(t) == pc[t] \in {"count_get", "done_get", "set", "store_put"}

\* A bit is kept in its own word, also in the copy a thread has loaded.
InPlace ==
    /\ \A w \in Words : \A b \in freemap[w] : WordOf(b) = w
    /\ \A t \in Threads : pc[t] \in {"store_get", "store_put"} =>
         \A b \in tmp[t] : WordOf(b) = WordOf(at[t])

\* The bit at hand is a managed block.
AtHand == \A t \in Threads : pc[t] \notin {"idle", "find"} => at[t] \in Managed

\* In a word without collisions the block at hand is nobody else's.
Apart ==
    \A t \in Threads :
        HasBlock(t) /\ WordOf(at[t]) \notin raced =>
            /\ at[t] \notin FreeBits
            /\ \A u \in Threads : at[t] \notin owned[u]
            /\ \A u \in Threads \ {t} : HasBlock(u) => at[u] # at[t]

\* In a word without collisions every block is free, someone's, or at hand.
Accounted ==
    \A b \in Managed :
        \/ WordOf(b) \in raced
        \/ b \in FreeBits
        \/ \E t \in Threads : b \in owned[t] \/ (HasBlock(t) /\ at[t] = b)

Inv == TypeOK /\ InPlace /\ AtHand /\ Apart /\ DamageStaysInWord /\ Accounted

\* The threads that have cleared or set their bit and not counted it yet.
Getting == {t \in Threads : pc[t] \in {"count_get", "done_get"}}
Putting == {t \in Threads : pc[t] \in {"count_put", "done_put"}}

\* The counter lags behind the bitmap by the updates under way, up to a wrap.
Lags(n, f, g, p) == \E k \in Int : n = f + g - p + k * CounterEnd

Counting ==
    raced = {} /\ ~miscounted =>
        Lags(nr_free_blocks, Cardinality(FreeBits), Cardinality(Getting), Cardinality(Putting))

IInv == Inv /\ Counting
-----------------------------------------------------------------------------
\* The bits of word w are the ones whose number divided by the word size is w.
LEMMA DivBits ==
    ASSUME NEW k \in Nat \ {0}, NEW w \in Nat, NEW b \in (w * k)..(w * k + k - 1)
    PROVE  b \div k = w
OBVIOUS

\* A block number of the partition has a word.
LEMMA ManagedWord ==
    ASSUME NEW b \in Managed
    PROVE  WordOf(b) \in Words
BY BitmapAssumption DEF Managed, WordOf, Words

\* The bitmap as mkfs leaves it, with nobody inside.
LEMMA InvInit == Init => Inv /\ FreeBits = Managed
<1> SUFFICES ASSUME Init PROVE Inv /\ FreeBits = Managed
  OBVIOUS
<1>1. ASSUME NEW w \in Words, NEW b \in freemap[w]
      PROVE  b \in Managed /\ WordOf(b) = w
  <2>1. b \in Bits(w) /\ b >= Reserved /\ w \in Nat /\ w <= NrWords - 1
    BY <1>1, BitmapAssumption DEF Init, Words
  <2>2. WordOf(b) = w
    BY <2>1, DivBits, BitmapAssumption DEF Bits, WordOf
  <2>3. w * WordBits + WordBits <= NrWords * WordBits
    BY <2>1, BitmapAssumption
  <2> QED
    BY <2>1, <2>2, <2>3, BitmapAssumption DEF Bits, Managed
<1>2. freemap \in [Words -> SUBSET Managed]
  BY <1>1 DEF Init
<1>3. nr_free_blocks \in 0..(CounterEnd - 1) /\ 0 \in 0..(CounterEnd - 1)
  BY BitmapAssumption DEF Init
<1>4. TypeOK
  BY <1>2, <1>3 DEF Init, TypeOK
<1>5. InPlace
  BY <1>1 DEF InPlace, Init
<1>6. AtHand /\ Apart /\ DamageStaysInWord
  BY DEF Init, AtHand, Apart, DamageStaysInWord, HasBlock
<1>7. ASSUME NEW b \in Managed PROVE b \in FreeBits
  <2>1. WordOf(b) \in Words /\ b \in Nat /\ b >= Reserved
    BY ManagedWord, BitmapAssumption DEF Managed
  <2>2. b \in Bits(WordOf(b))
    BY <2>1, BitmapAssumption DEF Bits, WordOf, Words
  <2> QED
    BY <2>1, <2>2 DEF Init, FreeBits
<1>8. FreeBits = Managed
  BY <1>4, <1>7 DEF TypeOK, FreeBits
<1> QED
  BY <1>4, <1>5, <1>6, <1>7, <1>8 DEF Inv, Accounted

\* A store touches the bits of its own word only, and keeps them in place.
LEMMA OtherWords ==
    ASSUME TypeOK, InPlace, NEW t \in Threads,
           ClearStore(t) \/ SetStore(t), at[t] \in Managed
    PROVE  /\ freemap' \in [Words -> SUBSET Managed] /\ InPlace'
           /\ \A b \in Managed : WordOf(b) # WordOf(at[t]) => (b \in FreeBits' <=> b \in FreeBits)
<1>1. WordOf(at[t]) \in Words
  BY ManagedWord
<1>2. /\ freemap' \in [Words -> SUBSET Managed]
      /\ \A w \in Words : w # WordOf(at[t]) => freemap'[w] = freemap[w]
  BY <1>1 DEF ClearStore, SetStore, TypeOK
<1>3. \A b \in freemap'[WordOf(at[t])] : WordOf(b) = WordOf(at[t])
  BY <1>1 DEF ClearStore, SetStore, TypeOK, InPlace
<1>4. \A w \in Words : \A b \in freemap'[w] : WordOf(b) = w
  BY <1>2, <1>3 DEF InPlace
<1>5. InPlace'
  <2>1. /\ at' = at /\ tmp' = tmp
        /\ \A u \in Threads : pc'[u] \in {"store_get", "store_put"} => pc[u] = pc'[u]
    BY DEF ClearStore, SetStore, Goto, TypeOK
  <2> QED
    BY <1>4, <2>1 DEF InPlace, WordOf
<1>6. ASSUME NEW b \in Managed, WordOf(b) # WordOf(at[t])
      PROVE  b \in FreeBits' <=> b \in FreeBits
  <2>1. b \in FreeBits => b \in FreeBits'
    BY <1>2, <1>6 DEF FreeBits, InPlace
  <2>2. b \in FreeBits' => b \in FreeBits
    BY <1>2, <1>3, <1>6 DEF FreeBits
  <2> QED
    BY <2>1, <2>2
<1> QED
  BY <1>2, <1>5, <1>6

\* bitmap_clear without a collision takes one free bit out of the bitmap.
LEMMA ClearFree ==
    ASSUME TypeOK, InPlace, NEW t \in Threads, ClearStore(t), at[t] \in Managed,
           WordOf(at[t]) \notin raced'
    PROVE  FreeBits' = FreeBits \ {at[t]} /\ at[t] \in FreeBits /\ raced' = raced
<1>1. WordOf(at[t]) \in Words
  BY ManagedWord
<1>2. tmp[t] = freemap[WordOf(at[t])] /\ at[t] \in tmp[t] /\ raced' = raced
  BY DEF ClearStore, Collide
<1>3. freemap' = [freemap EXCEPT ![WordOf(at[t])] = freemap[WordOf(at[t])] \ {at[t]}]
  BY <1>2 DEF ClearStore
<1>4. \A w \in Words : freemap'[w] = freemap[w] \ {at[t]}
  BY <1>1, <1>3 DEF TypeOK, InPlace
<1> QED
  BY <1>1, <1>2, <1>4 DEF FreeBits

\* bitmap_set without a collision adds its bit to the bitmap.
LEMMA SetFree ==
    ASSUME TypeOK, InPlace, NEW t \in Threads, SetStore(t), at[t] \in Managed,
           WordOf(at[t]) \notin raced'
    PROVE  FreeBits' = FreeBits \cup {at[t]} /\ raced' = raced
<1>1. WordOf(at[t]) \in Words
  BY ManagedWord
<1>2. tmp[t] = freemap[WordOf(at[t])] /\ raced' = raced
  BY DEF SetStore, Collide
<1>3. freemap' = [freemap EXCEPT ![WordOf(at[t])] = freemap[WordOf(at[t])] \cup {at[t]}]
  BY <1>2 DEF SetStore
<1>4. /\ \A w \in Words : w # WordOf(at[t]) => freemap'[w] = freemap[w]
      /\ freemap'[WordOf(at[t])] = freemap[WordOf(at[t])] \cup {at[t]}
  BY <1>1, <1>3 DEF TypeOK
<1> QED
  BY <1>1, <1>2, <1>4 DEF FreeBits

\* Counting up and down stays in the counter's type.
LEMMA CounterType ==
    ASSUME NEW n \in 0..(CounterEnd - 1)
    PROVE  Less(n) \in 0..(CounterEnd - 1) /\ More(n) \in 0..(CounterEnd - 1)
BY BitmapAssumption DEF Less, More

\* Steps that move no block and store no word keep the invariant.
LEMMA QuietNext ==
    ASSUME Inv, NEW t \in Threads,
           \/ GetCall(t) \/ FindNext(t) \/ FindHit(t) \/ FindNone(t) \/ ClearLoad(t)
           \/ SetLoad(t) \/ CountGet(t) \/ CountPut(t) \/ DonePut(t)
    PROVE  Inv'
<1>a. TypeOK /\ InPlace /\ AtHand /\ Apart /\ DamageStaysInWord /\ Accounted
  BY DEF Inv
<1>1. freemap' = freemap /\ owned' = owned /\ raced' = raced
  BY DEF GetCall, FindNext, FindHit, FindNone, ClearLoad, SetLoad, CountGet, CountPut, DonePut
<1>2. /\ \A u \in Threads : HasBlock(u)' <=> HasBlock(u)
      /\ \A u \in Threads : HasBlock(u) => at'[u] = at[u]
  BY <1>a DEF HasBlock, TypeOK, Goto, Return, GetCall, FindNext, FindHit, FindNone,
     ClearLoad, SetLoad, CountGet, CountPut, DonePut
<1>3. nr_free_blocks' \in 0..(CounterEnd - 1)
  BY <1>a, CounterType DEF TypeOK, GetCall, FindNext, FindHit, FindNone, ClearLoad,
     SetLoad, CountGet, CountPut, DonePut
<1>4. miscounted' \in BOOLEAN
  <2>1. CASE DonePut(t)
    BY <2>1, Zenon DEF DonePut
  <2>2. CASE ~DonePut(t)
    <3>1. miscounted' = miscounted
      BY <2>2 DEF GetCall, FindNext, FindHit, FindNone, ClearLoad, SetLoad, CountGet, CountPut
    <3> QED
      BY <1>a, <3>1, Zenon DEF TypeOK
  <2> QED
    BY <2>1, <2>2
<1>5. at' \in [Threads -> Nat] /\ AtHand'
  <2>1. CASE FindHit(t)
    <3>1. PICK b \in freemap[at[t]] : at' = [at EXCEPT ![t] = b]
      BY <2>1 DEF FindHit
    <3>2. b \in Managed /\ b \in Nat
      BY <1>a, <2>1, <3>1, BitmapAssumption DEF FindHit, TypeOK, Managed
    <3>3. at'[t] = b /\ \A u \in Threads : u # t => at'[u] = at[u] /\ pc'[u] = pc[u]
      BY <1>a, <2>1, <3>1 DEF FindHit, Goto, TypeOK
    <3> QED
      BY <1>a, <3>1, <3>2, <3>3 DEF TypeOK, AtHand
  <2>2. CASE FindNext(t)
    BY <1>a, <2>2 DEF FindNext, TypeOK, AtHand
  <2>3. CASE ~FindHit(t) /\ ~FindNext(t)
    BY <1>a, <2>3 DEF TypeOK, AtHand, Goto, Return, GetCall, FindNone, ClearLoad, SetLoad,
       CountGet, CountPut, DonePut
  <2> QED
    BY <2>1, <2>2, <2>3
<1>6. tmp' \in [Threads -> SUBSET Managed] /\ InPlace'
  <2>1. CASE ClearLoad(t) \/ SetLoad(t)
    <3>1. WordOf(at[t]) \in Words
      BY <1>a, <2>1, ManagedWord DEF ClearLoad, SetLoad, AtHand
    <3>2. tmp' \in [Threads -> SUBSET Managed]
      BY <1>a, <2>1, <3>1 DEF ClearLoad, SetLoad, TypeOK
    <3>3. /\ at' = at /\ tmp'[t] = freemap[WordOf(at[t])]
          /\ \A u \in Threads : u # t => tmp'[u] = tmp[u] /\ pc'[u] = pc[u]
      BY <1>a, <2>1 DEF ClearLoad, SetLoad, TypeOK, Goto
    <3> QED
      BY <1>1, <1>a, <3>1, <3>2, <3>3 DEF InPlace, WordOf
  <2>2. CASE ~(ClearLoad(t) \/ SetLoad(t))
    BY <1>1, <1>a, <2>2 DEF InPlace, WordOf, TypeOK, Goto, Return, GetCall, FindNext, FindHit,
       FindNone, CountGet, CountPut, DonePut
  <2> QED
    BY <2>1, <2>2
<1>7. TypeOK'
  <2>1. count' \in [Threads -> 0..(CounterEnd - 1)]
    <3>1. 0 \in 0..(CounterEnd - 1)
      BY BitmapAssumption
    <3> QED
      BY <3>1, <1>a DEF TypeOK, Return, GetCall, FindNext, FindHit, FindNone, ClearLoad,
         SetLoad, CountGet, CountPut, DonePut
  <2>2. pc' \in [Threads -> {"idle", "find", "clear", "store_get", "count_get", "done_get",
                             "set", "store_put", "count_put", "done_put"}]
    BY <1>a DEF TypeOK, Goto, Return, GetCall, FindNext, FindHit, FindNone, ClearLoad,
       SetLoad, CountGet, CountPut, DonePut
  <2> QED
    BY <1>a, <1>1, <1>3, <1>4, <1>5, <1>6, <2>1, <2>2 DEF TypeOK
<1>8. FreeBits' = FreeBits
  BY <1>1 DEF FreeBits
<1>9. Apart'
  BY <1>a, <1>1, <1>2, <1>8 DEF Apart, WordOf
<1>10. DamageStaysInWord'
  BY <1>a, <1>1, <1>8 DEF DamageStaysInWord, WordOf
<1>11. Accounted'
  BY <1>a, <1>1, <1>2, <1>8 DEF Accounted, WordOf
<1> QED
  BY <1>5, <1>6, <1>7, <1>9, <1>10, <1>11 DEF Inv

\* bitmap_clear: with a collision the word is given up, without one the bit
\* leaves the bitmap and is at hand.
LEMMA ClearNext ==
    ASSUME Inv, NEW t \in Threads, ClearStore(t)
    PROVE  Inv'
<1>a. TypeOK /\ InPlace /\ AtHand /\ Apart /\ DamageStaysInWord /\ Accounted
  BY DEF Inv
<1>1. /\ at[t] \in Managed /\ WordOf(at[t]) \in Words
      /\ owned' = owned /\ at' = at /\ tmp' = tmp /\ count' = count
      /\ nr_free_blocks' = nr_free_blocks /\ miscounted' = miscounted
  BY <1>a, ManagedWord DEF ClearStore, AtHand
<1>2. /\ pc' \in [Threads -> {"idle", "find", "clear", "store_get", "count_get", "done_get",
                              "set", "store_put", "count_put", "done_put"}]
      /\ pc[t] = "store_get" /\ pc'[t] = "count_get"
      /\ \A u \in Threads : u # t => pc'[u] = pc[u]
  BY <1>a DEF ClearStore, Goto, TypeOK
<1>3. /\ freemap' \in [Words -> SUBSET Managed] /\ InPlace'
      /\ \A b \in Managed : WordOf(b) # WordOf(at[t]) => (b \in FreeBits' <=> b \in FreeBits)
  BY <1>a, <1>1, OtherWords
<1>4. raced \subseteq raced' /\ raced' \in SUBSET Words /\ raced' \subseteq raced \cup {WordOf(at[t])}
  BY <1>a, <1>1 DEF ClearStore, Collide, TypeOK
<1>5. TypeOK'
  BY <1>a, <1>1, <1>2, <1>3, <1>4, Zenon DEF TypeOK
<1>6. AtHand'
  BY <1>a, <1>1, <1>2 DEF AtHand
<1>7. HasBlock(t)' /\ ~HasBlock(t) /\ \A u \in Threads : u # t => (HasBlock(u)' <=> HasBlock(u))
  BY <1>2 DEF HasBlock
<1>8. \A u \in Threads : HasBlock(u)' => at[u] \in Managed
  BY <1>6, <1>1 DEF AtHand, HasBlock
<1>9. CASE WordOf(at[t]) \in raced'
  <2>1. Apart'
    BY <1>a, <1>1, <1>3, <1>4, <1>7, <1>8, <1>9 DEF Apart, WordOf
  <2>2. DamageStaysInWord'
    BY <1>a, <1>1, <1>3, <1>4, <1>9 DEF DamageStaysInWord, WordOf, TypeOK
  <2>3. Accounted'
    BY <1>a, <1>1, <1>3, <1>4, <1>7, <1>9 DEF Accounted, WordOf
  <2> QED
    BY <1>3, <1>5, <1>6, <2>1, <2>2, <2>3 DEF Inv
<1>10. CASE WordOf(at[t]) \notin raced'
  <2>1. FreeBits' = FreeBits \ {at[t]} /\ at[t] \in FreeBits /\ raced' = raced
    BY <1>a, <1>1, <1>10, ClearFree
  <2>2. /\ \A u \in Threads : at[t] \notin owned[u]
        /\ \A u \in Threads : HasBlock(u) => at[u] # at[t]
    BY <1>a, <1>10, <2>1 DEF Apart, DamageStaysInWord
  <2>3. Apart'
    BY <1>a, <1>1, <1>7, <2>1, <2>2 DEF Apart, WordOf
  <2>4. DamageStaysInWord'
    BY <1>a, <1>1, <2>1 DEF DamageStaysInWord, WordOf
  <2>5. Accounted'
    BY <1>a, <1>1, <1>7, <2>1 DEF Accounted, WordOf
  <2> QED
    BY <1>3, <1>5, <1>6, <2>3, <2>4, <2>5 DEF Inv
<1> QED
  BY <1>9, <1>10

\* bitmap_set: with a collision the word is given up, without one the block
\* that was at hand is free again.
LEMMA SetNext ==
    ASSUME Inv, NEW t \in Threads, SetStore(t)
    PROVE  Inv'
<1>a. TypeOK /\ InPlace /\ AtHand /\ Apart /\ DamageStaysInWord /\ Accounted
  BY DEF Inv
<1>1. /\ at[t] \in Managed /\ WordOf(at[t]) \in Words
      /\ owned' = owned /\ at' = at /\ tmp' = tmp /\ count' = count
      /\ nr_free_blocks' = nr_free_blocks /\ miscounted' = miscounted
  BY <1>a, ManagedWord DEF SetStore, AtHand
<1>2. /\ pc' \in [Threads -> {"idle", "find", "clear", "store_get", "count_get", "done_get",
                              "set", "store_put", "count_put", "done_put"}]
      /\ pc[t] = "store_put" /\ pc'[t] = "count_put"
      /\ \A u \in Threads : u # t => pc'[u] = pc[u]
  BY <1>a DEF SetStore, Goto, TypeOK
<1>3. /\ freemap' \in [Words -> SUBSET Managed] /\ InPlace'
      /\ \A b \in Managed : WordOf(b) # WordOf(at[t]) => (b \in FreeBits' <=> b \in FreeBits)
  BY <1>a, <1>1, OtherWords
<1>4. raced \subseteq raced' /\ raced' \in SUBSET Words /\ raced' \subseteq raced \cup {WordOf(at[t])}
  BY <1>a, <1>1 DEF SetStore, Collide, TypeOK
<1>5. TypeOK'
  BY <1>a, <1>1, <1>2, <1>3, <1>4, Zenon DEF TypeOK
<1>6. AtHand'
  BY <1>a, <1>1, <1>2 DEF AtHand
<1>7. HasBlock(t) /\ ~HasBlock(t)' /\ \A u \in Threads : u # t => (HasBlock(u)' <=> HasBlock(u))
  BY <1>2 DEF HasBlock
<1>8. \A u \in Threads : HasBlock(u)' => at[u] \in Managed
  BY <1>6, <1>1 DEF AtHand, HasBlock
<1>9. CASE WordOf(at[t]) \in raced'
  <2>1. Apart'
    BY <1>a, <1>1, <1>3, <1>4, <1>7, <1>8, <1>9 DEF Apart, WordOf
  <2>2. DamageStaysInWord'
    BY <1>a, <1>1, <1>3, <1>4, <1>9 DEF DamageStaysInWord, WordOf, TypeOK
  <2>3. Accounted'
    BY <1>a, <1>1, <1>3, <1>4, <1>7, <1>9 DEF Accounted, WordOf
  <2> QED
    BY <1>3, <1>5, <1>6, <2>1, <2>2, <2>3 DEF Inv
<1>10. CASE WordOf(at[t]) \notin raced'
  <2>1. FreeBits' = FreeBits \cup {at[t]} /\ raced' = raced
    BY <1>a, <1>1, <1>10, SetFree
  <2>2. /\ \A u \in Threads : at[t] \notin owned[u]
        /\ \A u \in Threads \ {t} : HasBlock(u) => at[u] # at[t]
    BY <1>a, <1>7, <1>10, <2>1 DEF Apart
  <2>3. Apart'
    BY <1>a, <1>1, <1>7, <2>1, <2>2 DEF Apart, WordOf
  <2>4. DamageStaysInWord'
    BY <1>a, <1>1, <2>1, <2>2 DEF DamageStaysInWord, WordOf
  <2>5. Accounted'
    BY <1>a, <1>1, <1>7, <2>1 DEF Accounted, WordOf
  <2> QED
    BY <1>3, <1>5, <1>6, <2>3, <2>4, <2>5 DEF Inv
<1> QED
  BY <1>9, <1>10

\* get_free_block returns: the block at hand becomes the thread's.
LEMMA DoneNext ==
    ASSUME Inv, NEW t \in Threads, DoneGet(t)
    PROVE  Inv'
<1>a. TypeOK /\ InPlace /\ AtHand /\ Apart /\ DamageStaysInWord /\ Accounted
  BY DEF Inv
<1>1. /\ at[t] \in Managed /\ at[t] # 0 /\ HasBlock(t)
      /\ freemap' = freemap /\ raced' = raced /\ FreeBits' = FreeBits
  BY <1>a, BitmapAssumption DEF DoneGet, AtHand, HasBlock, FreeBits, Managed
<1>2. /\ owned' = [owned EXCEPT ![t] = @ \cup {at[t]}]
      /\ nr_free_blocks' = Less(count[t]) /\ miscounted' \in BOOLEAN
  BY <1>1 DEF DoneGet
<1>3. /\ owned' \in [Threads -> SUBSET Managed] /\ owned'[t] = owned[t] \cup {at[t]}
      /\ \A u \in Threads : u # t => owned'[u] = owned[u]
  BY <1>a, <1>1, <1>2 DEF TypeOK
<1>4. /\ pc' \in [Threads -> {"idle", "find", "clear", "store_get", "count_get", "done_get",
                              "set", "store_put", "count_put", "done_put"}]
      /\ pc'[t] = "idle" /\ \A u \in Threads : u # t => pc'[u] = pc[u] /\ at'[u] = at[u] /\ tmp'[u] = tmp[u]
  BY <1>a DEF DoneGet, Return, Goto, TypeOK
<1>5. TypeOK'
  <2>1. nr_free_blocks' \in 0..(CounterEnd - 1)
    BY <1>a, <1>2, CounterType DEF TypeOK
  <2>2. count' \in [Threads -> 0..(CounterEnd - 1)] /\ at' \in [Threads -> Nat]
        /\ tmp' \in [Threads -> SUBSET Managed]
    <3>1. 0 \in 0..(CounterEnd - 1)
      BY BitmapAssumption
    <3> QED
      BY <3>1, <1>a DEF TypeOK, DoneGet, Return
  <2> QED
    BY <1>a, <1>1, <1>2, <1>3, <1>4, <2>1, <2>2, Zenon DEF TypeOK
<1>6. AtHand' /\ InPlace'
  BY <1>a, <1>1, <1>4 DEF AtHand, InPlace, WordOf
<1>7. ~HasBlock(t)' /\ \A u \in Threads : u # t => (HasBlock(u)' <=> HasBlock(u))
  BY <1>4 DEF HasBlock
<1>8. Apart'
  BY <1>a, <1>1, <1>3, <1>4, <1>7 DEF Apart, WordOf
<1>9. DamageStaysInWord'
  BY <1>a, <1>1, <1>3 DEF Apart, DamageStaysInWord, WordOf
<1>10. Accounted'
  BY <1>a, <1>1, <1>3, <1>4, <1>7 DEF Accounted, WordOf
<1> QED
  BY <1>5, <1>6, <1>8, <1>9, <1>10 DEF Inv

\* put_block is called: the thread's block is at hand.
LEMMA PutNext ==
    ASSUME Inv, NEW t \in Threads, NEW b \in AllBits, PutCall(t, b)
    PROVE  Inv'
<1>a. TypeOK /\ InPlace /\ AtHand /\ Apart /\ DamageStaysInWord /\ Accounted
  BY DEF Inv
<1>1. /\ b \in owned[t] /\ b \in Managed /\ b \in Nat /\ ~HasBlock(t) /\ pc[t] = "idle"
      /\ freemap' = freemap /\ raced' = raced /\ FreeBits' = FreeBits /\ tmp' = tmp
  BY <1>a, BitmapAssumption DEF PutCall, TypeOK, HasBlock, FreeBits, Managed
<1>2. /\ owned' \in [Threads -> SUBSET Managed] /\ owned'[t] = owned[t] \ {b}
      /\ \A u \in Threads : u # t => owned'[u] = owned[u]
  BY <1>a, <1>1 DEF PutCall, TypeOK
<1>3. /\ pc' \in [Threads -> {"idle", "find", "clear", "store_get", "count_get", "done_get",
                              "set", "store_put", "count_put", "done_put"}]
      /\ at' \in [Threads -> Nat]
      /\ pc'[t] = "set" /\ at'[t] = b
      /\ \A u \in Threads : u # t => pc'[u] = pc[u] /\ at'[u] = at[u]
  BY <1>a, <1>1 DEF PutCall, Goto, TypeOK
<1>4. TypeOK'
  BY <1>a, <1>1, <1>2, <1>3, Zenon DEF TypeOK, PutCall
<1>5. AtHand' /\ InPlace'
  BY <1>a, <1>1, <1>3 DEF AtHand, InPlace, WordOf
<1>6. HasBlock(t)' /\ \A u \in Threads : u # t => (HasBlock(u)' <=> HasBlock(u))
  BY <1>3 DEF HasBlock
<1>7. WordOf(b) \notin raced =>
        /\ b \notin FreeBits /\ \A u \in Threads \ {t} : b \notin owned[u]
        /\ \A u \in Threads : HasBlock(u) => at[u] # b
  BY <1>a, <1>1 DEF DamageStaysInWord, Apart
<1>8. Apart'
  BY <1>a, <1>1, <1>2, <1>3, <1>6, <1>7 DEF Apart, WordOf
<1>9. DamageStaysInWord'
  BY <1>a, <1>1, <1>2 DEF DamageStaysInWord, WordOf
<1>10. Accounted'
  BY <1>a, <1>1, <1>2, <1>3, <1>6 DEF Accounted, WordOf
<1> QED
  BY <1>4, <1>5, <1>8, <1>9, <1>10 DEF Inv

\* Every step of every thread keeps the invariant.
LEMMA InvNext == Inv /\ [Next]_vars => Inv'
<1> SUFFICES ASSUME Inv, [Next]_vars PROVE Inv'
  OBVIOUS
<1>1. CASE UNCHANGED vars
  <2>1. TypeOK' /\ InPlace' /\ AtHand'
    BY <1>1 DEF Inv, vars, TypeOK, InPlace, AtHand, WordOf
  <2>2. Apart' /\ DamageStaysInWord' /\ Accounted'
    BY <1>1 DEF Inv, vars, Apart, DamageStaysInWord, Accounted, HasBlock, FreeBits, WordOf
  <2> QED
    BY <2>1, <2>2 DEF Inv
<1>2. CASE Next
  BY <1>2, QuietNext, ClearNext, SetNext, DoneNext, PutNext DEF Next
<1> QED
  BY <1>1, <1>2

(* get_free_block and put_block take no lock.  For every number of threads, *)
(* every bitmap and every interleaving of their loads and stores, a block   *)
(* is given twice or is free while it has an owner only in a word in which  *)
(* two updates collided: every other word is managed exactly.               *)
THEOREM RacesStayInWord == Spec => []DamageStaysInWord
<1>1. Init => Inv
  BY InvInit
<1>2. Inv /\ [Next]_vars => Inv'
  BY InvNext
<1>3. Inv => DamageStaysInWord
  BY DEF Inv
<1> QED
  BY <1>1, <1>2, <1>3, PTL DEF Spec
-----------------------------------------------------------------------------
(* No block of a clean word is lost, and the counter is right between calls *)

\* The free blocks can be counted.
LEMMA FreeFinite ==
    ASSUME TypeOK
    PROVE  IsFiniteSet(FreeBits) /\ Cardinality(FreeBits) \in 0..(CounterEnd - 1)
<1> DEFINE top == NrWords * WordBits - 1
<1>1. FreeBits \subseteq Managed
  BY DEF TypeOK, FreeBits
<1>2. top \in Int /\ Reserved \in Int /\ Reserved <= top + 1 /\ Reserved >= 1 /\ top + 1 < CounterEnd
  BY BitmapAssumption
<1>3. Managed = Reserved..top
  BY DEF Managed
<1> HIDE DEF top
<1>4. IsFiniteSet(Managed) /\ Cardinality(Managed) = IF Reserved > top THEN 0 ELSE top - Reserved + 1
  BY <1>2, <1>3, FS_Interval
<1>5. IsFiniteSet(FreeBits) /\ Cardinality(FreeBits) <= Cardinality(Managed)
  BY <1>1, <1>4, FS_Subset
<1>6. Cardinality(FreeBits) \in Nat
  BY <1>5, FS_CardinalityType
<1> QED
  BY <1>2, <1>4, <1>5, <1>6, BitmapAssumption

\* So can the threads that have yet to update the counter.
LEMMA WaitersFinite ==
    /\ IsFiniteSet(Getting) /\ Cardinality(Getting) \in Nat
    /\ IsFiniteSet(Putting) /\ Cardinality(Putting) \in Nat
<1>1. Getting \subseteq Threads /\ Putting \subseteq Threads /\ IsFiniteSet(Threads)
  BY BitmapAssumption DEF Getting, Putting
<1>2. IsFiniteSet(Getting) /\ IsFiniteSet(Putting)
  BY <1>1, FS_Subset
<1> QED
  BY <1>2, FS_CardinalityType

\* nr_free_blocks--, the wrap included, catches up with one cleared bit.
LEMMA LagsLess ==
    ASSUME NEW n \in 0..(CounterEnd - 1), NEW f \in Int, NEW g \in Int, NEW p \in Int,
           Lags(n, f, g, p)
    PROVE  Lags(Less(n), f, g - 1, p)
<1>1. PICK k \in Int : n = f + g - p + k * CounterEnd
  BY DEF Lags
<1>2. (k + 1) * CounterEnd = k * CounterEnd + CounterEnd
  BY BitmapAssumption
<1>3. k + 1 \in Int /\ k * CounterEnd \in Int /\ CounterEnd \in Int
  BY BitmapAssumption
<1>4. CASE n = 0
  <2>1. Less(n) = f + (g - 1) - p + (k + 1) * CounterEnd
    BY <1>1, <1>2, <1>3, <1>4 DEF Less
  <2> QED
    BY <1>3, <2>1 DEF Lags
<1>5. CASE n # 0
  <2>1. Less(n) = f + (g - 1) - p + k * CounterEnd
    BY <1>1, <1>3, <1>5 DEF Less
  <2> QED
    BY <2>1 DEF Lags
<1> QED
  BY <1>4, <1>5

\* nr_free_blocks++, the wrap included, catches up with one set bit.
LEMMA LagsMore ==
    ASSUME NEW n \in 0..(CounterEnd - 1), NEW f \in Int, NEW g \in Int, NEW p \in Int,
           Lags(n, f, g, p)
    PROVE  Lags(More(n), f, g, p - 1)
<1>1. PICK k \in Int : n = f + g - p + k * CounterEnd
  BY DEF Lags
<1>2. (k - 1) * CounterEnd = k * CounterEnd - CounterEnd
  BY BitmapAssumption
<1>3. k - 1 \in Int /\ k * CounterEnd \in Int /\ CounterEnd \in Int
  BY BitmapAssumption
<1>4. CASE n = CounterEnd - 1
  <2>1. More(n) = f + g - (p - 1) + (k - 1) * CounterEnd
    BY <1>1, <1>2, <1>3, <1>4 DEF More
  <2> QED
    BY <1>3, <2>1 DEF Lags
<1>5. CASE n # CounterEnd - 1
  <2>1. More(n) = f + g - (p - 1) + k * CounterEnd
    BY <1>1, <1>3, <1>5 DEF More
  <2> QED
    BY <2>1 DEF Lags
<1> QED
  BY <1>4, <1>5

\* A counter that lags by nothing is the number of free bits.
LEMMA LagsNone ==
    ASSUME NEW n \in 0..(CounterEnd - 1), NEW f \in 0..(CounterEnd - 1), Lags(n, f, 0, 0)
    PROVE  n = f
<1>1. PICK k \in Int : n = f + 0 - 0 + k * CounterEnd
  BY DEF Lags
<1>2. k >= 1 => k * CounterEnd >= CounterEnd
  BY BitmapAssumption
<1>3. k <= -1 => k * CounterEnd <= -CounterEnd
  BY BitmapAssumption
<1>4. k = 0 => k * CounterEnd = 0
  BY BitmapAssumption
<1>5. k * CounterEnd \in Int
  BY BitmapAssumption
<1> QED
  BY <1>1, <1>2, <1>3, <1>4, <1>5, BitmapAssumption

\* Before any call the counter is the number of managed blocks, all free.
LEMMA CountingInit == Init => Counting
<1> SUFFICES ASSUME Init PROVE Counting
  OBVIOUS
<1> DEFINE top == NrWords * WordBits - 1
<1>1. FreeBits = Reserved..top
  BY InvInit DEF Managed
<1>2. Getting = {} /\ Putting = {}
  BY DEF Init, Getting, Putting
<1>3. top \in Int /\ Reserved \in Int /\ Reserved <= top + 1 /\ nr_free_blocks = top - Reserved + 1
  BY BitmapAssumption DEF Init
<1> HIDE DEF top
<1>4. Cardinality(Reserved..top) = IF Reserved > top THEN 0 ELSE top - Reserved + 1
  BY <1>3, FS_Interval
<1>5. Cardinality({}) = 0
  BY FS_EmptySet
<1>6. nr_free_blocks = Cardinality(FreeBits) + 0 - 0 + 0 * CounterEnd
  BY <1>1, <1>3, <1>4, BitmapAssumption
<1> QED
  BY <1>2, <1>5, <1>6 DEF Counting, Lags

\* The counter follows every change of the bitmap.
LEMMA CountingNext == Inv /\ Counting /\ [Next]_vars => Counting'
<1> SUFFICES ASSUME Inv, Counting, [Next]_vars, raced' = {}, ~miscounted'
             PROVE  Lags(nr_free_blocks', Cardinality(FreeBits'), Cardinality(Getting'),
                         Cardinality(Putting'))
  BY DEF Counting
<1>a. TypeOK /\ InPlace /\ AtHand /\ Apart
  BY DEF Inv
<1>b. IsFiniteSet(FreeBits) /\ Cardinality(FreeBits) \in Nat
  BY <1>a, FreeFinite
<1>c. /\ IsFiniteSet(Getting) /\ Cardinality(Getting) \in Nat
      /\ IsFiniteSet(Putting) /\ Cardinality(Putting) \in Nat
  BY WaitersFinite
<1> DEFINE Same == FreeBits' = FreeBits /\ Getting' = Getting /\ Putting' = Putting
                   /\ nr_free_blocks' = nr_free_blocks /\ raced' = raced /\ miscounted' = miscounted
<1>d. ASSUME raced = {}, ~miscounted
      PROVE  Lags(nr_free_blocks, Cardinality(FreeBits), Cardinality(Getting), Cardinality(Putting))
  BY <1>d DEF Counting
<1>e. ASSUME Same
      PROVE  Lags(nr_free_blocks', Cardinality(FreeBits'), Cardinality(Getting'), Cardinality(Putting'))
  BY <1>d, <1>e
<1>1. CASE UNCHANGED vars
  <2>1. Same
    BY <1>1 DEF vars, FreeBits, Getting, Putting
  <2> QED
    BY <1>e, <2>1
<1>2. ASSUME NEW t \in Threads,
             \/ GetCall(t) \/ FindNext(t) \/ FindHit(t) \/ FindNone(t) \/ ClearLoad(t)
             \/ SetLoad(t) \/ CountGet(t) \/ CountPut(t) \/ \E b \in AllBits : PutCall(t, b)
      PROVE Same
  <2>1. /\ FreeBits' = FreeBits /\ nr_free_blocks' = nr_free_blocks /\ raced' = raced
        /\ miscounted' = miscounted
    BY <1>2 DEF FreeBits, GetCall, FindNext, FindHit, FindNone, ClearLoad, SetLoad,
       CountGet, CountPut, PutCall
  <2>2. \A u \in Threads : /\ pc'[u] \in {"count_get", "done_get"} <=> pc[u] \in {"count_get", "done_get"}
                           /\ pc'[u] \in {"count_put", "done_put"} <=> pc[u] \in {"count_put", "done_put"}
    BY <1>a, <1>2 DEF TypeOK, Goto, Return, GetCall, FindNext, FindHit, FindNone,
       ClearLoad, SetLoad, CountGet, CountPut, PutCall
  <2> QED
    BY <2>1, <2>2 DEF Getting, Putting
<1>3. ASSUME NEW t \in Threads, ClearStore(t)
      PROVE  Lags(nr_free_blocks', Cardinality(FreeBits'), Cardinality(Getting'), Cardinality(Putting'))
  <2>1. at[t] \in Managed
    BY <1>a, <1>3 DEF AtHand, ClearStore
  <2>2. FreeBits' = FreeBits \ {at[t]} /\ at[t] \in FreeBits /\ raced' = raced
    BY <1>a, <1>3, <2>1, ClearFree
  <2>3. Cardinality(FreeBits') = Cardinality(FreeBits) - 1
    BY <1>b, <2>2, FS_RemoveElement
  <2>4. Getting' = Getting \cup {t} /\ t \notin Getting /\ Putting' = Putting
    BY <1>a, <1>3 DEF Getting, Putting, ClearStore, Goto, TypeOK
  <2>5. Cardinality(Getting') = Cardinality(Getting) + 1
    BY <1>c, <2>4, FS_AddElement
  <2>6. nr_free_blocks' = nr_free_blocks /\ miscounted' = miscounted
    BY <1>3 DEF ClearStore
  <2>7. Lags(nr_free_blocks, Cardinality(FreeBits), Cardinality(Getting), Cardinality(Putting))
    BY <1>d, <2>2, <2>6
  <2>8. PICK k \in Int : nr_free_blocks = Cardinality(FreeBits) + Cardinality(Getting)
                                          - Cardinality(Putting) + k * CounterEnd
    BY <2>7 DEF Lags
  <2>9. k * CounterEnd \in Int
    BY BitmapAssumption
  <2>10. nr_free_blocks' = Cardinality(FreeBits') + Cardinality(Getting')
                           - Cardinality(Putting') + k * CounterEnd
    BY <1>b, <1>c, <2>3, <2>4, <2>5, <2>6, <2>8, <2>9
  <2> QED
    BY <2>10 DEF Lags
<1>4. ASSUME NEW t \in Threads, SetStore(t)
      PROVE  Lags(nr_free_blocks', Cardinality(FreeBits'), Cardinality(Getting'), Cardinality(Putting'))
  <2>1. at[t] \in Managed /\ HasBlock(t)
    BY <1>a, <1>4 DEF AtHand, SetStore, HasBlock
  <2>2. FreeBits' = FreeBits \cup {at[t]} /\ raced' = raced
    BY <1>a, <1>4, <2>1, SetFree
  <2>3. at[t] \notin FreeBits
    BY <1>a, <2>1, <2>2 DEF Apart
  <2>4. Cardinality(FreeBits') = Cardinality(FreeBits) + 1
    BY <1>b, <2>2, <2>3, FS_AddElement
  <2>5. Putting' = Putting \cup {t} /\ t \notin Putting /\ Getting' = Getting
    BY <1>a, <1>4 DEF Getting, Putting, SetStore, Goto, TypeOK
  <2>6. Cardinality(Putting') = Cardinality(Putting) + 1
    BY <1>c, <2>5, FS_AddElement
  <2>7. nr_free_blocks' = nr_free_blocks /\ miscounted' = miscounted
    BY <1>4 DEF SetStore
  <2>8. Lags(nr_free_blocks, Cardinality(FreeBits), Cardinality(Getting), Cardinality(Putting))
    BY <1>d, <2>2, <2>7
  <2>9. PICK k \in Int : nr_free_blocks = Cardinality(FreeBits) + Cardinality(Getting)
                                          - Cardinality(Putting) + k * CounterEnd
    BY <2>8 DEF Lags
  <2>10. k * CounterEnd \in Int
    BY BitmapAssumption
  <2>11. nr_free_blocks' = Cardinality(FreeBits') + Cardinality(Getting')
                           - Cardinality(Putting') + k * CounterEnd
    BY <1>b, <1>c, <2>4, <2>5, <2>6, <2>7, <2>9, <2>10
  <2> QED
    BY <2>11 DEF Lags
<1>5. ASSUME NEW t \in Threads, DoneGet(t)
      PROVE  Lags(nr_free_blocks', Cardinality(FreeBits'), Cardinality(Getting'), Cardinality(Putting'))
  <2>1. at[t] # 0
    BY <1>a, <1>5, BitmapAssumption DEF AtHand, DoneGet, Managed
  <2>2. /\ ~miscounted /\ count[t] = nr_free_blocks /\ raced = {}
        /\ nr_free_blocks' = Less(nr_free_blocks) /\ FreeBits' = FreeBits
    BY <1>5, <2>1 DEF DoneGet, FreeBits
  <2>3. Getting' = Getting \ {t} /\ t \in Getting /\ Putting' = Putting
    BY <1>a, <1>5 DEF Getting, Putting, DoneGet, Return, Goto, TypeOK
  <2>4. Cardinality(Getting') = Cardinality(Getting) - 1
    BY <1>c, <2>3, FS_RemoveElement
  <2>5. Lags(nr_free_blocks, Cardinality(FreeBits), Cardinality(Getting), Cardinality(Putting))
    BY <1>d, <2>2
  <2>6. nr_free_blocks \in 0..(CounterEnd - 1)
    BY <1>a DEF TypeOK
  <2>7. Lags(Less(nr_free_blocks), Cardinality(FreeBits), Cardinality(Getting) - 1, Cardinality(Putting))
    BY <1>b, <1>c, <2>5, <2>6, LagsLess
  <2> QED
    BY <2>2, <2>3, <2>4, <2>7
<1>6. ASSUME NEW t \in Threads, DonePut(t)
      PROVE  Lags(nr_free_blocks', Cardinality(FreeBits'), Cardinality(Getting'), Cardinality(Putting'))
  <2>2. /\ ~miscounted /\ count[t] = nr_free_blocks /\ raced = {}
        /\ nr_free_blocks' = More(nr_free_blocks) /\ FreeBits' = FreeBits
    BY <1>6 DEF DonePut, FreeBits
  <2>3. Putting' = Putting \ {t} /\ t \in Putting /\ Getting' = Getting
    BY <1>a, <1>6 DEF Getting, Putting, DonePut, Return, Goto, TypeOK
  <2>4. Cardinality(Putting') = Cardinality(Putting) - 1
    BY <1>c, <2>3, FS_RemoveElement
  <2>5. Lags(nr_free_blocks, Cardinality(FreeBits), Cardinality(Getting), Cardinality(Putting))
    BY <1>d, <2>2
  <2>6. nr_free_blocks \in 0..(CounterEnd - 1)
    BY <1>a DEF TypeOK
  <2>7. Lags(More(nr_free_blocks), Cardinality(FreeBits), Cardinality(Getting), Cardinality(Putting) - 1)
    BY <1>b, <1>c, <2>5, <2>6, LagsMore
  <2> QED
    BY <2>2, <2>3, <2>4, <2>7
<1> QED
  BY <1>1, <1>2, <1>3, <1>4, <1>5, <1>6, <1>e DEF Next

(* Whenever no call is under way, every block of a word in which no two     *)
(* updates collided is free or has an owner, and nr_free_blocks, wraps      *)
(* included, is the number of free bits unless an update of a word or of    *)
(* the counter was lost: get_free_block and put_block lose nothing else.    *)
THEOREM OnlyCollisionsLose == Spec => []NothingElseLost
<1>1. Init => IInv
  BY InvInit, CountingInit DEF IInv
<1>2. IInv /\ [Next]_vars => IInv'
  BY InvNext, CountingNext DEF IInv
<1>3. IInv => NothingElseLost
  <2> SUFFICES ASSUME IInv, \A t \in Threads : pc[t] = "idle"
               PROVE  /\ \A b \in Managed : WordOf(b) \in raced \/ b \in FreeBits
                                            \/ \E t \in Threads : b \in owned[t]
                      /\ raced = {} /\ ~miscounted => nr_free_blocks = Cardinality(FreeBits)
    BY DEF NothingElseLost
  <2>1. \A b \in Managed : WordOf(b) \in raced \/ b \in FreeBits \/ \E t \in Threads : b \in owned[t]
    BY DEF IInv, Inv, Accounted, HasBlock
  <2>2. ASSUME raced = {}, ~miscounted PROVE nr_free_blocks = Cardinality(FreeBits)
    <3>1. Getting = {} /\ Putting = {} /\ Cardinality({}) = 0
      BY FS_EmptySet DEF Getting, Putting
    <3>2. Lags(nr_free_blocks, Cardinality(FreeBits), 0, 0)
      BY <2>2, <3>1 DEF IInv, Counting
    <3>3. nr_free_blocks \in 0..(CounterEnd - 1) /\ Cardinality(FreeBits) \in 0..(CounterEnd - 1)
      BY FreeFinite DEF IInv, Inv, TypeOK
    <3> QED
      BY <3>2, <3>3, LagsNone
  <2> QED
    BY <2>1, <2>2
<1> QED
  BY <1>1, <1>2, <1>3, PTL DEF Spec
=============================================================================
