----------------------------- MODULE FreeBitmap ------------------------------
(***************************************************************************)
(* bitmap.h: the free-block bitmap and its counter, shared by every kernel *)
(* thread in the file system.  get_free_block and put_block run as the     *)
(* loads and stores they compile to: find_first_bit reads one word after   *)
(* the other, bitmap_clear and bitmap_set load and store a word, and the   *)
(* counter is loaded and stored.  The source takes no lock around them, so *)
(* the threads interleave at every one of these steps.                     *)
(*                                                                         *)
(* Two history variables record what the interleaving has done, and steer  *)
(* nothing: raced, the words in which an update was lost or a bit was      *)
(* taken twice, and miscounted, whether an update of the counter was lost. *)
(***************************************************************************)
EXTENDS Integers, FiniteSets, FiniteSetsExt

CONSTANTS
    Threads,    \* kernel threads in the file system
    NrWords,    \* words of the bitmap
    WordBits,   \* bits per word (64 in the kernel)
    Reserved,   \* blocks 0..Reserved-1 are never free
    MaxOwned,   \* bound: blocks a thread keeps
    CounterEnd  \* values of the counter's type (2^32 for uint32_t)

ASSUME BitmapAssumption ==
    /\ NrWords \in Nat \ {0} /\ WordBits \in Nat \ {0}
    /\ Reserved \in 1..(NrWords * WordBits) /\ MaxOwned \in Nat
    /\ IsFiniteSet(Threads)
    /\ CounterEnd \in Nat /\ CounterEnd > NrWords * WordBits

Words == 0..(NrWords - 1)
Bits(w) == (w * WordBits)..(w * WordBits + WordBits - 1)
WordOf(b) == b \div WordBits
AllBits == 0..(NrWords * WordBits - 1)

\* The blocks that are free at first.
Managed == Reserved..(NrWords * WordBits - 1)

VARIABLES
    freemap,         \* bfree_bitmap: the set bits of each word
    nr_free_blocks,  \* the counter
    owned,           \* blocks each thread was given and has not put back
    pc,              \* where each thread is
    at,              \* the word find_first_bit reads next, or the bit at hand
    tmp,             \* the word a thread has loaded
    count,           \* the counter value a thread has loaded
    raced,           \* words whose updates collided
    miscounted       \* whether updates of the counter collided

vars == <<freemap, nr_free_blocks, owned, pc, at, tmp, count, raced, miscounted>>

FreeBits == UNION {freemap[w] : w \in Words}

TypeOK ==
    /\ freemap \in [Words -> SUBSET Managed]
    /\ nr_free_blocks \in 0..(CounterEnd - 1)
    /\ owned \in [Threads -> SUBSET Managed]
    /\ pc \in [Threads -> {"idle", "find", "clear", "store_get", "count_get", "done_get",
                           "set", "store_put", "count_put", "done_put"}]
    /\ at \in [Threads -> Nat]
    /\ tmp \in [Threads -> SUBSET Managed]
    /\ count \in [Threads -> 0..(CounterEnd - 1)]
    /\ raced \in SUBSET Words /\ miscounted \in BOOLEAN

Init ==
    /\ freemap = [w \in Words |-> {b \in Bits(w) : b >= Reserved}]
    /\ nr_free_blocks = NrWords * WordBits - Reserved
    /\ owned = [t \in Threads |-> {}]
    /\ pc = [t \in Threads |-> "idle"]
    /\ at = [t \in Threads |-> 0]
    /\ tmp = [t \in Threads |-> {}]
    /\ count = [t \in Threads |-> 0]
    /\ raced = {} /\ miscounted = FALSE
-----------------------------------------------------------------------------
Goto(t, l) == pc' = [pc EXCEPT ![t] = l]

\* The counter is unsigned: it wraps at both ends.
Less(n) == IF n = 0 THEN CounterEnd - 1 ELSE n - 1
More(n) == IF n = CounterEnd - 1 THEN 0 ELSE n + 1

\* A thread stores a word it has computed from tmp: updates collide when the
\* word is no longer what the thread loaded, or lost the bit the thread found.
Collide(t, lost) ==
    raced' = IF lost THEN raced \cup {WordOf(at[t])} ELSE raced

Return(t) ==
    /\ Goto(t, "idle")
    /\ at' = [at EXCEPT ![t] = 0]
    /\ tmp' = [tmp EXCEPT ![t] = {}]
    /\ count' = [count EXCEPT ![t] = 0]

\* get_free_block is called.
GetCall(t) ==
    /\ pc[t] = "idle" /\ Cardinality(owned[t]) < MaxOwned
    /\ Goto(t, "find") /\ at' = [at EXCEPT ![t] = 0]
    /\ UNCHANGED <<freemap, nr_free_blocks, owned, tmp, count, raced, miscounted>>

\* find_first_bit: an empty word sends the search to the next one...
FindNext(t) ==
    /\ pc[t] = "find" /\ at[t] \in Words /\ freemap[at[t]] = {}
    /\ at' = [at EXCEPT ![t] = @ + 1]
    /\ UNCHANGED <<freemap, nr_free_blocks, owned, pc, tmp, count, raced, miscounted>>

\* ...the lowest set bit ends it...
FindHit(t) ==
    /\ pc[t] = "find" /\ at[t] \in Words
    /\ \E b \in freemap[at[t]] :
         /\ \A c \in freemap[at[t]] : b <= c
         /\ at' = [at EXCEPT ![t] = b]
    /\ Goto(t, "clear")
    /\ UNCHANGED <<freemap, nr_free_blocks, owned, tmp, count, raced, miscounted>>

\* ...and past the last word get_free_block returns 0.
FindNone(t) ==
    /\ pc[t] = "find" /\ at[t] \notin Words
    /\ Return(t)
    /\ UNCHANGED <<freemap, nr_free_blocks, owned, raced, miscounted>>

\* bitmap_clear: load the word...
ClearLoad(t) ==
    /\ pc[t] = "clear"
    /\ tmp' = [tmp EXCEPT ![t] = freemap[WordOf(at[t])]]
    /\ Goto(t, "store_get")
    /\ UNCHANGED <<freemap, nr_free_blocks, owned, at, count, raced, miscounted>>

\* Mutant of ClearStore: the bit is not cleared.
ClearStoreNothing(t) ==
    /\ pc[t] = "store_get"
    /\ Goto(t, "count_get")
    /\ UNCHANGED <<freemap, nr_free_blocks, owned, at, tmp, count, raced, miscounted>>

\* ...and store it without the bit.
ClearStore(t) ==
    /\ pc[t] = "store_get"
    /\ freemap' = [freemap EXCEPT ![WordOf(at[t])] = tmp[t] \ {at[t]}]
    /\ Goto(t, "count_get")
    /\ Collide(t, tmp[t] # freemap[WordOf(at[t])] \/ at[t] \notin tmp[t])
    /\ UNCHANGED <<nr_free_blocks, owned, at, tmp, count, miscounted>>

\* nr_free_blocks--, unless the bit was bit 0.
CountGet(t) ==
    /\ pc[t] = "count_get"
    /\ count' = [count EXCEPT ![t] = nr_free_blocks]
    /\ Goto(t, "done_get")
    /\ UNCHANGED <<freemap, nr_free_blocks, owned, at, tmp, raced, miscounted>>

DoneGet(t) ==
    /\ pc[t] = "done_get"
    /\ IF at[t] # 0
       THEN /\ nr_free_blocks' = Less(count[t])
            /\ miscounted' = (miscounted \/ count[t] # nr_free_blocks)
            /\ owned' = [owned EXCEPT ![t] = @ \cup {at[t]}]
       ELSE UNCHANGED <<nr_free_blocks, owned, miscounted>>
    /\ Return(t)
    /\ UNCHANGED <<freemap, raced>>

\* put_block of a block the thread was given: the same loads and stores.
PutCall(t, b) ==
    /\ pc[t] = "idle" /\ b \in owned[t]
    /\ owned' = [owned EXCEPT ![t] = @ \ {b}]
    /\ at' = [at EXCEPT ![t] = b] /\ Goto(t, "set")
    /\ UNCHANGED <<freemap, nr_free_blocks, tmp, count, raced, miscounted>>

SetLoad(t) ==
    /\ pc[t] = "set"
    /\ tmp' = [tmp EXCEPT ![t] = freemap[WordOf(at[t])]]
    /\ Goto(t, "store_put")
    /\ UNCHANGED <<freemap, nr_free_blocks, owned, at, count, raced, miscounted>>

\* Mutant of SetStore: the word is overwritten by the bit.
SetStoreOnly(t) ==
    /\ pc[t] = "store_put"
    /\ freemap' = [freemap EXCEPT ![WordOf(at[t])] = {at[t]}]
    /\ Goto(t, "count_put")
    /\ Collide(t, tmp[t] # freemap[WordOf(at[t])])
    /\ UNCHANGED <<nr_free_blocks, owned, at, tmp, count, miscounted>>

SetStore(t) ==
    /\ pc[t] = "store_put"
    /\ freemap' = [freemap EXCEPT ![WordOf(at[t])] = tmp[t] \cup {at[t]}]
    /\ Goto(t, "count_put")
    /\ Collide(t, tmp[t] # freemap[WordOf(at[t])])
    /\ UNCHANGED <<nr_free_blocks, owned, at, tmp, count, miscounted>>

CountPut(t) ==
    /\ pc[t] = "count_put"
    /\ count' = [count EXCEPT ![t] = nr_free_blocks]
    /\ Goto(t, "done_put")
    /\ UNCHANGED <<freemap, nr_free_blocks, owned, at, tmp, raced, miscounted>>

DonePut(t) ==
    /\ pc[t] = "done_put"
    /\ nr_free_blocks' = More(count[t])
    /\ miscounted' = (miscounted \/ count[t] # nr_free_blocks)
    /\ Return(t)
    /\ UNCHANGED <<freemap, owned, raced>>

Next ==
    \E t \in Threads :
        \/ GetCall(t) \/ FindNext(t) \/ FindHit(t) \/ FindNone(t)
        \/ ClearLoad(t) \/ ClearStore(t) \/ CountGet(t) \/ DoneGet(t)
        \/ \E b \in AllBits : PutCall(t, b)
        \/ SetLoad(t) \/ SetStore(t) \/ CountPut(t) \/ DonePut(t)

Spec == Init /\ [][Next]_vars
-----------------------------------------------------------------------------
(* "Return an unused block number and mark it used" (bitmap.h): a block     *)
(* that get_free_block gave to a thread is given to no other until it is    *)
(* put back, and its bit stays clear.  The code does not keep this: nothing *)
(* orders the loads and stores of two writers.                              *)
AllocExclusive ==
    \A t \in Threads :
        /\ owned[t] \cap FreeBits = {}
        /\ \A u \in Threads \ {t} : owned[t] \cap owned[u] = {}

(* What get_free_block and put_block do keep, whatever the interleaving:    *)
(* calls of any number of threads may overlap, and a block is given twice   *)
(* or is free while it has an owner only in a word two of them were storing *)
(* at the same time; the blocks of every other word have one owner.         *)
DamageStaysInWord ==
    \A t \in Threads : \A b \in owned[t] :
        \/ WordOf(b) \in raced
        \/ b \notin FreeBits /\ \A u \in Threads \ {t} : b \notin owned[u]

(* Between calls, every block of a word in which no two updates collided is *)
(* free or someone's; and nr_free_blocks counts the free bits unless an     *)
(* update of a word or of the counter itself was lost.                      *)
NothingElseLost ==
    (\A t \in Threads : pc[t] = "idle") =>
        /\ \A b \in Managed :
             WordOf(b) \in raced \/ b \in FreeBits \/ \E t \in Threads : b \in owned[t]
        /\ raced = {} /\ ~miscounted => nr_free_blocks = Cardinality(FreeBits)
=============================================================================
