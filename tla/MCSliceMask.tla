----------------------------- MODULE MCSliceMask -----------------------------
(* SliceMask for TLC, and its words compared with numbers.                  *)
EXTENDS SliceMask, Bitwise

\* The number a word stands for.
Number(w) == MapThenSumSet(LAMBDA b : 2^b, w)

\* For all words of Width bits the operators of SliceMask are those of unsigned
\* arithmetic modulo 2^Width: |, & ~, the shifts of a word and of 1, and - 1.
ASSUME WordsAreNumbers ==
    LET num == [w \in SUBSET Bits |-> Number(w)]
    IN  /\ {num[w] : w \in SUBSET Bits} = 0..(2^Width - 1)
        /\ \A v, w \in SUBSET Bits :
             /\ num[v \cup w] = num[v] | num[w]
             /\ num[v \ w] = num[v] & (2^Width - 1 - num[w])
        /\ \A w \in SUBSET Bits :
             /\ num[Dec(w)] = (num[w] - 1) % 2^Width
             /\ \A n \in Bits : num[Shl(w, n)] = (num[w] * 2^n) % 2^Width
        /\ \A n \in Bits : {num[w] : w \in OneShl(n)} = {2^n}
=============================================================================
