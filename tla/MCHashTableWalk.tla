---- MODULE MCHashTableWalk ----
(***************************************************************************)
(* A smaller table than in MCHashTable, as every walk takes many steps:    *)
(* two keys that start at the same of two slots and at different ones of   *)
(* three.                                                                  *)
(***************************************************************************)
EXTENDS HashTableWalk, TLC

CONSTANTS k1, k2, v1

MCHashProc == k1 :> 1 @@ k2 :> 7

\* The closed formula against the loop, for tables larger than those of the run: LoopIndex[n]
\* is the index after n turns.  The sequence repeats after 2c turns, and visits every slot
\* when c is a power of two.
Sized(c) == [elements |-> <<>>, count |-> 0, capacity |-> c]

ASSUME ProbeIsTheLoop ==
    \A c \in 1 .. 16 : \A h \in 0 .. c - 1 :
        LET LoopIndex[n \in 0 .. 4 * c] ==
                IF n = 0 THEN h % c ELSE (LoopIndex[n - 1] + n) % c
        IN  /\ \A n \in 0 .. 4 * c : Probe(Sized(c), h, n) = LoopIndex[n]
            /\ \A n \in 0 .. 2 * c : LoopIndex[n + 2 * c] = LoopIndex[n]
            /\ IsPowerOfTwo(c) => {LoopIndex[n] : n \in 0 .. c - 1} = 0 .. c - 1

\* The definition by divisors names the powers of two and no other number.
ASSUME PowersOfTwoAreMeant ==
    \A n \in 1 .. 64 : IsPowerOfTwo(n) <=> \E e \in 0 .. 6 : 2^e = n
====
