---- MODULE Ledger ----
(***************************************************************************)
(* What memory_debug.c promises: a ledger of the blocks that are out, the  *)
(* invalid frees, and how many bytes were given and taken back.            *)
(***************************************************************************)
EXTENDS Integers, Sequences, FiniteSetsExt, BagsExt

CONSTANTS
    Address,
    Size,
    Capacity    \* how many blocks can be out

VARIABLES
    out,        \* bag of <<address, size>>: a failed allocation may be there several times
    invalid,    \* addresses of the invalid frees, in their order
    allocated,  \* bytes asked for
    freed       \* bytes taken back

vars == <<out, invalid, allocated, freed>>

Init ==
    /\ out = << >>
    /\ invalid = << >>
    /\ allocated = 0
    /\ freed = 0

\* How many blocks are out.
Entries(bag) == MapThenSumSet(LAMBDA e : bag[e], DOMAIN bag)

Allocate(a, size) ==
    /\ Entries(out) < Capacity
    /\ out' = BagAdd(out, <<a, size>>)
    /\ allocated' = allocated + size
    /\ UNCHANGED <<invalid, freed>>

\* One block too many: it is counted, but there is no place to enter it.
Overflow(size) ==
    /\ Entries(out) = Capacity
    /\ allocated' = allocated + size
    /\ UNCHANGED <<out, invalid, freed>>

Free(a) ==
    \E size \in Size :
        /\ <<a, size>> \in DOMAIN out
        /\ out' = BagRemove(out, <<a, size>>)
        /\ freed' = freed + size
        /\ UNCHANGED <<invalid, allocated>>

InvalidFree(a) ==
    /\ \A size \in Size : <<a, size>> \notin DOMAIN out
    /\ invalid' = Append(invalid, a)
    /\ UNCHANGED <<out, allocated, freed>>

Next ==
    \/ \E a \in Address, size \in Size : Allocate(a, size)
    \/ \E size \in Size : Overflow(size)
    \/ \E a \in Address : Free(a) \/ InvalidFree(a)

Spec == Init /\ [][Next]_vars
====
