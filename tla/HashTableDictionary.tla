---- MODULE HashTableDictionary ----
(***************************************************************************)
(* HashTable implements Dictionary: the live slots hold the pairs of the   *)
(* dictionary and the removed slots the pairs it has not forgotten.        *)
(***************************************************************************)
EXTENDS HashTable, Bags

\* The key-value pairs of a set of slots of a table, as a bag.
Pairs(t, slots) ==
    LET pair(s) == <<t.elements[s].key, t.elements[s].value>>
    IN  [p \in {pair(s) : s \in slots} |-> Cardinality({s \in slots : pair(s) = p})]

\* The capacities a table may come to have.
AllCapacities == Capacities \cup 1 .. MaxCapacity

Dict == INSTANCE Dictionary
        WITH Stale    <- Garbage,
             Capacity <- AllCapacities,
             entries  <- Pairs(ht, Live(ht)),
             removed  <- Pairs(ht, Removed(ht)),
             capacity <- ht.capacity,
             answer   <- last

\* The table implements the dictionary: whatever the layout of the slots and the history of
\* collisions, removals and resizes, every call does to the pairs what Dictionary says.
ImplementsDictionary == Dict!Spec

----------------------------------------------------------------------------
\* What the refinement rests on.

\* While resize runs, the new table has the pairs of the slots that have been copied, the
\* removed ones included, and nobody waits for an answer.
CopiedPairs ==
    pc = "resizing" =>
        /\ new.capacity \in AllCapacities
        /\ Removed(new) = {}
        /\ Pairs(new, Live(new)) = Pairs(ht, UsedBefore(ht, i))
        /\ last = NoAnswer

DictInv ==
    /\ IInv
    /\ ht.capacity \in AllCapacities
    /\ CopiedPairs
====
