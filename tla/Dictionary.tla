---- MODULE Dictionary ----
(***************************************************************************)
(* What hash_table.c promises to a caller who does not know how the table  *)
(* is laid out: a bag of key-value pairs.  Adding a key twice gives two    *)
(* pairs.  Removing takes one pair out of the bag, but the table does not  *)
(* forget it: until another pair is added in its place, a resize may bring *)
(* it back, so the promise has to carry the removed pairs along.           *)
(***************************************************************************)
EXTENDS Integers, Bags

CONSTANTS Key, Value, Stale, NULL, NoAnswer, Capacity

VARIABLES
    entries,    \* bag of the pairs in the dictionary
    removed,    \* bag of the removed pairs that have not been forgotten
    capacity,   \* how many pairs fit
    answer      \* what the call that has just returned gave back

vars == <<entries, removed, capacity, answer>>

Pair(k, v) == SetToBag({<<k, v>>})

Empty(c) == entries' = EmptyBag /\ removed' = EmptyBag /\ capacity' = c

Answer(op, k, r) == answer' = [op |-> op, key |-> k, result |-> r]

Init ==
    /\ entries = EmptyBag
    /\ removed = EmptyBag
    /\ capacity \in Capacity
    /\ answer = NoAnswer

\* The pair takes free room or the room of a removed pair.
Add(op, k, v) ==
    /\ BagCardinality(entries) < capacity
    /\ entries' = entries (+) Pair(k, v)
    /\ removed' = removed \/ \E p \in BagToSet(removed) : removed' = removed (-) SetToBag({p})
    /\ Answer(op, k, v)
    /\ UNCHANGED capacity

\* One pair of the key leaves the dictionary.
TakeOut(k) ==
    /\ \E v \in Value \cup {Stale} :
          /\ BagIn(<<k, v>>, entries)
          /\ entries' = entries (-) Pair(k, v)
          /\ removed' = removed (+) Pair(k, v)
    /\ UNCHANGED capacity

IsAbsent(k) == \A v \in Value \cup {Stale} : ~BagIn(<<k, v>>, entries)

Remove(k) ==
    \/ TakeOut(k) /\ Answer("remove", k, 1)
    \/ IsAbsent(k) /\ Answer("remove", k, 0) /\ UNCHANGED <<entries, removed, capacity>>

\* The body of an iteration removes without an answer to the caller.
RemoveWhileIterating(k) == TakeOut(k) /\ UNCHANGED answer

Get(k) ==
    /\ \/ IsAbsent(k) /\ Answer("get", k, NULL)
       \/ \E v \in Value \cup {Stale} : BagIn(<<k, v>>, entries) /\ Answer("get", k, v)
    /\ UNCHANGED <<entries, removed, capacity>>

\* All the pairs are kept, with all the removed ones, when there is room for both;
\* otherwise as many of both as there is room for.
Resize(c) ==
    LET all == entries (+) removed IN
    /\ entries' \sqsubseteq all
    /\ BagCardinality(entries') = IF BagCardinality(all) <= c THEN BagCardinality(all) ELSE c
    /\ removed' = EmptyBag
    /\ capacity' = c
    /\ answer' \in {NoAnswer, [op |-> "resize", key |-> Stale, result |-> NULL]}

Reinit(c) == Empty(c) /\ Answer("init", Stale, NULL)

\* A call that is still running, or never returns, has no answer yet.
Begin == answer' = NoAnswer /\ UNCHANGED <<entries, removed, capacity>>

EndIteration(op) ==
    Answer(op, Stale, NULL) /\ UNCHANGED <<entries, removed, capacity>>

Next ==
    \/ \E op \in {"add", "add_empty", "add_resize_factor"}, k \in Key, v \in Value \cup {Stale} :
          Add(op, k, v)
    \/ \E k \in Key : Remove(k) \/ RemoveWhileIterating(k) \/ Get(k)
    \/ \E c \in Capacity : Resize(c) \/ Reinit(c)
    \/ Begin
    \/ \E op \in {"for", "for_remove"} : EndIteration(op)

Spec == Init /\ [][Next]_vars
====
