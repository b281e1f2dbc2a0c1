---- MODULE HashTableData ----
(***************************************************************************)
(* The value of a Cut_Hash_Table (hash_table.c) and the operations that    *)
(* compute on it: the probe sequence of cut_hash_table_travel, the slots a *)
(* walk stops at, and the updates made where it stops.                     *)
(*                                                                         *)
(* A table is a record of its slots, its count and its capacity.  A slot   *)
(* keeps the bytes of its key and value when it is removed, because only   *)
(* its hash is overwritten; the bytes of a slot never written are Garbage. *)
(***************************************************************************)
EXTENDS Integers, FiniteSets

CONSTANTS
    Key,        \* keys, told apart by keys_are_same_proc
    Value,      \* values
    HashProc,   \* hash_proc: the same 32-bit number for equal keys
    Garbage     \* bytes of allocated memory that nothing has written yet

ASSUME HashProcAssumption == HashProc \in [Key -> Nat]
ASSUME GarbageAssumption  == Garbage \notin Key \cup Value

\* The hashes with a meaning of their own.
UNOCCUPIED  == 0
REMOVED     == 1
FIRST_VALID == 2

Element == [hash : Nat, key : Key \cup {Garbage}, value : Value \cup {Garbage}]

Slots(t) == 0 .. t.capacity - 1

\* The key of a slot is there to be read once the slot has been used.
IsTable(t) ==
    /\ t.capacity \in Nat \ {0}
    /\ t \in [elements : [Slots(t) -> Element], count : Nat, capacity : Nat]
    /\ \A s \in Slots(t) : t.elements[s].hash # UNOCCUPIED => t.elements[s].key \in Key

EmptyTable(capacity) ==
    [elements |-> [s \in 0 .. capacity - 1 |->
                     [hash |-> UNOCCUPIED, key |-> Garbage, value |-> Garbage]],
     count    |-> 0,
     capacity |-> capacity]

\* In the place of a table that does not exist.
NoTable == [elements |-> << >>, count |-> 0, capacity |-> 0]

Live(t)       == {s \in Slots(t) : t.elements[s].hash >= FIRST_VALID}
Removed(t)    == {s \in Slots(t) : t.elements[s].hash = REMOVED}
Unoccupied(t) == {s \in Slots(t) : t.elements[s].hash = UNOCCUPIED}
LiveOf(t, k)  == {s \in Live(t) : t.elements[s].key = k}

\* Where the loops over all the slots are: what is left to meet, what has been passed.
LiveFrom(t, n)   == {s \in Live(t) : s >= n}
UsedBefore(t, n) == {s \in Live(t) \cup Removed(t) : s < n}

\* Fault: the reserved hashes are used as they come.
HashOfUnmoved(k) == HashProc[k]

\* The two reserved hashes are moved out of the way.
HashOf(k) == IF HashProc[k] < FIRST_VALID THEN HashProc[k] + FIRST_VALID
                                          ELSE HashProc[k]

----------------------------------------------------------------------------
(***************************************************************************)
(* The walk.  The loop adds probe_inc = 1, 2, 3, ... to the index, so the  *)
(* n-th slot it looks at is n(n+1)/2 slots after the first.  That sequence *)
(* repeats after 2*capacity slots at the latest: a walk that has not       *)
(* stopped by then is taken never to.  (The counters have 32 bits: after   *)
(* 2^32 turns they wrap, which this model leaves out.)                     *)
(***************************************************************************)
\* Fault: the index moves by the square of the turn.
ProbeSquares(t, hash, n) == (hash + n * n) % t.capacity

Probe(t, hash, n) == (hash + (n * (n + 1)) \div 2) % t.capacity

ProbeCount(t) == 2 * t.capacity

\* Fault: get also compares the keys of removed elements.
GetStopsAtRemoved(t, k) ==
    Unoccupied(t) \cup {s \in Live(t) \cup Removed(t) : t.elements[s].key = k}

\* The slots a walk stops at.
AddStops(t)       == Unoccupied(t) \cup Removed(t)
RemoveStops(t, k) == Unoccupied(t) \cup {s \in LiveOf(t, k) : t.elements[s].hash = HashOf(k)}
GetStops(t, k)    == Unoccupied(t) \cup LiveOf(t, k)

\* The slot where the walk of k ends, as a set: it has one member, or none when the walk
\* never ends.
Landing(t, k, stops) ==
    {s \in stops : \E n \in 0 .. ProbeCount(t) - 1 :
                      /\ Probe(t, HashOf(k), n) = s
                      /\ \A m \in 0 .. n - 1 : Probe(t, HashOf(k), m) \notin stops}

----------------------------------------------------------------------------
\* add_empty leaves the value bytes of the slot as they are; add then writes them.
Store(t, s, k, v) ==
    [elements |-> [t.elements EXCEPT ![s] = [hash |-> HashOf(k), key |-> k, value |-> v]],
     count    |-> t.count + 1,
     capacity |-> t.capacity]

StoreKey(t, s, k) == Store(t, s, k, t.elements[s].value)

\* Fault: remove frees the slot instead of marking it.
EraseUnmarked(t, s) ==
    [t EXCEPT !.elements[s].hash = UNOCCUPIED, !.count = t.count - 1]

\* Fault: remove forgets the count.
EraseUncounted(t, s) == [t EXCEPT !.elements[s].hash = REMOVED]

\* remove overwrites the hash only.
Erase(t, s) ==
    [elements |-> [t.elements EXCEPT ![s] = [hash  |-> REMOVED,
                                             key   |-> t.elements[s].key,
                                             value |-> t.elements[s].value]],
     count    |-> t.count - 1,
     capacity |-> t.capacity]

\* The percentage of live slots, truncated to a whole number.  It is computed with floats: up
\* to a capacity of 4096 the result is the exact one, except that 53% gives 52 and 59% gives 58.
FillFactor(t) ==
    LET exact == (100 * t.count) \div t.capacity
    IN  IF 100 * t.count = exact * t.capacity /\ exact \in {53, 59} THEN exact - 1 ELSE exact

----------------------------------------------------------------------------
\* What every table that the operations built satisfies.

\* Every live slot is reached by the walk of its own key before any unoccupied slot.
Reachable(t) ==
    \A s \in Live(t) :
        /\ t.elements[s].hash = HashOf(t.elements[s].key)
        /\ \E n \in 0 .. ProbeCount(t) - 1 :
              /\ Probe(t, t.elements[s].hash, n) = s
              /\ \A m \in 0 .. n - 1 : Probe(t, t.elements[s].hash, m) \notin Unoccupied(t)

Counted(t) == t.count = Cardinality(Live(t))

\* No odd number but 1 divides a power of two.
IsPowerOfTwo(n) == \A d \in 2 .. n : n % d = 0 => d % 2 = 0
====
