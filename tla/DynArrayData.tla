---- MODULE DynArrayData ----
(***************************************************************************)
(* The value of a Cut_Dyn_Array (dyn_array.c) and the operations that      *)
(* compute on it.  Sizes are in elements: element_size is the same for all *)
(* of them.  The block that data points to has capacity elements; those    *)
(* that nothing has written are Unwritten.                                 *)
(***************************************************************************)
EXTENDS Integers

CONSTANTS
    Elem,       \* elements
    Unwritten   \* bytes of a block that nothing has written yet

ASSUME UnwrittenAssumption == Unwritten \notin Elem

Item == Elem \cup {Unwritten}

IsArray(a) ==
    /\ a.capacity \in Nat
    /\ a \in [data : [0 .. a.capacity - 1 -> Item], count : Nat, capacity : Nat, increment : Nat]

\* The elements, as a sequence.
ContentsOf(a) == [n \in 1 .. a.count |-> a.data[n - 1]]

EmptyArray(capacity, increment) ==
    [data      |-> [n \in 0 .. capacity - 1 |-> Unwritten],
     count     |-> 0,
     capacity  |-> capacity,
     increment |-> increment]

\* The allocator keeps the bytes that the old and the new block have in common.
Resized(a, capacity) ==
    [data      |-> [n \in 0 .. capacity - 1 |-> IF n < a.capacity THEN a.data[n] ELSE Unwritten],
     count     |-> IF a.count > capacity THEN capacity ELSE a.count,
     capacity  |-> capacity,
     increment |-> a.increment]

\* The array as add_back and add_back_many make it before they write.
Grown(a) == IF a.count = a.capacity THEN Resized(a, a.capacity + a.increment) ELSE a

\* Fault: one more block of increment elements is thought to be enough.
GrownByIncrement(a, n) ==
    IF a.count + n >= a.capacity THEN Resized(a, a.capacity + a.increment) ELSE a

GrownMany(a, n) ==
    IF a.count + n >= a.capacity
    THEN Resized(a, a.capacity + IF n > a.increment THEN n ELSE a.increment)
    ELSE a

\* vals[1], ..., vals[n] behind the last element.
Appended(a, vals, n) ==
    [data      |-> [x \in 0 .. a.capacity - 1 |->
                      IF a.count <= x /\ x < a.count + n THEN vals[x - a.count + 1] ELSE a.data[x]],
     count     |-> a.count + n,
     capacity  |-> a.capacity,
     increment |-> a.increment]

\* The elements behind index move by one place, with memcpy: source and destination overlap, and
\* the order that elements are copied in is undefined.  To a place comes the element behind it,
\* or, when that one has been copied over already, what has come to its place: for each place,
\* the one whose element comes to it.  In ascending order it is always the next; in descending
\* order the last.
CopiesOf(a, index) ==
    LET moved == index .. a.count - 2 IN
    {from \in [moved -> index + 1 .. a.count - 1] :
        \A x \in moved : from[x] = x + 1 \/ (x + 1 \in moved /\ from[x] = from[x + 1])}

\* Every element has moved by one place.
InOrder(from) == \A x \in DOMAIN from : from[x] = x + 1

\* Fault: one element too few is moved.
RemovedShort(a, index, from) ==
    [a EXCEPT !.count = a.count - 1,
              !.data = [x \in 0 .. a.capacity - 1 |->
                          IF index <= x /\ x < a.count - 2 THEN a.data[from[x]] ELSE a.data[x]]]

RemovedAt(a, index, from) ==
    [data      |-> [x \in 0 .. a.capacity - 1 |->
                      IF index <= x /\ x < a.count - 1 THEN a.data[from[x]] ELSE a.data[x]],
     count     |-> a.count - 1,
     capacity  |-> a.capacity,
     increment |-> a.increment]

Filled(a, v) ==
    [a EXCEPT !.data = [x \in 0 .. a.capacity - 1 |-> IF x < a.count THEN v ELSE a.data[x]]]
====
