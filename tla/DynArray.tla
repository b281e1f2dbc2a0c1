---- MODULE DynArray ----
(***************************************************************************)
(* dyn_array.c: a caller's operations on one Cut_Dyn_Array, one step each; *)
(* the iteration macro, whose body may change the array, goes element by   *)
(* element.  Writing past the block leaves the caller in pc = "overrun",   *)
(* where nothing more can be said of the program.                          *)
(***************************************************************************)
EXTENDS DynArrayData, Sequences

CONSTANTS
    Capacities,     \* capacities a caller passes to init and resize
    Increments,     \* increments of the array
    MaxMany,        \* bound: elements in one add_back_many
    MaxCapacity     \* bound: no caller grows an array beyond it

ASSUME DynArrayAssumption ==
    /\ Capacities \subseteq Nat
    /\ Increments \subseteq Nat
    /\ MaxMany \in Nat
    /\ MaxCapacity \in Nat

VARIABLES
    arr,    \* the caller's array
    i,      \* loop index of cut_dyn_array_for (cut_i)
    pc,     \* where the caller is
    body,   \* what the body of the loop may do besides reading
    call    \* history: the last call that has returned, with what it was asked or answered

vars == <<arr, i, pc, body, call>>

\* cut_dyn_array_init leaves count alone: it is 0 in the record that the macro makes.
Init ==
    /\ \E c \in Capacities, inc \in Increments : arr = EmptyArray(c, inc)
    /\ i = 0
    /\ pc = "ready"
    /\ body = "read"
    /\ call = <<"init">>

----------------------------------------------------------------------------
\* cut_dyn_array_add_back_empty and the copy of add_back.  An empty element keeps the bytes
\* that were there.
Put(grown, v, this) ==
    /\ grown.capacity <= MaxCapacity
    /\ IF grown.count < grown.capacity
       THEN arr' = Appended(grown, <<v>>, 1) /\ pc' = pc /\ call' = this
       ELSE arr' = grown /\ pc' = "overrun" /\ UNCHANGED call

AddBack(v) == pc = "ready" /\ Put(Grown(arr), v, <<"add_back", v>>) /\ UNCHANGED <<i, body>>

AddBackEmpty ==
    /\ pc = "ready"
    /\ LET g == Grown(arr) IN
       Put(g, IF g.count < g.capacity THEN g.data[g.count] ELSE Unwritten, <<"add_back_empty">>)
    /\ UNCHANGED <<i, body>>

\* The value is an element of the array itself.  When the array grows, the block it is in
\* may be gone before it is read.
AddBackOwn(index) ==
    /\ pc = "ready"
    /\ LET stays == arr.count < arr.capacity IN
       \E v \in IF stays THEN {arr.data[index]} ELSE Item :
          Put(Grown(arr), v, <<"add_back_own", index, stays>>)
    /\ UNCHANGED <<i, body>>

AddBackMany(vals) ==
    /\ pc = "ready"
    /\ LET g == GrownMany(arr, Len(vals)) IN
          /\ g.capacity <= MaxCapacity
          /\ IF g.count + Len(vals) <= g.capacity
             THEN arr' = Appended(g, vals, Len(vals)) /\ pc' = pc /\ call' = <<"add_back_many", vals>>
             ELSE arr' = g /\ pc' = "overrun" /\ UNCHANGED call
    /\ UNCHANGED <<i, body>>

\* cut_dyn_array_at and cut_dyn_array_back give a pointer that the caller may write to.
WriteAt(index, v) ==
    /\ pc = "ready"
    /\ arr' = [arr EXCEPT !.data[index] = v]
    /\ call' = <<"at", index, v>>
    /\ UNCHANGED <<i, pc, body>>

RemoveBack ==
    /\ pc = "ready"
    /\ arr.count > 0
    /\ arr' = [arr EXCEPT !.count = arr.count - 1]
    /\ call' = <<"remove_back">>
    /\ UNCHANGED <<i, pc, body>>

RemoveAt(index) ==
    /\ pc = "ready"
    /\ \E from \in CopiesOf(arr, index) :
          arr' = RemovedAt(arr, index, from) /\ call' = <<"remove_at", index, InOrder(from)>>
    /\ UNCHANGED <<i, pc, body>>

SetAll(v) ==
    /\ pc = "ready"
    /\ arr' = Filled(arr, v)
    /\ call' = <<"set_all", v>>
    /\ UNCHANGED <<i, pc, body>>

Clear ==
    /\ pc = "ready"
    /\ arr' = [arr EXCEPT !.count = 0]
    /\ call' = <<"clear">>
    /\ UNCHANGED <<i, pc, body>>

Resize(capacity) ==
    /\ pc = "ready"
    /\ arr' = Resized(arr, capacity)
    /\ call' = <<"resize", capacity>>
    /\ UNCHANGED <<i, pc, body>>

Deinit ==
    /\ pc = "ready"
    /\ pc' = "freed"
    /\ call' = <<"deinit">>
    /\ UNCHANGED <<arr, i, body>>

----------------------------------------------------------------------------
\* cut_dyn_array_for, with a body that reads, that may remove the element it is given, or
\* that may add one.
ForBegin(b) ==
    /\ pc = "ready"
    /\ pc' = "for"
    /\ body' = b
    /\ call' = <<"for">>
    /\ UNCHANGED <<arr, i>>

ForRead ==
    /\ pc = "for"
    /\ i < arr.count
    /\ i' = i + 1
    /\ call' = <<"for_read", arr.data[i]>>
    /\ UNCHANGED <<arr, pc, body>>

ForRemoveAt ==
    /\ pc = "for"
    /\ body = "remove"
    /\ i < arr.count
    /\ \E from \in CopiesOf(arr, i) :
          arr' = RemovedAt(arr, i, from) /\ call' = <<"for_remove_at", arr.data[i], InOrder(from)>>
    /\ i' = i + 1
    /\ UNCHANGED <<pc, body>>

ForAddBack(v) ==
    /\ pc = "for"
    /\ body = "add"
    /\ i < arr.count
    /\ Put(Grown(arr), v, <<"for_add_back", arr.data[i], v>>)
    /\ i' = IF pc' = "overrun" THEN i ELSE i + 1
    /\ UNCHANGED body

ForEnd ==
    /\ pc = "for"
    /\ i >= arr.count
    /\ i' = 0
    /\ pc' = "ready"
    /\ call' = <<"for_end">>
    /\ UNCHANGED <<arr, body>>

Many == UNION {[1 .. n -> Elem] : n \in 0 .. MaxMany}

ForStep == ForRead \/ ForRemoveAt \/ (\E v \in Elem : ForAddBack(v)) \/ ForEnd

Next ==
    \/ \E v \in Elem : AddBack(v)
    \/ AddBackEmpty
    \/ \E index \in 0 .. arr.count - 1 : AddBackOwn(index)
    \/ \E vals \in Many : AddBackMany(vals)
    \/ \E index \in 0 .. arr.count - 1, v \in Elem : WriteAt(index, v)
    \/ RemoveBack
    \/ \E index \in 0 .. arr.count - 1 : RemoveAt(index)
    \/ \E v \in Elem : SetAll(v)
    \/ Clear
    \/ \E c \in Capacities : Resize(c)
    \/ Deinit
    \/ \E b \in {"read", "remove", "add"} : ForBegin(b)
    \/ ForStep

Spec == Init /\ [][Next]_vars

----------------------------------------------------------------------------
\* Properties.

\* The array is a well-formed record and the caller at one of its places.
TypeOK ==
    /\ IsArray(arr)
    /\ i \in Nat
    /\ pc \in {"ready", "for", "overrun", "freed"}
    /\ body \in {"read", "remove", "add"}
    /\ pc \in {"ready", "freed"} => i = 0

\* The elements are inside the block, and only an add_back to an array that cannot grow,
\* its increment being 0, writes past it: the sizes that add_back and add_back_many grow
\* to are always enough.
CountFits ==
    /\ arr.count <= arr.capacity
    /\ pc = "overrun" => arr.increment = 0 /\ arr.count = arr.capacity

Promised == INSTANCE List WITH list <- ContentsOf(arr), next <- i

\* Whatever the array's block went through, its elements are those of a sequence that the same
\* calls were made on, with the same arguments, and an iteration gives its body the elements of
\* that sequence in order.  After remove_at it is that sequence where memcpy has moved
\* every element by one place, as tests/dyn_array_tests.c has it; otherwise the elements before the
\* removed one are as they were, and each place behind has an element that was behind it.
ImplementsList == Promised!Spec
====
