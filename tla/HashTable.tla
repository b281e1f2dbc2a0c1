---- MODULE HashTable ----
(***************************************************************************)
(* hash_table.c: a caller's operations on one Cut_Hash_Table.  A walk over *)
(* the slots is one step here (HashTableWalk takes it apart).  A walk that *)
(* never ends leaves the caller in pc = "looping" for ever.  The two loops *)
(* that change a table under their own feet, the copy of resize and        *)
(* cut_hash_table_for, are taken one slot at a time.                       *)
(***************************************************************************)
EXTENDS HashTableData

CONSTANTS
    Capacities,     \* capacities a caller passes to init and resize
    Thresholds,     \* threshold_factor: percentages passed to add_resize_factor
    Increments,     \* increments passed to add_resize_factor
    MaxCapacity,    \* bound: no caller grows a table beyond it
    NULL            \* the null pointer: the key was not found

ASSUME CapacitiesAssumption ==
    /\ Capacities \subseteq Nat \ {0}
    /\ Increments \subseteq Nat
    /\ Thresholds \subseteq Nat
    /\ MaxCapacity \in Nat

ASSUME NullAssumption == NULL \notin Key \cup Value \cup {Garbage}

VARIABLES
    ht,     \* the caller's table
    new,    \* the table resize fills, NoTable outside of it
    i,      \* loop index of resize (i) and of cut_hash_table_for (cut_i)
    j,      \* cut_hash_table_for: elements met so far (cut_j)
    pc,     \* where the caller is
    call,   \* the call being executed
    last    \* what the call that has just returned gave back

vars == <<ht, new, i, j, pc, call, last>>

NoCall == [op |-> "none", key |-> Garbage, value |-> Garbage]

NoAnswer == [op |-> "none", key |-> Garbage, result |-> NULL]

Call(op, k, v) == [op |-> op, key |-> k, value |-> v]

Return(op, k, r) ==
    /\ pc' = "ready"
    /\ call' = NoCall
    /\ last' = [op |-> op, key |-> k, result |-> r]

\* The walk never ends: neither does the call.
LoopForever(op, k, v) ==
    /\ pc' = "looping"
    /\ call' = Call(op, k, v)
    /\ last' = NoAnswer
    /\ UNCHANGED ht

Init ==
    /\ ht \in {EmptyTable(c) : c \in Capacities}
    /\ new = NoTable
    /\ i = 0
    /\ j = 0
    /\ pc = "ready"
    /\ call = NoCall
    /\ last = NoAnswer

----------------------------------------------------------------------------
\* cut_hash_table_add and cut_hash_table_add_empty do not look for an equal key: adding a
\* key that is there already makes a second element of it.
InsertInto(op, k, v) ==
    IF Landing(ht, k, AddStops(ht)) = {}
    THEN LoopForever(op, k, v)
    ELSE \E s \in Landing(ht, k, AddStops(ht)) :
            /\ ht' = Store(ht, s, k, v)
            /\ Return(op, k, v)

Add(k, v) ==
    /\ pc = "ready"
    /\ InsertInto("add", k, v)
    /\ UNCHANGED <<new, i, j>>

AddEmpty(k) ==
    /\ pc = "ready"
    /\ IF Landing(ht, k, AddStops(ht)) = {}
       THEN LoopForever("add_empty", k, Garbage)
       ELSE \E s \in Landing(ht, k, AddStops(ht)) :
               /\ ht' = StoreKey(ht, s, k)
               /\ Return("add_empty", k, ht.elements[s].value)
    /\ UNCHANGED <<new, i, j>>

Remove(k) ==
    /\ pc = "ready"
    /\ LET stops == RemoveStops(ht, k) IN
       IF Landing(ht, k, stops) = {}
       THEN LoopForever("remove", k, Garbage)
       ELSE \E s \in Landing(ht, k, stops) :
               IF s \in Unoccupied(ht)
               THEN ht' = ht /\ Return("remove", k, 0)
               ELSE ht' = Erase(ht, s) /\ Return("remove", k, 1)
    /\ UNCHANGED <<new, i, j>>

\* cut_hash_table_get; cut_hash_table_get_kv walks in the same way.
Get(k) ==
    /\ pc = "ready"
    /\ LET stops == GetStops(ht, k) IN
       IF Landing(ht, k, stops) = {}
       THEN LoopForever("get", k, Garbage)
       ELSE \E s \in Landing(ht, k, stops) :
               /\ ht' = ht
               /\ Return("get", k, IF s \in Unoccupied(ht) THEN NULL
                                                           ELSE ht.elements[s].value)
    /\ UNCHANGED <<new, i, j>>

----------------------------------------------------------------------------
\* cut_hash_table_resize: allocate the new table, copy slot after slot, free the old one.
ResizeBegin(op, k, v, capacity) ==
    /\ new' = EmptyTable(capacity)
    /\ i' = 0
    /\ pc' = "resizing"
    /\ call' = Call(op, k, v)
    /\ last' = NoAnswer
    /\ UNCHANGED <<ht, j>>

Resize(capacity) ==
    /\ pc = "ready"
    /\ ResizeBegin("resize", Garbage, Garbage, capacity)

\* Every slot that is not unoccupied is added to the new table, the removed ones included.
ResizeCopy ==
    /\ pc = "resizing"
    /\ i < ht.capacity
    /\ new.count # new.capacity
    /\ IF i \in Unoccupied(ht)
       THEN i' = i + 1 /\ UNCHANGED <<new, pc>>
       ELSE LET k == ht.elements[i].key
                v == ht.elements[i].value
                stops == AddStops(new)
            IN  IF Landing(new, k, stops) = {}
                THEN pc' = "looping" /\ UNCHANGED <<new, i>>
                ELSE /\ \E s \in Landing(new, k, stops) : new' = Store(new, s, k, v)
                     /\ i' = i + 1
                     /\ pc' = pc
    /\ UNCHANGED <<ht, j, call, last>>

\* Fault: the copy stops at the smaller capacity (to_copy).
ResizeEndEarly ==
    /\ pc = "resizing"
    /\ i >= ht.capacity \/ i >= new.capacity
    /\ ht' = new
    /\ new' = NoTable
    /\ i' = 0
    /\ Return("resize", Garbage, NULL)
    /\ UNCHANGED j

\* The old elements are freed and *ht = new; add_resize_factor goes on with its add.
ResizeEnd ==
    /\ pc = "resizing"
    /\ i = ht.capacity \/ new.count = new.capacity
    /\ ht' = new
    /\ new' = NoTable
    /\ i' = 0
    /\ IF call.op = "resize"
       THEN Return("resize", Garbage, NULL)
       ELSE pc' = "adding" /\ UNCHANGED <<call, last>>
    /\ UNCHANGED j

AddResizeFactor(k, v, threshold, increment) ==
    /\ pc = "ready"
    /\ IF FillFactor(ht) >= threshold
       THEN /\ ht.capacity + increment <= MaxCapacity
            /\ ResizeBegin("add_resize_factor", k, v, ht.capacity + increment)
       ELSE /\ InsertInto("add_resize_factor", k, v)
            /\ UNCHANGED <<new, i, j>>

AddAfterResize ==
    /\ pc = "adding"
    /\ InsertInto("add_resize_factor", call.key, call.value)
    /\ UNCHANGED <<new, i, j>>

----------------------------------------------------------------------------
\* cut_hash_table_for, with a body that reads ("for") or that may remove the key of the
\* element it is at ("for_remove").
ForBegin(op) ==
    /\ pc = "ready"
    /\ i' = 0
    /\ j' = 0
    /\ pc' = "for"
    /\ call' = Call(op, Garbage, Garbage)
    /\ last' = NoAnswer
    /\ UNCHANGED <<ht, new>>

\* Fault: cut_j counts the slots, not the elements.
ForSkipCounting ==
    /\ pc = "for"
    /\ j < ht.count
    /\ ht.elements[i].hash < FIRST_VALID
    /\ i' = i + 1
    /\ j' = j + 1
    /\ UNCHANGED <<ht, new, pc, call, last>>

ForSkip ==
    /\ pc = "for"
    /\ j < ht.count
    /\ ht.elements[i].hash < FIRST_VALID
    /\ i' = i + 1
    /\ UNCHANGED <<ht, new, j, pc, call, last>>

ForRead ==
    /\ pc = "for"
    /\ j < ht.count
    /\ ht.elements[i].hash >= FIRST_VALID
    /\ i' = i + 1
    /\ j' = j + 1
    /\ UNCHANGED <<ht, new, pc, call, last>>

ForRemove ==
    /\ pc = "for"
    /\ call.op = "for_remove"
    /\ j < ht.count
    /\ ht.elements[i].hash >= FIRST_VALID
    /\ LET k == ht.elements[i].key IN
       \E s \in Landing(ht, k, RemoveStops(ht, k)) :
          ht' = IF s \in Unoccupied(ht) THEN ht ELSE Erase(ht, s)
    /\ i' = i + 1
    /\ j' = j + 1
    /\ UNCHANGED <<new, pc, call, last>>

ForEnd ==
    /\ pc = "for"
    /\ j >= ht.count
    /\ i' = 0
    /\ j' = 0
    /\ Return(call.op, Garbage, NULL)
    /\ UNCHANGED <<ht, new>>

----------------------------------------------------------------------------
\* The elements are freed; the structure may be initialised again.
Deinit ==
    /\ pc = "ready"
    /\ pc' = "freed"
    /\ last' = NoAnswer
    /\ UNCHANGED <<ht, new, i, j, call>>

Reinit(capacity) ==
    /\ pc = "freed"
    /\ ht' = EmptyTable(capacity)
    /\ Return("init", Garbage, NULL)
    /\ UNCHANGED <<new, i, j>>

\* The caller has no more use for what the last call gave back.
Forget ==
    /\ pc = "ready"
    /\ last' = NoAnswer
    /\ UNCHANGED <<ht, new, i, j, pc, call>>

\* "goto loop" without end.
Spin == pc = "looping" /\ UNCHANGED vars

Next ==
    \/ \E k \in Key, v \in Value : Add(k, v)
    \/ \E k \in Key : AddEmpty(k)
    \/ \E k \in Key : Remove(k)
    \/ \E k \in Key : Get(k)
    \/ \E c \in Capacities : Resize(c)
    \/ ResizeCopy
    \/ ResizeEnd
    \/ \E k \in Key, v \in Value, th \in Thresholds, inc \in Increments :
          AddResizeFactor(k, v, th, inc)
    \/ AddAfterResize
    \/ \E op \in {"for", "for_remove"} : ForBegin(op)
    \/ ForSkip
    \/ ForRead
    \/ ForRemove
    \/ ForEnd
    \/ Deinit
    \/ \E c \in Capacities : Reinit(c)
    \/ Forget
    \/ Spin

Spec == Init /\ [][Next]_vars

----------------------------------------------------------------------------
\* Properties.

Ops == {"none", "init", "add", "add_empty", "add_resize_factor", "remove", "get", "resize",
        "for", "for_remove"}

\* The tables are well-formed records and the caller is at one of its places; the new
\* table exists exactly while resize runs (or when it never returns).
TypeOK ==
    /\ IsTable(ht)
    /\ new = NoTable \/ IsTable(new)
    /\ i \in Nat
    /\ j \in Nat
    /\ pc \in {"ready", "resizing", "adding", "for", "freed", "looping"}
    /\ pc = "resizing" => new # NoTable
    /\ pc \in {"ready", "adding", "for", "freed"} => new = NoTable
    /\ call \in [op : Ops, key : Key \cup {Garbage}, value : Value \cup {Garbage}]
    /\ pc = "resizing" => call.op \in {"resize", "add_resize_factor"}
    /\ pc = "for" => call.op \in {"for", "for_remove"}
    /\ pc = "adding" => call.op = "add_resize_factor"
    /\ call.op = "add_resize_factor" => call.key \in Key /\ call.value \in Value
    /\ last \in [op : Ops, key : Key \cup {Garbage}, result : Value \cup {Garbage, NULL, 0, 1}]

\* count is the number of live elements, in the table and in the one resize is filling:
\* cut_hash_table_for, fill_factor and the end of the copy all trust it.
CountIsLive == Counted(ht) /\ (new # NoTable => Counted(new))

\* No live element is cut off from its key: the walk of the key comes to the element
\* before any unoccupied slot.  This is why removal leaves a mark instead of freeing the
\* slot, and why resize adds the elements again instead of copying the slots.
AllReachable == Reachable(ht) /\ (new # NoTable => Reachable(new))

\* get answers null only when no element has the key, and otherwise the value of one that
\* has; remove answers 0 only when no element has the key.
AnswersAreTrue ==
    /\ last.op = "get" /\ pc = "ready" =>
          IF last.result = NULL
          THEN LiveOf(ht, last.key) = {}
          ELSE \E s \in LiveOf(ht, last.key) : ht.elements[s].value = last.result
    /\ last.op = "remove" /\ last.result = 0 /\ pc = "ready" => LiveOf(ht, last.key) = {}

\* cut_hash_table_for never looks at a slot past the capacity, even when its body removes
\* the elements it is given: while it has not met count elements there is one left.
ForStaysInside == pc = "for" /\ j < ht.count => \E s \in Live(ht) : s >= i

\* A read-only cut_hash_table_for ends after having met every element.
ForMeetsAll == [][pc = "for" /\ pc' = "ready" /\ call.op = "for" => \A s \in Live(ht) : s < i]_vars

\* With a capacity that is a power of two a walk visits every slot, so add never fails to
\* return while the table has room, and a search never fails to return while the table has
\* an unoccupied slot; moving the elements to a larger table of such a capacity always
\* returns.
LoopsOnlyWhenExhausted ==
    pc = "looping" =>
        /\ call.op \in {"add", "add_empty", "add_resize_factor", "remove", "get", "resize"}
        /\ new # NoTable => ~IsPowerOfTwo(new.capacity)
        /\ new = NoTable /\ IsPowerOfTwo(ht.capacity) =>
              IF call.op \in {"remove", "get"} THEN Unoccupied(ht) = {} ELSE ht.count = ht.capacity

\* A resize to a table with a slot for every element, removed ones included, loses none.
ResizeLosesNone ==
    [][ResizeEnd /\ new.capacity >= Cardinality(Live(ht) \cup Removed(ht)) =>
          \A s \in Live(ht) : \E r \in Live(new) : new.elements[r] = ht.elements[s]]_vars

----------------------------------------------------------------------------
\* What the invariants rest on.

\* cut_hash_table_for has as many elements before it as it still has to meet; a body that
\* removes makes it stop early, never late.
ForLeft ==
    pc = "for" =>
        LET left == Cardinality(LiveFrom(ht, i))
        IN  /\ left >= ht.count - j
            /\ call.op = "for" => left = ht.count - j

\* The copy of resize has added every slot before i that is not unoccupied.
CopiedSoFar ==
    pc = "resizing" =>
        /\ i <= ht.capacity
        /\ new.count = Cardinality(UsedBefore(ht, i))
        /\ \A s \in Live(ht) : s < i => \E r \in Live(new) : new.elements[r] = ht.elements[s]

IInv ==
    /\ TypeOK
    /\ CountIsLive
    /\ AllReachable
    /\ AnswersAreTrue
    /\ ForLeft
    /\ CopiedSoFar

----------------------------------------------------------------------------
(***************************************************************************)
(* What the comments and tests of hash_table.c say of it, and the code     *)
(* does not do.                                                            *)
(***************************************************************************)

\* What a caller expects of resize: it changes the capacity and none of the elements.
ResizeAddsNone ==
    [][ResizeEnd =>
          \A r \in Live(new) : \E s \in Live(ht) : new.elements[r] = ht.elements[s]]_vars

\* The comment on get says that it returns a null pointer when the key is not found; the
\* comment on add makes an exception of a full table.
GetReturnsUnlessFull ==
    pc = "looping" /\ call.op = "get" => ht.count = ht.capacity
====
