---- MODULE HashTableWalk ----
(***************************************************************************)
(* hash_table.c with cut_hash_table_travel taken apart: one step for each  *)
(* turn of its loop.  HashTable takes a whole walk in one step and says    *)
(* where it ends with a closed formula; this module shows that the loop    *)
(* ends there, that it ends at all when it should, and that it goes on for *)
(* ever exactly when HashTable says so.                                    *)
(***************************************************************************)
EXTENDS HashTableDictionary

VARIABLES
    walk,   \* the local variables of the walk being executed
    lost    \* prophecy, of no effect on the rest: the closed formula says that the walk
            \* being executed will never end

walkVars == <<vars, walk, lost>>

NoWalk == [proc |-> "none", op |-> "none", key |-> Garbage, value |-> Garbage,
           index |-> 0, probe_inc |-> 0]

Walking == walk.proc # "none"

\* The add of a resize walks the new table, everything else the caller's table.
Walked == IF pc = "resizing" THEN new ELSE ht

\* The slots the walk of a procedure stops at.
StopsOf(proc, t, k) ==
    IF proc = "get" THEN GetStops(t, k)
    ELSE IF proc = "remove" THEN RemoveStops(t, k)
    ELSE AddStops(t)

\* Only the remainder of probe_inc by the capacity has an effect on the index, so that is
\* what is kept of it.
Start(proc, op, t, k, v) ==
    /\ walk' = [proc |-> proc, op |-> op, key |-> k, value |-> v,
                index |-> HashOf(k) % t.capacity, probe_inc |-> 1 % t.capacity]
    /\ lost' = (Landing(t, k, StopsOf(proc, t, k)) = {})

Finish == walk' = NoWalk /\ lost' = FALSE

WalkInit == Init /\ walk = NoWalk /\ lost = FALSE

----------------------------------------------------------------------------
\* The callers of the walk.
Starts(op, proc, k, v) ==
    /\ pc = "ready" /\ ~Walking
    /\ Start(proc, op, ht, k, v)
    /\ last' = NoAnswer
    /\ UNCHANGED <<ht, new, i, j, pc, call>>

BeginAddResizeFactor(k, v, threshold, increment) ==
    /\ pc = "ready" /\ ~Walking
    /\ IF FillFactor(ht) >= threshold
       THEN AddResizeFactor(k, v, threshold, increment) /\ UNCHANGED <<walk, lost>>
       ELSE Starts("add_resize_factor", "add", k, v)

BeginAddAfterResize ==
    /\ pc = "adding" /\ ~Walking
    /\ Start("add", "add_resize_factor", ht, call.key, call.value)
    /\ UNCHANGED vars

CopySlot ==
    /\ pc = "resizing" /\ ~Walking
    /\ i < ht.capacity /\ new.count # new.capacity
    /\ IF i \in Unoccupied(ht)
       THEN i' = i + 1 /\ UNCHANGED <<ht, new, j, pc, call, last, walk, lost>>
       ELSE /\ Start("add", "copy", new, ht.elements[i].key, ht.elements[i].value)
            /\ UNCHANGED vars

BeginForRemove ==
    /\ pc = "for" /\ call.op = "for_remove" /\ ~Walking
    /\ j < ht.count /\ ht.elements[i].hash >= FIRST_VALID
    /\ Start("remove", "for_remove", ht, ht.elements[i].key, Garbage)
    /\ UNCHANGED vars

\* The steps that walk nowhere are those of HashTable.
Elsewhere ==
    /\ ~Walking
    /\ \/ \E c \in Capacities : Resize(c)
       \/ ResizeEnd
       \/ \E op \in {"for", "for_remove"} : ForBegin(op)
       \/ ForSkip
       \/ ForRead
       \/ ForEnd
       \/ Deinit
       \/ \E c \in Capacities : Reinit(c)
    /\ UNCHANGED <<walk, lost>>

----------------------------------------------------------------------------
\* One turn of the loop.
Found(t) == t.elements[walk.index]

\* Fault: add does not stop at removed slots.
MatchesNoReuse(t) ==
    \/ walk.proc = "get" /\ Found(t).hash >= FIRST_VALID /\ Found(t).key = walk.key
    \/ walk.proc = "remove" /\ Found(t).hash = HashOf(walk.key) /\ Found(t).key = walk.key

Matches(t) ==
    \/ walk.proc \in {"add", "add_empty"} /\ Found(t).hash = REMOVED
    \/ walk.proc = "get" /\ Found(t).hash >= FIRST_VALID /\ Found(t).key = walk.key
    \/ walk.proc = "remove" /\ Found(t).hash = HashOf(walk.key) /\ Found(t).key = walk.key

\* Fault: every walk stops at removed slots.
GoesOnWhileLive(t) == Found(t).hash >= FIRST_VALID /\ ~Matches(t)

GoesOn(t) == Found(t).hash > UNOCCUPIED /\ ~Matches(t)

\* Fault: the index always moves by one slot.
LoopByOne ==
    /\ Walking
    /\ GoesOn(Walked)
    /\ walk' = [walk EXCEPT !.index = (walk.index + walk.probe_inc) % Walked.capacity]
    /\ UNCHANGED <<vars, lost>>

Loop ==
    /\ Walking
    /\ GoesOn(Walked)
    /\ walk' = [walk EXCEPT !.index     = (walk.index + walk.probe_inc) % Walked.capacity,
                            !.probe_inc = (walk.probe_inc + 1) % Walked.capacity]
    /\ UNCHANGED <<vars, lost>>

EndAdd ==
    /\ walk.proc = "add"
    /\ ~GoesOn(Walked)
    /\ IF pc = "resizing"
       THEN /\ new' = Store(new, walk.index, walk.key, walk.value)
            /\ i' = i + 1
            /\ UNCHANGED <<ht, pc, call, last>>
       ELSE /\ ht' = Store(ht, walk.index, walk.key, walk.value)
            /\ Return(walk.op, walk.key, walk.value)
            /\ UNCHANGED <<new, i>>
    /\ Finish
    /\ UNCHANGED j

EndAddEmpty ==
    /\ walk.proc = "add_empty"
    /\ ~GoesOn(ht)
    /\ ht' = StoreKey(ht, walk.index, walk.key)
    /\ Return("add_empty", walk.key, Found(ht).value)
    /\ Finish
    /\ UNCHANGED <<new, i, j>>

EndRemove ==
    /\ walk.proc = "remove"
    /\ ~GoesOn(ht)
    /\ ht' = IF Matches(ht) THEN Erase(ht, walk.index) ELSE ht
    /\ IF pc = "for"
       THEN /\ i' = i + 1
            /\ j' = j + 1
            /\ UNCHANGED <<pc, call, last>>
       ELSE /\ Return("remove", walk.key, IF Matches(ht) THEN 1 ELSE 0)
            /\ UNCHANGED <<i, j>>
    /\ Finish
    /\ UNCHANGED new

EndGet ==
    /\ walk.proc = "get"
    /\ ~GoesOn(ht)
    /\ Return("get", walk.key, IF Matches(ht) THEN Found(ht).value ELSE NULL)
    /\ Finish
    /\ UNCHANGED <<ht, new, i, j>>

WalkNext ==
    \/ \E k \in Key, v \in Value : Starts("add", "add", k, v)
    \/ \E k \in Key, op \in {"add_empty", "remove", "get"} : Starts(op, op, k, Garbage)
    \/ \E k \in Key, v \in Value, th \in Thresholds, inc \in Increments :
          BeginAddResizeFactor(k, v, th, inc)
    \/ BeginAddAfterResize
    \/ CopySlot
    \/ BeginForRemove
    \/ Elsewhere
    \/ Loop
    \/ EndAdd
    \/ EndAddEmpty
    \/ EndRemove
    \/ EndGet

\* The processor goes on executing a call that has begun; a caller may stop calling.
InCall == Walking \/ pc \in {"resizing", "adding", "for"}

WalkSpec == WalkInit /\ [][WalkNext]_walkVars /\ WF_walkVars(InCall /\ WalkNext)

----------------------------------------------------------------------------
\* Properties.

Atomic == INSTANCE HashTableDictionary
          WITH pc   <- IF lost THEN "looping" ELSE pc,
               call <- IF lost /\ pc = "ready" THEN Call(walk.op, walk.key, walk.value) ELSE call

\* The loop does what the closed formula of HashTable says: it ends at the same slot and
\* with the same effect, or never.
ImplementsHashTable == Atomic!Spec

\* Every slot is visited when the capacity is a power of two: an add returns if the table
\* has room, a search if it has an unoccupied slot, whatever marks removals have left.
WalksEnd ==
    LET room == IF walk.proc \in {"add", "add_empty"}
                THEN Walked.count < Walked.capacity
                ELSE Unoccupied(Walked) # {}
    IN  (Walking /\ IsPowerOfTwo(Walked.capacity) /\ room) ~> ~Walking

----------------------------------------------------------------------------
\* What the refinement rests on.

\* Who waits for the walk to end, and what the walk was started with.
ReadyToInsert ==
    /\ pc = "ready" /\ walk.proc = "add" /\ walk.value \in Value
    /\ walk.op \in {"add", "add_resize_factor"}
    /\ walk.op = "add_resize_factor" =>
          Increments # {} /\ \E th \in Thresholds : ~(FillFactor(ht) >= th)

ReadyToSearch ==
    /\ pc = "ready" /\ walk.proc \in {"add_empty", "remove", "get"}
    /\ walk.op = walk.proc /\ walk.value = Garbage

Adding ==
    /\ pc = "adding" /\ walk.proc = "add" /\ walk.op = "add_resize_factor"
    /\ walk.key = call.key /\ walk.value = call.value

Copying ==
    /\ pc = "resizing" /\ walk.proc = "add"
    /\ i < ht.capacity /\ new.count # new.capacity /\ i \notin Unoccupied(ht)
    /\ walk.key = ht.elements[i].key /\ walk.value = ht.elements[i].value

RemovingInFor ==
    /\ pc = "for" /\ walk.proc = "remove" /\ call.op = "for_remove"
    /\ j < ht.count /\ ht.elements[i].hash >= FIRST_VALID
    /\ walk.key = ht.elements[i].key

\* The walk is at a slot of the probe sequence of its key, it has passed no slot to stop at,
\* and the prophecy about it is the closed formula's.
AtSomeTurn ==
    LET stops == StopsOf(walk.proc, Walked, walk.key)
        probe(n) == Probe(Walked, HashOf(walk.key), n)
    IN  /\ \E n \in Nat : /\ walk.index = probe(n)
                          /\ walk.probe_inc = (n + 1) % Walked.capacity
                          /\ \A m \in 0 .. n - 1 : probe(m) \notin stops
        /\ lost = (Landing(Walked, walk.key, stops) = {})

WalkInv ==
    /\ IInv
    /\ DOMAIN walk = DOMAIN NoWalk
    /\ pc \in {"resizing", "adding", "for"} => last = NoAnswer
    /\ Walking => /\ ReadyToInsert \/ ReadyToSearch \/ Adding \/ Copying \/ RemovingInFor
                  /\ walk.key \in Key
                  /\ AtSomeTurn
    /\ ~Walking => walk = NoWalk /\ ~lost
====
