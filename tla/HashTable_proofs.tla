---- MODULE HashTable_proofs ----
(***************************************************************************)
(* Proofs about the hash table, for every set of keys, every hash function *)
(* and every capacity: the inductive invariant IInv of HashTable and what  *)
(* follows from it, then that the loop of the walk does what HashTable     *)
(* says (WalkInv), and that the table is a Dictionary (DictInv).           *)
(***************************************************************************)
EXTENDS HashTableWalk, Data_proofs

----------------------------------------------------------------------------
\* The invariant says of both tables that they are good.
LEMMA IInvGood ==
    ASSUME IInv
    PROVE  Good(ht) /\ (new # NoTable => Good(new))
BY DEF IInv, TypeOK, CountIsLive, AllReachable, Good

\* What is left to show of the invariant when both tables are good.
LEMMA GoodIInv ==
    ASSUME TypeOK, Good(ht), new # NoTable => Good(new), AnswersAreTrue, ForLeft, CopiedSoFar
    PROVE  IInv
BY DEF IInv, CountIsLive, AllReachable, Good

\* A table that init has made satisfies the invariant.
THEOREM InitIInv == Init => IInv
<1> SUFFICES ASSUME Init PROVE IInv
  OBVIOUS
<1>1. PICK c \in Capacities : ht = EmptyTable(c)
  BY DEF Init
<1>2. c \in Nat \ {0}
  BY CapacitiesAssumption
<1>3. Good(ht)
  BY <1>1, <1>2, EmptyGood
<1>4. TypeOK
  BY <1>3 DEF Init, TypeOK, Good, NoCall, NoAnswer, Ops
<1>5. AnswersAreTrue /\ ForLeft /\ CopiedSoFar
  BY DEF Init, AnswersAreTrue, ForLeft, CopiedSoFar, NoAnswer
<1> QED BY <1>3, <1>4, <1>5, GoodIInv DEF Init

\* Steps that change neither table.
LEMMA LookingIInv ==
    ASSUME IInv, ht' = ht, new' = new, TypeOK', AnswersAreTrue', ForLeft', CopiedSoFar'
    PROVE  IInv'
BY IInvGood DEF IInv, CountIsLive, AllReachable

\* A call that never returns.
LEMMA LoopForeverIInv ==
    ASSUME IInv, NEW op \in Ops, NEW k \in Key, NEW v \in Value \cup {Garbage},
           op = "add_resize_factor" => v \in Value,
           LoopForever(op, k, v), new' = new, i' = i, j' = j
    PROVE  IInv'
<1>1. TypeOK'
  BY DEF IInv, TypeOK, LoopForever, Call, NoAnswer, Ops
<1>2. AnswersAreTrue' /\ ForLeft' /\ CopiedSoFar'
  BY DEF LoopForever, AnswersAreTrue, ForLeft, CopiedSoFar, NoAnswer
<1> QED BY <1>1, <1>2, LookingIInv DEF LoopForever

\* An add in the caller's table.
LEMMA InsertIInv ==
    ASSUME IInv, pc \in {"ready", "adding"}, NEW op \in {"add", "add_resize_factor"},
           NEW k \in Key, NEW v \in Value,
           InsertInto(op, k, v), UNCHANGED <<new, i, j>>
    PROVE  IInv'
<1>1. CASE Landing(ht, k, AddStops(ht)) = {}
  BY <1>1, LoopForeverIInv DEF InsertInto, Ops
<1>2. CASE Landing(ht, k, AddStops(ht)) # {}
  <2>1. PICK s \in Landing(ht, k, AddStops(ht)) :
               ht' = Store(ht, s, k, v) /\ Return(op, k, v)
    BY <1>2 DEF InsertInto
  <2>2. Good(ht')
    BY <2>1, IInvGood, StoreGood
  <2>3. new = NoTable
    BY DEF IInv, TypeOK
  <2>4. TypeOK'
    BY <2>1, <2>2, <2>3 DEF IInv, TypeOK, Good, Return, NoCall, Ops
  <2>5. AnswersAreTrue' /\ ForLeft' /\ CopiedSoFar'
    BY <2>1 DEF Return, AnswersAreTrue, ForLeft, CopiedSoFar
  <2> QED BY <2>2, <2>3, <2>4, <2>5 DEF IInv, CountIsLive, AllReachable, Good
<1> QED BY <1>1, <1>2

\* An add that leaves the value bytes of the slot as they were.
LEMMA AddEmptyIInv ==
    ASSUME IInv, NEW k \in Key, AddEmpty(k)
    PROVE  IInv'
<1>1. CASE Landing(ht, k, AddStops(ht)) = {}
  BY <1>1, LoopForeverIInv DEF AddEmpty, Ops
<1>2. CASE Landing(ht, k, AddStops(ht)) # {}
  <2>1. PICK s \in Landing(ht, k, AddStops(ht)) :
               /\ ht' = StoreKey(ht, s, k)
               /\ Return("add_empty", k, ht.elements[s].value)
    BY <1>2 DEF AddEmpty
  <2>2. ht.elements[s].value \in Value \cup {Garbage}
    <3>1. s \in Slots(ht)
      BY DEF Landing, AddStops, Unoccupied, Removed
    <3> QED BY <3>1, IInvGood DEF Good, IsTable, Element
  <2>3. Good(ht')
    BY <2>1, <2>2, IInvGood, StoreGood DEF StoreKey
  <2>4. new = NoTable /\ UNCHANGED <<new, i, j>>
    BY DEF IInv, TypeOK, AddEmpty
  <2>5. TypeOK'
    BY <2>1, <2>2, <2>3, <2>4 DEF IInv, TypeOK, Good, Return, NoCall, Ops
  <2>6. AnswersAreTrue' /\ ForLeft' /\ CopiedSoFar'
    BY <2>1 DEF Return, AnswersAreTrue, ForLeft, CopiedSoFar
  <2> QED BY <2>3, <2>4, <2>5, <2>6 DEF IInv, CountIsLive, AllReachable, Good
<1> QED BY <1>1, <1>2

\* A remove answers truly and keeps the table good.
LEMMA RemoveIInv ==
    ASSUME IInv, NEW k \in Key, Remove(k)
    PROVE  IInv'
<1> DEFINE landing == Landing(ht, k, RemoveStops(ht, k))
<1>1. CASE landing = {}
  BY <1>1, LoopForeverIInv DEF Remove, Ops
<1>2. CASE landing # {}
  <2>1. PICK s \in landing : IF s \in Unoccupied(ht)
                             THEN ht' = ht /\ Return("remove", k, 0)
                             ELSE ht' = Erase(ht, s) /\ Return("remove", k, 1)
    BY <1>2 DEF Remove
  <2>2. new = NoTable /\ UNCHANGED <<new, i, j>>
    BY DEF IInv, TypeOK, Remove
  <2>3. Good(ht)
    BY IInvGood
  <2>4. CASE s \in Unoccupied(ht)
    <3>1. LiveOf(ht, k) = {}
      BY <2>3, <2>4, RemoveMissesNone
    <3>2. TypeOK'
      BY <2>1, <2>2, <2>4 DEF IInv, TypeOK, Return, NoCall, Ops
    <3>3. AnswersAreTrue' /\ ForLeft' /\ CopiedSoFar'
      BY <2>1, <2>4, <3>1 DEF Return, AnswersAreTrue, ForLeft, CopiedSoFar
    <3> QED BY <2>1, <2>2, <2>4, <3>2, <3>3, LookingIInv
  <2>5. CASE s \notin Unoccupied(ht)
    <3>1. s \in Live(ht)
      BY <2>5, SearchLands DEF LiveOf
    <3>2. Good(ht')
      BY <2>1, <2>3, <2>5, <3>1, EraseGood
    <3>3. TypeOK'
      BY <2>1, <2>2, <2>5, <3>2 DEF IInv, TypeOK, Good, Return, NoCall, Ops
    <3>4. AnswersAreTrue' /\ ForLeft' /\ CopiedSoFar'
      BY <2>1, <2>5 DEF Return, AnswersAreTrue, ForLeft, CopiedSoFar
    <3> QED BY <2>2, <3>2, <3>3, <3>4 DEF IInv, CountIsLive, AllReachable, Good
  <2> QED BY <2>4, <2>5
<1> QED BY <1>1, <1>2

\* A get answers truly.
LEMMA GetIInv ==
    ASSUME IInv, NEW k \in Key, Get(k)
    PROVE  IInv'
<1> DEFINE landing == Landing(ht, k, GetStops(ht, k))
<1>1. CASE landing = {}
  BY <1>1, LoopForeverIInv DEF Get, Ops
<1>2. CASE landing # {}
  <2>1. PICK s \in landing :
               /\ ht' = ht
               /\ Return("get", k, IF s \in Unoccupied(ht) THEN NULL ELSE ht.elements[s].value)
    BY <1>2 DEF Get
  <2>2. new = NoTable /\ UNCHANGED <<new, i, j>>
    BY DEF IInv, TypeOK, Get
  <2>3. Good(ht)
    BY IInvGood
  <2>4. s \in Slots(ht) /\ ht.elements[s].value \in Value \cup {Garbage}
    BY <2>3, SearchLands DEF Good, IsTable, Element, Unoccupied, LiveOf, Live
  <2>5. TypeOK'
    BY <2>1, <2>2, <2>4 DEF IInv, TypeOK, Return, NoCall, Ops
  <2>6. AnswersAreTrue'
    <3>1. CASE s \in Unoccupied(ht)
      <4>1. LiveOf(ht, k) = {}
        BY <2>3, <3>1, GetMissesNone
      <4> QED BY <2>1, <3>1, <4>1 DEF Return, AnswersAreTrue
    <3>2. CASE s \notin Unoccupied(ht)
      <4>1. s \in LiveOf(ht, k)
        BY <3>2, SearchLands
      <4>2. ht.elements[s].value # NULL
        BY <2>4, NullAssumption
      <4> QED BY <2>1, <3>2, <4>1, <4>2 DEF Return, AnswersAreTrue
    <3> QED BY <3>1, <3>2
  <2>7. ForLeft' /\ CopiedSoFar'
    BY <2>1 DEF Return, ForLeft, CopiedSoFar
  <2> QED BY <2>1, <2>2, <2>5, <2>6, <2>7, LookingIInv
<1> QED BY <1>1, <1>2

----------------------------------------------------------------------------
\* A resize begins with a fresh table and nothing copied.
LEMMA ResizeBeginIInv ==
    ASSUME IInv, NEW op \in {"resize", "add_resize_factor"},
           NEW k \in Key \cup {Garbage}, NEW v \in Value \cup {Garbage},
           op = "add_resize_factor" => k \in Key /\ v \in Value,
           NEW c \in Nat \ {0}, ResizeBegin(op, k, v, c)
    PROVE  IInv'
<1>1. /\ ht' = ht /\ new' = EmptyTable(c) /\ i' = 0 /\ j' = j
      /\ pc' = "resizing" /\ call' = Call(op, k, v) /\ last' = NoAnswer
  BY DEF ResizeBegin
<1>2. Good(new') /\ Good(ht)
  BY <1>1, EmptyGood, IInvGood
<1>3. TypeOK'
  <2>1. new' # NoTable
    BY <1>2 DEF Good, IsTable, NoTable
  <2> QED BY <1>1, <1>2, <2>1 DEF IInv, TypeOK, Good, Call, NoAnswer, Ops
<1>4. AnswersAreTrue' /\ ForLeft'
  BY <1>1 DEF AnswersAreTrue, ForLeft, NoAnswer
<1>5. CopiedSoFar'
  <2>1. UsedBefore(ht, 0) = {} /\ \A s \in Live(ht) : ~(s < 0)
    BY <1>2 DEF UsedBefore, Live, Removed, Slots, Good, IsTable
  <2>2. Cardinality(UsedBefore(ht, 0)) = 0
    BY <2>1, FS_EmptySet
  <2>3. ht.capacity \in Nat /\ EmptyTable(c).count = 0
    BY <1>2 DEF Good, IsTable, EmptyTable
  <2> QED BY <1>1, <2>1, <2>2, <2>3 DEF CopiedSoFar
<1> QED BY <1>1, <1>2, <1>3, <1>4, <1>5 DEF IInv, CountIsLive, AllReachable, Good

\* Copying one slot: the new table stays good and holds one more used slot.
LEMMA ResizeCopyIInv ==
    ASSUME IInv, ResizeCopy
    PROVE  IInv'
<1>1. /\ pc = "resizing" /\ i \in Slots(ht) /\ i \in Nat /\ new # NoTable
      /\ UNCHANGED <<ht, j, call, last>>
  BY DEF ResizeCopy, IInv, TypeOK, Slots, IsTable
<1>2. Good(ht) /\ Good(new)
  BY <1>1, IInvGood
<1>3. /\ i <= ht.capacity
      /\ new.count = Cardinality(UsedBefore(ht, i))
      /\ \A s \in Live(ht) : s < i => \E r \in Live(new) : new.elements[r] = ht.elements[s]
  BY <1>1 DEF IInv, CopiedSoFar
<1>4. i + 1 \in Nat /\ i + 1 <= ht.capacity /\ \A s \in Slots(ht) : s < i + 1 <=> s < i \/ s = i
  BY <1>1, <1>2 DEF Slots, Good, IsTable
<1>5. CASE i \in Unoccupied(ht)
  <2>1. i' = i + 1 /\ new' = new /\ pc' = pc
    BY <1>5 DEF ResizeCopy
  <2>2. i \notin Live(ht) \cup Removed(ht)
    BY <1>1, <1>2, <1>5, UsedOrNot DEF Good
  <2>3. UsedBefore(ht, i + 1) = UsedBefore(ht, i)
    BY <1>4, <2>2 DEF UsedBefore, Live, Removed
  <2>4. CopiedSoFar'
    BY <1>1, <1>3, <1>4, <2>1, <2>2, <2>3 DEF CopiedSoFar, Live
  <2>5. TypeOK'
    BY <1>1, <1>4, <2>1 DEF IInv, TypeOK
  <2>6. AnswersAreTrue' /\ ForLeft'
    BY <1>1, <2>1 DEF AnswersAreTrue, ForLeft
  <2> QED BY <1>1, <2>1, <2>4, <2>5, <2>6, LookingIInv
<1>6. CASE i \notin Unoccupied(ht)
  <2> DEFINE k == ht.elements[i].key
             v == ht.elements[i].value
  <2>1. /\ i \in Live(ht) \cup Removed(ht) /\ k \in Key /\ v \in Value \cup {Garbage}
        /\ ht.elements[i] = [hash |-> ht.elements[i].hash, key |-> k, value |-> v]
    BY <1>1, <1>2, <1>6, UsedOrNot DEF Good
  <2>2. CASE Landing(new, k, AddStops(new)) = {}
    <3>1. pc' = "looping" /\ new' = new /\ i' = i
      BY <1>6, <2>2 DEF ResizeCopy
    <3>2. TypeOK'
      BY <1>1, <3>1 DEF IInv, TypeOK
    <3>3. AnswersAreTrue' /\ ForLeft' /\ CopiedSoFar'
      BY <3>1 DEF AnswersAreTrue, ForLeft, CopiedSoFar
    <3> QED BY <1>1, <3>1, <3>2, <3>3, LookingIInv
  <2>3. CASE Landing(new, k, AddStops(new)) # {}
    <3>1. PICK s \in Landing(new, k, AddStops(new)) : new' = Store(new, s, k, v)
      BY <1>6, <2>3 DEF ResizeCopy
    <3>2. i' = i + 1 /\ pc' = pc
      BY <1>6, <2>3 DEF ResizeCopy
    <3>3. Good(new') /\ s \in Slots(new) /\ s \notin Live(new)
      BY <1>2, <2>1, <3>1, StoreGood
    <3>4. /\ new'.count = new.count + 1
          /\ new'.elements[s] = [hash |-> HashOf(k), key |-> k, value |-> v]
          /\ \A r \in Slots(new) \ {s} : new'.elements[r] = new.elements[r]
          /\ Live(new') = Live(new) \cup {s}
      BY <1>2, <2>1, <3>1, <3>3, StoreEffect DEF Good
    <3>5. new'.count = Cardinality(UsedBefore(ht, i + 1))
      <4>0. \A x \in Live(ht) \cup Removed(ht) : x < i + 1 <=> x < i \/ x = i
        BY <1>4 DEF Live, Removed
      <4>1. UsedBefore(ht, i + 1) = UsedBefore(ht, i) \cup {i}
        BY <2>1, <4>0 DEF UsedBefore
      <4>4. i \notin UsedBefore(ht, i)
        BY <1>1 DEF UsedBefore
      <4>2. IsFiniteSet(UsedBefore(ht, i))
        BY <1>2, PartsFinite DEF Good
      <4>3. Cardinality(UsedBefore(ht, i) \cup {i}) = Cardinality(UsedBefore(ht, i)) + 1
        BY <4>4, <4>2, FS_AddElement
      <4> QED BY <1>3, <3>4, <4>1, <4>3
    <3>6. ASSUME NEW x \in Live(ht), x < i + 1
          PROVE  \E r \in Live(new') : new'.elements[r] = ht.elements[x]
      <4>1. x \in Slots(ht)
        BY DEF Live
      <4>2. CASE x < i
        <5>1. PICK r \in Live(new) : new.elements[r] = ht.elements[x]
          BY <1>3, <4>2
        <5>2. r \in Slots(new) \ {s}
          BY <3>3 DEF Live
        <5> QED BY <3>4, <5>1, <5>2
      <4>3. CASE x = i
        <5>1. ht.elements[i].hash = HashOf(k)
          BY <1>2, <4>3 DEF Good, Reachable
        <5>2. new'.elements[s] = ht.elements[x]
          BY <2>1, <3>4, <4>3, <5>1
        <5> QED BY <3>4, <5>2
      <4> QED BY <1>4, <3>6, <4>1, <4>2, <4>3
    <3>7. CopiedSoFar'
      BY <1>1, <1>4, <3>2, <3>5, <3>6 DEF CopiedSoFar
    <3>8. new' # NoTable
      BY <3>3 DEF Good, IsTable, NoTable
    <3>9. TypeOK'
      BY <1>1, <1>4, <3>2, <3>3, <3>8 DEF IInv, TypeOK, Good
    <3>10. AnswersAreTrue' /\ ForLeft'
      BY <1>1, <3>2 DEF AnswersAreTrue, ForLeft
    <3> QED BY <1>1, <1>2, <3>3, <3>7, <3>9, <3>10 DEF IInv, CountIsLive, AllReachable, Good
  <2> QED BY <2>2, <2>3
<1> QED BY <1>5, <1>6

\* The new table takes the place of the old one.
LEMMA ResizeEndIInv ==
    ASSUME IInv, ResizeEnd
    PROVE  IInv'
<1>1. /\ pc = "resizing" /\ new # NoTable /\ ht' = new /\ new' = NoTable /\ i' = 0 /\ j' = j
  BY DEF ResizeEnd, IInv, TypeOK
<1>2. Good(ht')
  BY <1>1, IInvGood
<1>3. CASE call.op = "resize"
  <2>1. Return("resize", Garbage, NULL)
    BY <1>3 DEF ResizeEnd
  <2>2. TypeOK'
    BY <1>1, <1>2, <2>1 DEF IInv, TypeOK, Good, Return, NoCall, Ops
  <2>3. AnswersAreTrue' /\ ForLeft' /\ CopiedSoFar'
    BY <2>1 DEF Return, AnswersAreTrue, ForLeft, CopiedSoFar
  <2> QED BY <1>1, <1>2, <2>2, <2>3 DEF IInv, CountIsLive, AllReachable, Good
<1>4. CASE call.op # "resize"
  <2>1. pc' = "adding" /\ UNCHANGED <<call, last>>
    BY <1>4 DEF ResizeEnd
  <2>2. TypeOK'
    BY <1>1, <1>2, <1>4, <2>1 DEF IInv, TypeOK, Good
  <2>3. AnswersAreTrue' /\ ForLeft' /\ CopiedSoFar'
    BY <2>1 DEF AnswersAreTrue, ForLeft, CopiedSoFar
  <2> QED BY <1>1, <1>2, <2>2, <2>3 DEF IInv, CountIsLive, AllReachable, Good
<1> QED BY <1>3, <1>4

----------------------------------------------------------------------------
\* The iteration begins with as many elements to meet as the count says.
LEMMA ForBeginIInv ==
    ASSUME IInv, NEW op \in {"for", "for_remove"}, ForBegin(op)
    PROVE  IInv'
<1>1. Good(ht) /\ ht' = ht /\ new' = new /\ i' = 0 /\ j' = 0 /\ pc' = "for" /\ new = NoTable
      /\ call' = Call(op, Garbage, Garbage) /\ last' = NoAnswer
  BY IInvGood DEF ForBegin, IInv, TypeOK
<1>2. TypeOK'
  BY <1>1 DEF IInv, TypeOK, Call, NoAnswer, Ops
<1>3. ForLeft'
  <2>1. ht.count \in Nat /\ Cardinality(LiveFrom(ht, 0)) = ht.count
    BY <1>1, LiveFromZero DEF Good, Counted, IsTable
  <2>2. ht.count >= ht.count - 0 /\ ht.count = ht.count - 0
    BY <2>1
  <2> QED BY <1>1, <2>1, <2>2 DEF ForLeft
<1>4. AnswersAreTrue' /\ CopiedSoFar'
  BY <1>1 DEF AnswersAreTrue, CopiedSoFar, NoAnswer
<1> QED BY <1>1, <1>2, <1>3, <1>4, LookingIInv

\* Passing a slot that is not live leaves the elements to meet as they are.
LEMMA ForSkipIInv ==
    ASSUME IInv, ForSkip
    PROVE  IInv'
<1>1. /\ Good(ht) /\ pc = "for" /\ i' = i + 1 /\ i \in Nat
      /\ UNCHANGED <<ht, new, j, pc, call, last>>
  BY IInvGood DEF ForSkip, IInv, TypeOK
<1>2. i \notin Live(ht)
  BY <1>1 DEF ForSkip, Live, Good, IsTable, Element, FIRST_VALID
<1>3. LiveFrom(ht, i + 1) = LiveFrom(ht, i)
  BY <1>1, <1>2, LiveFromNext DEF Good, LiveFrom
<1>4. TypeOK'
  BY <1>1 DEF IInv, TypeOK
<1>5. ForLeft'
  BY <1>1, <1>3 DEF IInv, ForLeft
<1>6. AnswersAreTrue' /\ CopiedSoFar'
  BY <1>1 DEF AnswersAreTrue, CopiedSoFar
<1> QED BY <1>1, <1>4, <1>5, <1>6, LookingIInv

\* While elements are left to be counted, the loop is inside the table.
LEMMA ForInside ==
    ASSUME IInv
    PROVE  ForStaysInside
<1>1. SUFFICES ASSUME pc = "for", j < ht.count
               PROVE  \E s \in Live(ht) : s >= i
  BY DEF ForStaysInside
<1>2. Good(ht) /\ j \in Nat /\ ht.count \in Nat
  BY IInvGood DEF IInv, TypeOK, Good, IsTable
<1>3. Cardinality(LiveFrom(ht, i)) >= ht.count - j
  BY <1>1 DEF IInv, ForLeft
<1>4. Cardinality(LiveFrom(ht, i)) # 0
  BY <1>1, <1>2, <1>3, PartsFinite DEF Good
<1>5. LiveFrom(ht, i) # {}
  BY <1>4, FS_EmptySet
<1> QED BY <1>5 DEF LiveFrom

\* So the slot it looks at is a slot of the table.
LEMMA ForMeetsLive ==
    ASSUME IInv, pc = "for", j < ht.count, ht.elements[i].hash >= FIRST_VALID
    PROVE  i \in Live(ht)
<1>1. Good(ht) /\ i \in Nat
  BY IInvGood DEF IInv, TypeOK
<1>2. PICK s \in Live(ht) : s >= i
  BY ForInside DEF ForStaysInside
<1>3. i \in Slots(ht)
  BY <1>1, <1>2 DEF Live, Slots, Good, IsTable
<1> QED BY <1>3 DEF Live

\* Passing a live slot: one element met, one less to meet.
LEMMA ForReadIInv ==
    ASSUME IInv, ForRead
    PROVE  IInv'
<1>1. /\ Good(ht) /\ pc = "for" /\ i' = i + 1 /\ j' = j + 1 /\ i \in Nat /\ j \in Nat
      /\ ht.count \in Nat /\ j < ht.count
      /\ UNCHANGED <<ht, new, pc, call, last>>
  BY IInvGood DEF ForRead, IInv, TypeOK, Good, IsTable
<1>2. i \in LiveFrom(ht, i)
  BY <1>1, ForMeetsLive DEF ForRead, LiveFrom
<1>3. LiveFrom(ht, i + 1) = LiveFrom(ht, i) \ {i}
  BY <1>1, LiveFromNext DEF Good
<1>4. Cardinality(LiveFrom(ht, i) \ {i}) = Cardinality(LiveFrom(ht, i)) - 1
  BY <1>1, <1>2, PartsFinite, FS_RemoveElement DEF Good
<1>5. Cardinality(LiveFrom(ht, i)) \in Nat
  BY <1>1, PartsFinite DEF Good
<1>6. TypeOK'
  BY <1>1 DEF IInv, TypeOK
<1>7. ForLeft'
  BY <1>1, <1>3, <1>4, <1>5 DEF IInv, ForLeft
<1>8. AnswersAreTrue' /\ CopiedSoFar'
  BY <1>1 DEF AnswersAreTrue, CopiedSoFar
<1> QED BY <1>1, <1>6, <1>7, <1>8, LookingIInv

\* A body that removes: the count goes down with the elements to meet, or before them.
LEMMA ForRemoveIInv ==
    ASSUME IInv, ForRemove
    PROVE  IInv'
<1> DEFINE k == ht.elements[i].key
<1>1. /\ Good(ht) /\ pc = "for" /\ i' = i + 1 /\ j' = j + 1 /\ i \in Nat /\ j \in Nat
      /\ ht.count \in Nat /\ new = NoTable /\ call.op = "for_remove"
      /\ UNCHANGED <<new, pc, call, last>>
  BY IInvGood DEF ForRemove, IInv, TypeOK, Good, IsTable
<1>2. PICK s \in Landing(ht, k, RemoveStops(ht, k)) :
             ht' = IF s \in Unoccupied(ht) THEN ht ELSE Erase(ht, s)
  BY DEF ForRemove
<1>3. LiveFrom(ht, i + 1) = LiveFrom(ht, i) \ {i}
  BY <1>1, LiveFromNext DEF Good
<1>4. /\ IsFiniteSet(LiveFrom(ht, i + 1))
      /\ Cardinality(LiveFrom(ht, i)) \in Nat
      /\ Cardinality(LiveFrom(ht, i + 1)) \in Nat
      /\ Cardinality(LiveFrom(ht, i + 1)) >= Cardinality(LiveFrom(ht, i)) - 1
  BY <1>1, <1>3, PartsFinite, RemoveOne DEF Good
<1>5. Cardinality(LiveFrom(ht, i)) >= ht.count - j
  BY <1>1 DEF IInv, ForLeft
<1>6. CASE s \in Unoccupied(ht)
  <2>1. ht' = ht
    BY <1>2, <1>6
  <2>2. TypeOK'
    BY <1>1, <2>1 DEF IInv, TypeOK
  <2>3. Cardinality(LiveFrom(ht, i + 1)) >= ht.count - (j + 1)
    BY <1>1, <1>4, <1>5
  <2>4. AnswersAreTrue' /\ ForLeft' /\ CopiedSoFar'
    BY <1>1, <2>1, <2>3 DEF AnswersAreTrue, ForLeft, CopiedSoFar
  <2> QED BY <1>1, <2>1, <2>2, <2>4, LookingIInv
<1>7. CASE s \notin Unoccupied(ht)
  <2>1. ht' = Erase(ht, s) /\ s \in Live(ht)
    BY <1>2, <1>7, SearchLands DEF LiveOf
  <2>2. Good(ht')
    BY <1>1, <2>1, EraseGood
  <2>3. ht'.count = ht.count - 1 /\ Live(ht') = Live(ht) \ {s}
    BY <1>1, <2>1, EraseEffect, EraseGood DEF Good
  <2>4. LiveFrom(ht', i + 1) = LiveFrom(ht, i + 1) \ {s}
    BY <2>3 DEF LiveFrom
  <2>5. Cardinality(LiveFrom(ht', i + 1)) >= Cardinality(LiveFrom(ht, i + 1)) - 1
        /\ Cardinality(LiveFrom(ht', i + 1)) \in Nat
    BY <1>4, <2>4, RemoveOne
  <2>6. Cardinality(LiveFrom(ht', i + 1)) >= ht'.count - (j + 1)
    BY <1>1, <1>4, <1>5, <2>3, <2>5
  <2>7. TypeOK'
    BY <1>1, <2>2 DEF IInv, TypeOK, Good
  <2>8. AnswersAreTrue' /\ ForLeft' /\ CopiedSoFar'
    BY <1>1, <2>6 DEF AnswersAreTrue, ForLeft, CopiedSoFar
  <2> QED BY <1>1, <2>2, <2>7, <2>8 DEF IInv, CountIsLive, AllReachable, Good
<1> QED BY <1>6, <1>7

\* The remaining steps change neither table or begin with a fresh one.
LEMMA ReinitIInv ==
    ASSUME IInv, NEW c \in Capacities, Reinit(c)
    PROVE  IInv'
<1>1. /\ Good(ht') /\ new' = NoTable /\ i' = i /\ j' = j /\ Return("init", Garbage, NULL)
  BY EmptyGood, CapacitiesAssumption DEF Reinit, IInv, TypeOK
<1>2. TypeOK'
  BY <1>1 DEF IInv, TypeOK, Good, Return, NoCall, Ops
<1>3. AnswersAreTrue' /\ ForLeft' /\ CopiedSoFar'
  BY <1>1 DEF Return, AnswersAreTrue, ForLeft, CopiedSoFar
<1> QED BY <1>1, <1>2, <1>3 DEF IInv, CountIsLive, AllReachable, Good

\* The steps that change no table.
LEMMA QuietIInv ==
    ASSUME IInv, ForEnd \/ Deinit \/ Forget \/ UNCHANGED vars
    PROVE  IInv'
<1>1. CASE ForEnd
  <2>1. TypeOK'
    BY <1>1 DEF ForEnd, Return, NoCall, IInv, TypeOK, Ops
  <2>2. AnswersAreTrue' /\ ForLeft' /\ CopiedSoFar'
    BY <1>1 DEF ForEnd, Return, AnswersAreTrue, ForLeft, CopiedSoFar, IInv, TypeOK
  <2> QED BY <1>1, <2>1, <2>2, LookingIInv DEF ForEnd
<1>2. CASE Deinit \/ Forget
  <2>1. TypeOK'
    BY <1>2 DEF Deinit, Forget, NoAnswer, IInv, TypeOK, Ops
  <2>2. AnswersAreTrue' /\ ForLeft' /\ CopiedSoFar'
    BY <1>2 DEF Deinit, Forget, NoAnswer, AnswersAreTrue, ForLeft, CopiedSoFar
  <2> QED BY <1>2, <2>1, <2>2, LookingIInv DEF Deinit, Forget
<1>3. CASE UNCHANGED vars
  BY <1>3 DEF vars, IInv, TypeOK, CountIsLive, AllReachable, AnswersAreTrue, ForLeft, CopiedSoFar
<1> QED BY <1>1, <1>2, <1>3

----------------------------------------------------------------------------
\* Every step of the specification keeps the invariant.
THEOREM NextIInv == IInv /\ [Next]_vars => IInv'
<1> SUFFICES ASSUME IInv, [Next]_vars PROVE IInv'
  OBVIOUS
<1>1. ASSUME NEW k \in Key, NEW v \in Value, Add(k, v) PROVE IInv'
  BY <1>1, InsertIInv DEF Add
<1>2. ASSUME NEW k \in Key, AddEmpty(k) PROVE IInv'
  BY <1>2, AddEmptyIInv
<1>3. ASSUME NEW k \in Key, Remove(k) PROVE IInv'
  BY <1>3, RemoveIInv
<1>4. ASSUME NEW k \in Key, Get(k) PROVE IInv'
  BY <1>4, GetIInv
<1>5. ASSUME NEW c \in Capacities, Resize(c) PROVE IInv'
  BY <1>5, CapacitiesAssumption, ResizeBeginIInv DEF Resize
<1>6. CASE ResizeCopy
  BY <1>6, ResizeCopyIInv
<1>7. CASE ResizeEnd
  BY <1>7, ResizeEndIInv
<1>8. ASSUME NEW k \in Key, NEW v \in Value, NEW th \in Thresholds, NEW inc \in Increments,
             AddResizeFactor(k, v, th, inc)
      PROVE  IInv'
  <2>1. CASE FillFactor(ht) >= th
    <3>1. ht.capacity + inc \in Nat \ {0}
      BY IInvGood, CapacitiesAssumption DEF Good, IsTable
    <3> QED BY <1>8, <2>1, <3>1, ResizeBeginIInv DEF AddResizeFactor
  <2>2. CASE ~(FillFactor(ht) >= th)
    BY <1>8, <2>2, InsertIInv DEF AddResizeFactor
  <2> QED BY <2>1, <2>2
<1>9. CASE AddAfterResize
  <2>1. call.key \in Key /\ call.value \in Value
    BY <1>9 DEF AddAfterResize, IInv, TypeOK
  <2> QED BY <1>9, <2>1, InsertIInv DEF AddAfterResize
<1>10. ASSUME NEW op \in {"for", "for_remove"}, ForBegin(op) PROVE IInv'
  BY <1>10, ForBeginIInv
<1>11. CASE ForSkip
  BY <1>11, ForSkipIInv
<1>12. CASE ForRead
  BY <1>12, ForReadIInv
<1>13. CASE ForRemove
  BY <1>13, ForRemoveIInv
<1>14. ASSUME NEW c \in Capacities, Reinit(c) PROVE IInv'
  BY <1>14, ReinitIInv
<1>15. CASE ForEnd \/ Deinit \/ Forget \/ Spin \/ UNCHANGED vars
  BY <1>15, QuietIInv DEF Spin
<1> QED BY <1>1, <1>2, <1>3, <1>4, <1>5, <1>6, <1>7, <1>8, <1>9, <1>10, <1>11, <1>12,
           <1>13, <1>14, <1>15 DEF Next

\* The inductive invariant holds in every reachable state, for every choice of the constants.
THEOREM Invariance == Spec => []IInv
BY InitIInv, NextIInv, PTL DEF Spec

\* The variables always have their types.
THEOREM TypeCorrect == Spec => []TypeOK
<1>1. IInv => TypeOK
  BY DEF IInv
<1> QED BY <1>1, Invariance, PTL

\* count is always the number of live elements, in the table and in a copy of it in the
\* making.
THEOREM CountCorrect == Spec => []CountIsLive
<1>1. IInv => CountIsLive
  BY DEF IInv
<1> QED BY <1>1, Invariance, PTL

\* No sequence of additions, removals and resizes cuts a live element off from its key.
THEOREM NoElementLost == Spec => []AllReachable
<1>1. IInv => AllReachable
  BY DEF IInv
<1> QED BY <1>1, Invariance, PTL

\* When get and remove return, what they answer is true of the table.
THEOREM AnswersCorrect == Spec => []AnswersAreTrue
<1>1. IInv => AnswersAreTrue
  BY DEF IInv
<1> QED BY <1>1, Invariance, PTL

\* The iteration never reads past the end of the table.
THEOREM ForInBounds == Spec => []ForStaysInside
<1>1. IInv => ForStaysInside
  BY ForInside
<1> QED BY <1>1, Invariance, PTL

\* An iteration that changes nothing has met every element when it ends.
THEOREM ForComplete == Spec => ForMeetsAll
<1>1. IInv /\ [Next]_vars =>
        [pc = "for" /\ pc' = "ready" /\ call.op = "for" => \A s \in Live(ht) : s < i]_vars
  <2> SUFFICES ASSUME IInv, Next, pc = "for", pc' = "ready", call.op = "for",
                      NEW s \in Live(ht)
               PROVE  s < i
    OBVIOUS
  <2>1. ForEnd
    BY DEF Next, Add, AddEmpty, Remove, Get, Resize, ResizeCopy, ResizeEnd, AddResizeFactor,
           AddAfterResize, ForBegin, ForSkip, ForRead, ForRemove, Deinit, Reinit, Forget, Spin
  <2>2. /\ IsTable(ht) /\ ht.count \in Nat /\ j \in Nat /\ i \in Nat
        /\ Cardinality(LiveFrom(ht, i)) = ht.count - j
    BY DEF IInv, TypeOK, ForLeft, IsTable
  <2>6. Cardinality(LiveFrom(ht, i)) \in Nat /\ j >= ht.count
    BY <2>1, <2>2, PartsFinite DEF ForEnd
  <2>3. Cardinality(LiveFrom(ht, i)) = 0
    BY <2>2, <2>6
  <2>4. LiveFrom(ht, i) = {}
    BY <2>2, <2>3, PartsFinite, FS_EmptySet
  <2>5. ~(s >= i)
    BY <2>4 DEF LiveFrom
  <2> QED BY <2>2, <2>5 DEF Live, Slots, IsTable
<1> QED BY <1>1, Invariance, PTL DEF Spec, ForMeetsAll

\* A resize to a table with a slot for every used slot of the old one loses no element.
THEOREM ResizeKeepsElements == Spec => ResizeLosesNone
<1> DEFINE used == Live(ht) \cup Removed(ht)
           fits == new.capacity >= Cardinality(used)
           kept == \A s \in Live(ht) : \E r \in Live(new) : new.elements[r] = ht.elements[s]
<1>1. IInv /\ [Next]_vars => [ResizeEnd /\ fits => kept]_vars
  <2> SUFFICES ASSUME IInv, ResizeEnd, fits,
                      NEW s \in Live(ht)
               PROVE  \E r \in Live(new) : new.elements[r] = ht.elements[s]
    OBVIOUS
  <2>1. i = ht.capacity \/ new.count = new.capacity
    BY DEF ResizeEnd
  <2>2. /\ Good(ht) /\ i \in Nat /\ i <= ht.capacity
        /\ new.count = Cardinality(UsedBefore(ht, i))
        /\ \A x \in Live(ht) : x < i => \E r \in Live(new) : new.elements[r] = ht.elements[x]
        /\ Good(new)
    BY IInvGood DEF IInv, TypeOK, CopiedSoFar, ResizeEnd
  <2>3. IsFiniteSet(used) /\ UsedBefore(ht, i) \subseteq used
    BY <2>2, PartsFinite DEF Good, UsedBefore
  <2>4. CASE i = ht.capacity
    <3>1. s < ht.capacity
      BY <2>2 DEF Live, Slots, Good, IsTable
    <3> QED BY <2>2, <2>4, <3>1
  <2>5. CASE new.count = new.capacity
    <3>1. /\ Cardinality(UsedBefore(ht, i)) <= Cardinality(used)
          /\ Cardinality(used) \in Nat /\ Cardinality(UsedBefore(ht, i)) \in Nat
      BY <2>3, FS_Subset, FS_CardinalityType
    <3>2. Cardinality(UsedBefore(ht, i)) = Cardinality(used)
      BY <2>2, <2>5, <3>1
    <3>3. UsedBefore(ht, i) = used
      BY <2>3, <3>2, FS_Subset
    <3> QED BY <2>2, <3>3 DEF UsedBefore
  <2> QED BY <2>1, <2>4, <2>5
<1> QED BY <1>1, Invariance, PTL DEF Spec, ResizeLosesNone

\* The calls that may end in a walk without end: each has found no slot to stop at.
LEMMA InsertLoops ==
    ASSUME IInv, new = NoTable, NEW op \in {"add", "add_empty", "add_resize_factor", "remove", "get"},
           NEW k \in Key, NEW v, LoopForever(op, k, v), new' = new,
           Landing(ht, k, IF op = "remove" THEN RemoveStops(ht, k)
                          ELSE IF op = "get" THEN GetStops(ht, k) ELSE AddStops(ht)) = {}
    PROVE  LoopsOnlyWhenExhausted'
<1>1. Good(ht)
  BY IInvGood
<1>2. call'.op = op /\ ht' = ht /\ new' = NoTable
  BY DEF LoopForever, Call
<1>3. IsPowerOfTwo(ht.capacity) => IF op \in {"remove", "get"} THEN Unoccupied(ht) = {}
                                   ELSE ht.count = ht.capacity
  BY <1>1, LoopsWhenFull
<1> QED BY <1>2, <1>3 DEF LoopsOnlyWhenExhausted

\* Walks that never end are those the probe sequence does not allow to: with a capacity that is
\* a power of two an add loops in a full table only, a search only without unoccupied slots.
THEOREM LoopsAreEarned == Spec => []LoopsOnlyWhenExhausted
<1>1. Init => LoopsOnlyWhenExhausted
  BY DEF Init, LoopsOnlyWhenExhausted
<1>2. IInv /\ LoopsOnlyWhenExhausted /\ [Next]_vars => LoopsOnlyWhenExhausted'
  <2> SUFFICES ASSUME IInv, LoopsOnlyWhenExhausted, [Next]_vars
               PROVE  LoopsOnlyWhenExhausted'
    OBVIOUS
  <2>1. TypeOK
    BY DEF IInv
  <2>2. CASE UNCHANGED vars
    BY <2>2 DEF vars, LoopsOnlyWhenExhausted
  <2>3. ASSUME NEW op \in {"add", "add_resize_factor"}, NEW k \in Key, NEW v,
               pc \in {"ready", "adding"}, InsertInto(op, k, v), new' = new
        PROVE  LoopsOnlyWhenExhausted'
    <3>1. new = NoTable
      BY <2>1, <2>3 DEF TypeOK
    <3>2. CASE Landing(ht, k, AddStops(ht)) = {}
      BY <2>3, <3>1, <3>2, InsertLoops DEF InsertInto
    <3>3. CASE Landing(ht, k, AddStops(ht)) # {}
      <4>1. pc' = "ready"
        BY <2>3, <3>3 DEF InsertInto, Return
      <4> QED BY <4>1 DEF LoopsOnlyWhenExhausted
    <3> QED BY <3>2, <3>3
  <2>4. ASSUME NEW k \in Key, AddEmpty(k) \/ Remove(k) \/ Get(k)
        PROVE  LoopsOnlyWhenExhausted'
    <3>1. new = NoTable /\ new' = new
      BY <2>1, <2>4 DEF TypeOK, AddEmpty, Remove, Get
    <3>2. pc' = "ready" => LoopsOnlyWhenExhausted'
      BY DEF LoopsOnlyWhenExhausted
    <3>3. CASE AddEmpty(k)
      <4>1. CASE Landing(ht, k, AddStops(ht)) = {}
        BY <3>1, <3>3, <4>1, InsertLoops DEF AddEmpty
      <4>2. CASE Landing(ht, k, AddStops(ht)) # {}
        BY <3>2, <3>3, <4>2 DEF AddEmpty, Return
      <4> QED BY <4>1, <4>2
    <3>4. CASE Remove(k)
      <4>1. CASE Landing(ht, k, RemoveStops(ht, k)) = {}
        BY <3>1, <3>4, <4>1, InsertLoops DEF Remove
      <4>2. CASE Landing(ht, k, RemoveStops(ht, k)) # {}
        BY <3>2, <3>4, <4>2 DEF Remove, Return
      <4> QED BY <4>1, <4>2
    <3>5. CASE Get(k)
      <4>1. CASE Landing(ht, k, GetStops(ht, k)) = {}
        BY <3>1, <3>5, <4>1, InsertLoops DEF Get
      <4>2. CASE Landing(ht, k, GetStops(ht, k)) # {}
        BY <3>2, <3>5, <4>2 DEF Get, Return
      <4> QED BY <4>1, <4>2
    <3> QED BY <2>4, <3>3, <3>4, <3>5
  <2>5. CASE ResizeCopy
    <3>1. CASE pc' = "looping"
      <4>1. /\ i \notin Unoccupied(ht) /\ i < ht.capacity /\ new.count # new.capacity /\ new' = new
            /\ Landing(new, ht.elements[i].key, AddStops(new)) = {} /\ pc = "resizing" /\ call' = call
        BY <2>5, <3>1 DEF ResizeCopy
      <4>2. Good(new) /\ new # NoTable /\ Good(ht) /\ i \in Slots(ht)
        <5>1. new # NoTable /\ i \in Nat /\ ht.capacity \in Nat
          BY <2>1, <4>1 DEF TypeOK, IsTable
        <5>2. i \in Slots(ht)
          BY <4>1, <5>1 DEF Slots
        <5> QED BY <5>1, <5>2, IInvGood
      <4>3. ht.elements[i].key \in Key
        BY <4>1, <4>2, UsedOrNot DEF Good
      <4>4. ~IsPowerOfTwo(new.capacity)
        BY <4>1, <4>2, <4>3, LoopsWhenFull
      <4>5. call'.op \in {"resize", "add_resize_factor"}
        BY <2>1, <4>1 DEF TypeOK
      <4> QED BY <4>1, <4>2, <4>4, <4>5 DEF LoopsOnlyWhenExhausted
    <3>2. CASE pc' # "looping"
      BY <3>2 DEF LoopsOnlyWhenExhausted
    <3> QED BY <3>1, <3>2
  <2>6. ASSUME NEW k \in Key, NEW v \in Value, NEW th \in Thresholds, NEW inc \in Increments,
               AddResizeFactor(k, v, th, inc)
        PROVE  LoopsOnlyWhenExhausted'
    <3>1. CASE FillFactor(ht) >= th
      <4>1. pc' = "resizing"
        BY <2>6, <3>1 DEF AddResizeFactor, ResizeBegin
      <4> QED BY <4>1 DEF LoopsOnlyWhenExhausted
    <3>2. CASE ~(FillFactor(ht) >= th)
      BY <2>3, <2>6, <3>2 DEF AddResizeFactor
    <3> QED BY <3>1, <3>2
  <2>7. ASSUME NEW k \in Key, NEW v \in Value, Add(k, v)
        PROVE  LoopsOnlyWhenExhausted'
    BY <2>3, <2>7 DEF Add
  <2>8. CASE AddAfterResize
    <3>1. call.key \in Key
      BY <2>1, <2>8 DEF AddAfterResize, TypeOK
    <3> QED BY <2>3, <2>8, <3>1 DEF AddAfterResize
  <2>9. ASSUME \/ \E c \in Capacities : Resize(c)
               \/ ResizeEnd
               \/ \E op \in {"for", "for_remove"} : ForBegin(op)
               \/ ForSkip \/ ForRead \/ ForRemove \/ ForEnd \/ Deinit
               \/ \E c \in Capacities : Reinit(c)
               \/ Forget
        PROVE  LoopsOnlyWhenExhausted'
    <3>1. pc' # "looping"
      BY <2>9 DEF Resize, ResizeBegin, ResizeEnd, Return, ForBegin, ForSkip, ForRead, ForRemove,
                  ForEnd, Deinit, Reinit, Forget
    <3> QED BY <3>1 DEF LoopsOnlyWhenExhausted
  <2>10. CASE Spin
    BY <2>2, <2>10 DEF Spin
  <2> QED BY <2>2, <2>4, <2>5, <2>6, <2>7, <2>8, <2>9, <2>10 DEF Next
<1> QED BY <1>1, <1>2, Invariance, PTL DEF Spec

----------------------------------------------------------------------------
(***************************************************************************)
(* HashTableWalk: the loop, turn by turn, does what the closed formula of  *)
(* HashTable says.                                                         *)
(***************************************************************************)

\* A walk begins at the first slot of the probe sequence.
LEMMA StartTurns ==
    ASSUME NEW proc \in {"add", "add_empty", "remove", "get"}, NEW op, NEW k \in Key, NEW v, NEW t,
           Good(t), Start(proc, op, t, k, v), Walked' = t
    PROVE  /\ walk'.proc = proc /\ walk'.op = op /\ walk'.key = k /\ walk'.value = v
           /\ Walking' /\ AtSomeTurn' /\ DOMAIN walk' = DOMAIN NoWalk
           /\ lost' = (Landing(t, k, StopsOf(proc, t, k)) = {})
<1>1. /\ walk' = [proc |-> proc, op |-> op, key |-> k, value |-> v,
                  index |-> HashOf(k) % t.capacity, probe_inc |-> 1 % t.capacity]
      /\ lost' = (Landing(t, k, StopsOf(proc, t, k)) = {})
  BY DEF Start
<1>2. HashOf(k) \in Nat /\ t.capacity \in Nat \ {0}
  BY HashOfValid DEF Good, IsTable
<1>3. Probe(t, HashOf(k), 0) = HashOf(k) % t.capacity
  BY <1>2, ProbeNext
<1>4. /\ walk'.proc = proc /\ walk'.op = op /\ walk'.key = k /\ walk'.value = v
      /\ walk'.index = HashOf(k) % t.capacity /\ walk'.probe_inc = 1 % t.capacity
  BY <1>1
<1>5. Walking'
  BY <1>4 DEF Walking
<1>6. AtSomeTurn'
  <2>1. 0 \in Nat /\ 0 + 1 = 1 /\ 0 .. 0 - 1 = {}
    OBVIOUS
  <2>2. \E n \in Nat : /\ walk'.index = Probe(t, HashOf(k), n)
                       /\ walk'.probe_inc = (n + 1) % t.capacity
                       /\ \A m \in 0 .. n - 1 : Probe(t, HashOf(k), m) \notin StopsOf(proc, t, k)
    BY <1>3, <1>4, <2>1
  <2> QED
    BY <1>1, <1>4, <2>2 DEF AtSomeTurn
<1>7. DOMAIN walk' = DOMAIN NoWalk
  BY <1>1 DEF NoWalk
<1> QED
  BY <1>1, <1>4, <1>5, <1>6, <1>7

\* The loop is left exactly at the slots the walk stops at.
LEMMA WalkStops ==
    ASSUME WalkInv, Walking
    PROVE  /\ Good(Walked) /\ walk.key \in Key /\ walk.index \in Slots(Walked)
           /\ walk.proc \in {"add", "add_empty", "remove", "get"}
           /\ ~GoesOn(Walked) <=> walk.index \in StopsOf(walk.proc, Walked, walk.key)
<1> DEFINE t == Walked
           s == walk.index
           k == walk.key
<1>1. /\ walk.key \in Key /\ AtSomeTurn
      /\ walk.proc \in {"add", "add_empty", "remove", "get"}
      /\ IInv
  BY DEF WalkInv, ReadyToInsert, ReadyToSearch, Adding, Copying, RemovingInFor
<1>2. Good(t)
  <2>1. CASE pc = "resizing"
    BY <1>1, <2>1, IInvGood DEF Walked, IInv, TypeOK
  <2>2. CASE pc # "resizing"
    BY <1>1, <2>2, IInvGood DEF Walked
  <2> QED
    BY <2>1, <2>2
<1>3. IsTable(t) /\ t.capacity \in Nat \ {0}
  BY <1>2 DEF Good, IsTable
<1>4. HashOf(k) \in Nat /\ HashOf(k) >= 2
  BY <1>1, HashOfValid DEF FIRST_VALID
<1>5. s \in Slots(t)
  <2>1. PICK n \in Nat : s = Probe(t, HashOf(k), n)
    BY <1>1 DEF AtSomeTurn
  <2> HIDE DEF t, k, s
  <2> QED
    BY <1>3, <1>4, <2>1, ProbeNext
<1>6. /\ t.elements[s].hash \in Nat
      /\ s \in Unoccupied(t) <=> t.elements[s].hash = 0
      /\ s \in Removed(t) <=> t.elements[s].hash = 1
      /\ s \in LiveOf(t, k) <=> t.elements[s].hash >= 2 /\ t.elements[s].key = k
  BY <1>3, <1>5 DEF IsTable, Element, Unoccupied, Removed, LiveOf, Live, UNOCCUPIED, REMOVED, FIRST_VALID
<1>7. GoesOn(t) <=> t.elements[s].hash > 0 /\ ~Matches(t)
  BY DEF GoesOn, Found, UNOCCUPIED
<1>8. CASE walk.proc \in {"add", "add_empty"}
  <2>1. StopsOf(walk.proc, t, k) = Unoccupied(t) \cup Removed(t)
    BY <1>8 DEF StopsOf, AddStops
  <2>2. Matches(t) <=> t.elements[s].hash = 1
    BY <1>8 DEF Matches, Found, REMOVED
  <2> HIDE DEF t, s, k
  <2>3. ~GoesOn(t) <=> s \in StopsOf(walk.proc, t, k)
    BY <1>6, <1>7, <2>1, <2>2
  <2> QED
    BY <1>1, <1>2, <1>5, <2>3 DEF t, s, k
<1>9. CASE walk.proc = "get"
  <2>1. StopsOf(walk.proc, t, k) = Unoccupied(t) \cup LiveOf(t, k)
    BY <1>9 DEF StopsOf, GetStops
  <2>2. Matches(t) <=> t.elements[s].hash >= 2 /\ t.elements[s].key = k
    BY <1>9 DEF Matches, Found, FIRST_VALID
  <2> HIDE DEF t, s, k
  <2>3. ~GoesOn(t) <=> s \in StopsOf(walk.proc, t, k)
    BY <1>6, <1>7, <2>1, <2>2
  <2> QED
    BY <1>1, <1>2, <1>5, <2>3 DEF t, s, k
<1>10. CASE walk.proc = "remove"
  <2>1. StopsOf(walk.proc, t, k) = Unoccupied(t) \cup {x \in LiveOf(t, k) : t.elements[x].hash = HashOf(k)}
    BY <1>10 DEF StopsOf, RemoveStops
  <2>2. Matches(t) <=> t.elements[s].hash = HashOf(k) /\ t.elements[s].key = k
    BY <1>10 DEF Matches, Found
  <2> HIDE DEF t, s, k
  <2>3. ~GoesOn(t) <=> s \in StopsOf(walk.proc, t, k)
    BY <1>4, <1>6, <1>7, <2>1, <2>2
  <2> QED
    BY <1>1, <1>2, <1>5, <2>3 DEF t, s, k
<1> QED
  BY <1>1, <1>8, <1>9, <1>10

\* Where the loop is left, the closed formula says that the walk ends; the loop of a walk
\* that is lost is not left.
LEMMA WalkEndsRight ==
    ASSUME WalkInv, Walking, ~GoesOn(Walked)
    PROVE  /\ ~lost
           /\ Landing(Walked, walk.key, StopsOf(walk.proc, Walked, walk.key)) = {walk.index}
<1> DEFINE t == Walked
           k == walk.key
           stops == StopsOf(walk.proc, t, k)
<1>1. Good(t) /\ k \in Key /\ walk.index \in stops
  BY WalkStops
<1>2. PICK n \in Nat : /\ walk.index = Probe(t, HashOf(k), n)
                       /\ \A m \in 0 .. n - 1 : Probe(t, HashOf(k), m) \notin stops
  BY DEF WalkInv, AtSomeTurn
<1>3. lost = (Landing(t, k, stops) = {})
  BY DEF WalkInv, AtSomeTurn
<1>4. t.capacity \in Nat \ {0}
  BY <1>1 DEF Good, IsTable
<1> HIDE DEF t, k, stops
<1>5. Landing(t, k, stops) = {Probe(t, HashOf(k), n)}
  BY <1>1, <1>2, <1>4, LandsHere
<1> QED
  BY <1>2, <1>3, <1>5 DEF t, k, stops

\* A turn of the loop goes to the next slot of the probe sequence.
LEMMA LoopTurns ==
    ASSUME WalkInv, Loop
    PROVE  /\ walk'.proc = walk.proc /\ walk'.op = walk.op /\ walk'.key = walk.key
           /\ walk'.value = walk.value /\ AtSomeTurn' /\ DOMAIN walk' = DOMAIN NoWalk
<1> DEFINE t == Walked
           k == walk.key
           stops == StopsOf(walk.proc, t, k)
<1>1. /\ Walking /\ GoesOn(t) /\ Good(t) /\ k \in Key
      /\ walk.proc \in {"add", "add_empty", "remove", "get"}
      /\ walk.index \notin stops
  BY WalkStops DEF Loop
<1>2. PICK n \in Nat : /\ walk.index = Probe(t, HashOf(k), n)
                       /\ walk.probe_inc = (n + 1) % t.capacity
                       /\ \A m \in 0 .. n - 1 : Probe(t, HashOf(k), m) \notin stops
  BY <1>1 DEF WalkInv, AtSomeTurn
<1>3. t.capacity \in Nat \ {0} /\ HashOf(k) \in Nat
  BY <1>1, HashOfValid DEF Good, IsTable
<1>4. walk' = [walk EXCEPT !.index     = (walk.index + walk.probe_inc) % t.capacity,
                           !.probe_inc = (walk.probe_inc + 1) % t.capacity]
  BY DEF Loop
<1>5. walk'.proc = walk.proc /\ walk'.op = walk.op /\ walk'.key = walk.key /\ walk'.value = walk.value
  <2>1. DOMAIN walk = {"proc", "op", "key", "value", "index", "probe_inc"}
    BY DEF WalkInv, NoWalk
  <2> QED
    BY <1>4, <2>1, Zenon
<1>6. Walked' = t /\ lost' = lost
  BY DEF Loop, vars, Walked
<1>7. /\ walk'.index = (walk.index + walk.probe_inc) % t.capacity
      /\ walk'.probe_inc = (walk.probe_inc + 1) % t.capacity
  <2>1. DOMAIN walk = {"proc", "op", "key", "value", "index", "probe_inc"}
    BY DEF WalkInv, NoWalk
  <2> QED
    BY <1>4, <2>1, Zenon
<1>8. lost' = (Landing(t, k, stops) = {})
  BY <1>1, <1>6 DEF WalkInv, AtSomeTurn
<1> HIDE DEF t, k, stops
<1>9. walk'.index = Probe(t, HashOf(k), n + 1)
  <2>1. (Probe(t, HashOf(k), n) + ((n + 1) % t.capacity)) % t.capacity = Probe(t, HashOf(k), n + 1)
    BY <1>3, ProbeNext
  <2> QED
    BY <1>2, <1>7, <2>1
<1>10. walk'.probe_inc = ((n + 1) + 1) % t.capacity
  <2>1. n + 1 \in Nat /\ 1 \in Nat
    OBVIOUS
  <2> QED
    BY <1>2, <1>3, <1>7, <2>1, AddRemainders
<1>11. \A m \in 0 .. (n + 1) - 1 : Probe(t, HashOf(k), m) \notin stops
  <2>1. \A m \in 0 .. (n + 1) - 1 : m \in 0 .. n - 1 \/ m = n
    OBVIOUS
  <2> QED
    BY <1>1, <1>2, <2>1 DEF stops
<1>12. n + 1 \in Nat
  OBVIOUS
<1>13. \E l \in Nat : /\ walk'.index = Probe(t, HashOf(k), l)
                      /\ walk'.probe_inc = (l + 1) % t.capacity
                      /\ \A m \in 0 .. l - 1 : Probe(t, HashOf(k), m) \notin stops
  BY <1>9, <1>10, <1>11, <1>12
<1>14. AtSomeTurn'
  BY <1>5, <1>6, <1>8, <1>13 DEF AtSomeTurn, t, k, stops
<1>15. DOMAIN walk' = DOMAIN NoWalk
  BY <1>4, Zenon DEF WalkInv
<1> QED
  BY <1>5, <1>14, <1>15

\* The walks that end do to the table what the one step of HashTable does.
LEMMA EndAddStep ==
    ASSUME WalkInv, EndAdd
    PROVE  /\ ~lost
           /\ \/ ResizeCopy
              \/ AddAfterResize
              \/ \E k \in Key, v \in Value : Add(k, v)
              \/ \E k \in Key, v \in Value, th \in Thresholds, inc \in Increments :
                    AddResizeFactor(k, v, th, inc)
<1> DEFINE s == walk.index
           k == walk.key
           v == walk.value
<1>1. Walking /\ walk.proc = "add" /\ ~GoesOn(Walked)
  BY DEF EndAdd, Walking
<1>2. ~lost /\ Landing(Walked, k, AddStops(Walked)) = {s} /\ k \in Key
  BY <1>1, WalkEndsRight, WalkStops DEF StopsOf
<1>3. ReadyToInsert \/ Adding \/ Copying
  BY <1>1 DEF WalkInv, ReadyToSearch, RemovingInFor
<1> HIDE DEF s, k, v
<1>4. CASE Copying
  <2>1. /\ pc = "resizing" /\ Walked = new /\ i < ht.capacity /\ new.count # new.capacity
        /\ i \notin Unoccupied(ht) /\ k = ht.elements[i].key /\ v = ht.elements[i].value
    BY <1>4 DEF Copying, Walked, k, v
  <2>2. /\ new' = Store(new, s, k, v) /\ i' = i + 1
        /\ UNCHANGED <<ht, j, pc, call, last>>
    BY <2>1 DEF EndAdd, s, k, v
  <2>3. Landing(new, k, AddStops(new)) = {s}
    BY <1>2, <2>1
  <2>4. ResizeCopy
    BY <2>1, <2>2, <2>3 DEF ResizeCopy
  <2> QED
    BY <1>2, <2>4
<1>5. CASE ReadyToInsert \/ Adding
  <2>1. pc \in {"ready", "adding"} /\ Walked = ht
    BY <1>5 DEF ReadyToInsert, Adding, Walked
  <2>2. /\ ht' = Store(ht, s, k, v) /\ Return(walk.op, k, v)
        /\ UNCHANGED <<new, i, j>>
    BY <2>1 DEF EndAdd, s, k, v
  <2>3. InsertInto(walk.op, k, v)
    BY <1>2, <2>1, <2>2 DEF InsertInto
  <2>4. CASE Adding
    <3>1. AddAfterResize
      BY <2>2, <2>3, <2>4 DEF AddAfterResize, Adding, k, v
    <3> QED
      BY <1>2, <3>1
  <2>5. CASE ReadyToInsert /\ walk.op = "add"
    <3>1. Add(k, v) /\ v \in Value
      BY <2>2, <2>3, <2>5 DEF Add, ReadyToInsert, v
    <3> QED
      BY <1>2, <3>1
  <2>6. CASE ReadyToInsert /\ walk.op = "add_resize_factor"
    <3>1. PICK th \in Thresholds, inc \in Increments : ~(FillFactor(ht) >= th)
      BY <2>6 DEF ReadyToInsert
    <3>2. AddResizeFactor(k, v, th, inc) /\ v \in Value
      BY <2>2, <2>3, <2>6, <3>1 DEF AddResizeFactor, ReadyToInsert, v
    <3> QED
      BY <1>2, <3>2
  <2> QED
    BY <1>5, <2>4, <2>5, <2>6 DEF ReadyToInsert
<1> QED
  BY <1>3, <1>4, <1>5

LEMMA EndAddEmptyStep ==
    ASSUME WalkInv, EndAddEmpty
    PROVE  ~lost /\ \E k \in Key : AddEmpty(k)
<1> DEFINE s == walk.index
           k == walk.key
<1>1. Walking /\ walk.proc = "add_empty"
  BY DEF EndAddEmpty, Walking
<1>2. pc = "ready" /\ Walked = ht
  BY <1>1 DEF WalkInv, ReadyToInsert, ReadyToSearch, Adding, Copying, RemovingInFor, Walked
<1>3. ~lost /\ Landing(ht, k, AddStops(ht)) = {s} /\ k \in Key
  BY <1>1, <1>2, WalkEndsRight, WalkStops DEF StopsOf, EndAddEmpty
<1>4. /\ ht' = StoreKey(ht, s, k) /\ Return("add_empty", k, ht.elements[s].value)
      /\ UNCHANGED <<new, i, j>>
  BY DEF EndAddEmpty, Found
<1> HIDE DEF s, k
<1>5. AddEmpty(k)
  BY <1>2, <1>3, <1>4 DEF AddEmpty
<1> QED
  BY <1>3, <1>5

LEMMA EndRemoveStep ==
    ASSUME WalkInv, EndRemove
    PROVE  ~lost /\ (ForRemove \/ \E k \in Key : Remove(k))
<1> DEFINE s == walk.index
           k == walk.key
<1>1. Walking /\ walk.proc = "remove"
  BY DEF EndRemove, Walking
<1>2. pc = "ready" \/ RemovingInFor
  BY <1>1 DEF WalkInv, ReadyToInsert, ReadyToSearch, Adding, Copying
<1>3. Walked = ht
  BY <1>2 DEF Walked, RemovingInFor
<1>4. /\ ~lost /\ Landing(ht, k, RemoveStops(ht, k)) = {s} /\ k \in Key
      /\ Good(ht) /\ s \in Slots(ht) /\ s \in RemoveStops(ht, k)
  BY <1>1, <1>3, WalkEndsRight, WalkStops DEF StopsOf, EndRemove
<1>5. Matches(ht) <=> s \notin Unoccupied(ht)
  <2>1. Matches(ht) <=> ht.elements[s].hash = HashOf(k) /\ ht.elements[s].key = k
    BY <1>1 DEF Matches, Found
  <2>2. HashOf(k) \in Nat /\ HashOf(k) >= 2
    BY <1>4, HashOfValid DEF FIRST_VALID
  <2>3. s \in Unoccupied(ht) => ht.elements[s].hash = 0
    BY DEF Unoccupied, UNOCCUPIED
  <2>4. s \notin Unoccupied(ht) => s \in LiveOf(ht, k) /\ ht.elements[s].hash = HashOf(k)
    BY <1>4 DEF RemoveStops
  <2> QED
    BY <2>1, <2>2, <2>3, <2>4 DEF LiveOf
<1>6. /\ ht' = IF s \in Unoccupied(ht) THEN ht ELSE Erase(ht, s)
      /\ UNCHANGED new
  BY <1>5 DEF EndRemove
<1>7. CASE pc = "ready"
  <2>1. /\ Return("remove", k, IF s \in Unoccupied(ht) THEN 0 ELSE 1)
        /\ UNCHANGED <<i, j>>
    BY <1>5, <1>7 DEF EndRemove
  <2> HIDE DEF s, k
  <2>2. Remove(k)
    BY <1>4, <1>6, <1>7, <2>1 DEF Remove
  <2> QED
    BY <1>4, <2>2
<1>8. CASE RemovingInFor
  <2>1. /\ i' = i + 1 /\ j' = j + 1 /\ UNCHANGED <<pc, call, last>>
    BY <1>8 DEF EndRemove, RemovingInFor
  <2>2. /\ pc = "for" /\ call.op = "for_remove" /\ j < ht.count
        /\ ht.elements[i].hash >= FIRST_VALID /\ k = ht.elements[i].key
    BY <1>8 DEF RemovingInFor
  <2> HIDE DEF s, k
  <2>3. ForRemove
    BY <1>4, <1>6, <2>1, <2>2 DEF ForRemove
  <2> QED
    BY <1>4, <2>3
<1> QED
  BY <1>2, <1>7, <1>8

LEMMA EndGetStep ==
    ASSUME WalkInv, EndGet
    PROVE  ~lost /\ \E k \in Key : Get(k)
<1> DEFINE s == walk.index
           k == walk.key
<1>1. Walking /\ walk.proc = "get"
  BY DEF EndGet, Walking
<1>2. pc = "ready" /\ Walked = ht
  BY <1>1 DEF WalkInv, ReadyToInsert, ReadyToSearch, Adding, Copying, RemovingInFor, Walked
<1>3. /\ ~lost /\ Landing(ht, k, GetStops(ht, k)) = {s} /\ k \in Key
      /\ s \in GetStops(ht, k)
  BY <1>1, <1>2, WalkEndsRight, WalkStops DEF StopsOf, EndGet
<1>4. Matches(ht) <=> s \notin Unoccupied(ht)
  <2>1. Matches(ht) <=> ht.elements[s].hash >= 2 /\ ht.elements[s].key = k
    BY <1>1 DEF Matches, Found, FIRST_VALID
  <2>2. s \in Unoccupied(ht) => ht.elements[s].hash = 0
    BY DEF Unoccupied, UNOCCUPIED
  <2>3. s \notin Unoccupied(ht) => s \in LiveOf(ht, k)
    BY <1>3 DEF GetStops
  <2> QED
    BY <2>1, <2>2, <2>3 DEF LiveOf, Live, FIRST_VALID
<1>5. /\ Return("get", k, IF s \in Unoccupied(ht) THEN NULL ELSE ht.elements[s].value)
      /\ UNCHANGED <<ht, new, i, j>>
  <2>1. Return("get", k, IF Matches(ht) THEN Found(ht).value ELSE NULL)
        /\ UNCHANGED <<ht, new, i, j>>
    BY DEF EndGet
  <2>2. (IF Matches(ht) THEN Found(ht).value ELSE NULL)
          = IF s \in Unoccupied(ht) THEN NULL ELSE ht.elements[s].value
    BY <1>4 DEF Found
  <2> QED
    BY <2>1, <2>2
<1> HIDE DEF s, k
<1>6. Get(k)
  BY <1>2, <1>3, <1>5 DEF Get
<1> QED
  BY <1>3, <1>6

\* Seen without the walks, every step is a step of HashTable or changes nothing.
LEMMA WalkStepIsNext ==
    ASSUME WalkInv, [WalkNext]_walkVars
    PROVE  [Next]_vars
<1>1. CASE UNCHANGED walkVars
  BY <1>1 DEF walkVars, vars
<1>2. ASSUME NEW op, NEW proc, NEW k, NEW v, Starts(op, proc, k, v)
      PROVE  Forget
  BY <1>2 DEF Starts, Forget
<1>3. ASSUME NEW k \in Key, NEW v \in Value, NEW th \in Thresholds, NEW inc \in Increments,
             BeginAddResizeFactor(k, v, th, inc)
      PROVE  Forget \/ AddResizeFactor(k, v, th, inc)
  BY <1>2, <1>3 DEF BeginAddResizeFactor
<1>4. CASE CopySlot
  <2>1. CASE i \in Unoccupied(ht)
    BY <1>4, <2>1 DEF CopySlot, ResizeCopy, Next
  <2>2. CASE i \notin Unoccupied(ht)
    BY <1>4, <2>2 DEF CopySlot
  <2> QED
    BY <2>1, <2>2
<1>5. CASE BeginAddAfterResize \/ BeginForRemove \/ Loop
  BY <1>5 DEF BeginAddAfterResize, BeginForRemove, Loop
<1>6. CASE Elsewhere
  BY <1>6 DEF Elsewhere, Next
<1>7. CASE EndAdd \/ EndAddEmpty \/ EndRemove \/ EndGet
  BY <1>7, EndAddStep, EndAddEmptyStep, EndRemoveStep, EndGetStep DEF Next
<1>8. Forget => Next
  BY DEF Next
<1>9. ASSUME NEW k \in Key, NEW v \in Value, NEW th \in Thresholds, NEW inc \in Increments,
             BeginAddResizeFactor(k, v, th, inc)
      PROVE  Next
  BY <1>3, <1>9 DEF Next
<1> QED
  BY <1>1, <1>2, <1>4, <1>5, <1>6, <1>7, <1>8, <1>9 DEF WalkNext

\* While nothing walks, and when a walk has ended, there is little to keep.
LEMMA IdleInv ==
    ASSUME IInv', pc' \in {"resizing", "adding", "for"} => last' = NoAnswer,
           \/ WalkInv /\ ~Walking /\ UNCHANGED <<walk, lost>>
           \/ Finish
    PROVE  WalkInv'
<1>1. walk' = NoWalk /\ ~lost'
  BY DEF WalkInv, Finish
<1>2. ~Walking' /\ DOMAIN walk' = DOMAIN NoWalk
  BY <1>1 DEF Walking, NoWalk
<1> QED
  BY <1>1, <1>2 DEF WalkInv

\* A call that walks in the caller's table.
LEMMA StartsInv ==
    ASSUME WalkInv, IInv', NEW op, NEW proc \in {"add", "add_empty", "remove", "get"},
           NEW k \in Key, NEW v, Starts(op, proc, k, v),
           \/ /\ proc = "add" /\ v \in Value /\ op \in {"add", "add_resize_factor"}
              /\ op = "add_resize_factor" =>
                    Increments # {} /\ \E th \in Thresholds : ~(FillFactor(ht) >= th)
           \/ proc # "add" /\ op = proc /\ v = Garbage
    PROVE  WalkInv'
<1>1. Good(ht) /\ Start(proc, op, ht, k, v) /\ Walked' = ht /\ pc' = "ready" /\ ht' = ht
  BY IInvGood DEF WalkInv, Starts, Walked
<1>2. /\ walk'.proc = proc /\ walk'.op = op /\ walk'.key = k /\ walk'.value = v
      /\ Walking' /\ AtSomeTurn' /\ DOMAIN walk' = DOMAIN NoWalk
  BY <1>1, StartTurns
<1>3. ReadyToInsert' \/ ReadyToSearch'
  BY <1>1, <1>2 DEF ReadyToInsert, ReadyToSearch
<1> QED
  BY <1>1, <1>2, <1>3 DEF WalkInv

\* A walk that is a part of a longer call.
LEMMA NestedInv ==
    ASSUME WalkInv, IInv', BeginAddAfterResize \/ BeginForRemove \/ (CopySlot /\ i \notin Unoccupied(ht))
    PROVE  WalkInv'
<1>1. IInv /\ Good(ht) /\ (new # NoTable => Good(new)) /\ TypeOK
  BY IInvGood DEF WalkInv, IInv
<1>2. CASE BeginAddAfterResize
  <2>1. /\ Start("add", "add_resize_factor", ht, call.key, call.value) /\ UNCHANGED vars
        /\ pc = "adding"
    BY <1>2 DEF BeginAddAfterResize
  <2>2. call.key \in Key /\ Walked' = ht
    BY <1>1, <2>1 DEF TypeOK, vars, Walked
  <2>3. /\ walk'.proc = "add" /\ walk'.op = "add_resize_factor" /\ walk'.key = call.key
        /\ walk'.value = call.value /\ Walking' /\ AtSomeTurn' /\ DOMAIN walk' = DOMAIN NoWalk
    BY <1>1, <2>1, <2>2, StartTurns
  <2>4. Adding'
    BY <2>1, <2>3 DEF Adding, vars
  <2> QED
    BY <2>1, <2>2, <2>3, <2>4 DEF WalkInv, vars
<1>3. CASE BeginForRemove
  <2> DEFINE k == ht.elements[i].key
  <2>1. /\ Start("remove", "for_remove", ht, k, Garbage) /\ UNCHANGED vars
        /\ pc = "for" /\ call.op = "for_remove" /\ j < ht.count
        /\ ht.elements[i].hash >= FIRST_VALID
    BY <1>3 DEF BeginForRemove
  <2>2. i \in Live(ht)
    BY <1>1, <2>1, ForMeetsLive
  <2>3. k \in Key /\ Walked' = ht
    BY <1>1, <2>1, <2>2, LiveStopsRemoval DEF vars, Walked
  <2> HIDE DEF k
  <2>4. /\ walk'.proc = "remove" /\ walk'.key = k /\ Walking' /\ AtSomeTurn'
        /\ DOMAIN walk' = DOMAIN NoWalk
    BY <1>1, <2>1, <2>3, StartTurns
  <2>5. RemovingInFor'
    BY <2>1, <2>4 DEF RemovingInFor, vars, k
  <2> QED
    BY <2>1, <2>3, <2>4, <2>5 DEF WalkInv, vars
<1>4. CASE CopySlot /\ i \notin Unoccupied(ht)
  <2> DEFINE k == ht.elements[i].key
             v == ht.elements[i].value
  <2>1. /\ Start("add", "copy", new, k, v) /\ UNCHANGED vars
        /\ pc = "resizing" /\ i < ht.capacity /\ new.count # new.capacity
    BY <1>4 DEF CopySlot
  <2>2. i \in Slots(ht) /\ new # NoTable
    BY <1>1, <2>1 DEF TypeOK, IsTable, Slots
  <2>3. k \in Key /\ Good(new) /\ Walked' = new
    BY <1>1, <1>4, <2>1, <2>2, UsedOrNot DEF Good, vars, Walked
  <2> HIDE DEF k, v
  <2>4. /\ walk'.proc = "add" /\ walk'.key = k /\ walk'.value = v /\ Walking' /\ AtSomeTurn'
        /\ DOMAIN walk' = DOMAIN NoWalk
    BY <2>1, <2>3, StartTurns
  <2>5. Copying'
    BY <1>4, <2>1, <2>4 DEF Copying, vars, k, v
  <2> QED
    BY <2>1, <2>3, <2>4, <2>5 DEF WalkInv, vars
<1> QED
  BY <1>2, <1>3, <1>4

\* A turn of the loop.
LEMMA LoopInv ==
    ASSUME WalkInv, IInv', Loop
    PROVE  WalkInv'
<1>1. /\ walk'.proc = walk.proc /\ walk'.op = walk.op /\ walk'.key = walk.key
      /\ walk'.value = walk.value /\ AtSomeTurn' /\ DOMAIN walk' = DOMAIN NoWalk
  BY LoopTurns
<1>2. Walking /\ Walking' /\ UNCHANGED <<vars, lost>>
  BY <1>1 DEF Loop, Walking
<1>3. (ReadyToInsert \/ ReadyToSearch \/ Adding \/ Copying \/ RemovingInFor)'
  <2>1. ReadyToInsert \/ ReadyToSearch \/ Adding \/ Copying \/ RemovingInFor
    BY <1>2 DEF WalkInv
  <2>2. ReadyToInsert => ReadyToInsert'
    BY <1>1, <1>2 DEF vars, ReadyToInsert
  <2>3. ReadyToSearch => ReadyToSearch'
    BY <1>1, <1>2 DEF vars, ReadyToSearch
  <2>4. Adding => Adding'
    BY <1>1, <1>2 DEF vars, Adding
  <2>5. Copying => Copying'
    BY <1>1, <1>2 DEF vars, Copying
  <2>6. RemovingInFor => RemovingInFor'
    BY <1>1, <1>2 DEF vars, RemovingInFor
  <2> QED
    BY <2>1, <2>2, <2>3, <2>4, <2>5, <2>6
<1> QED
  BY <1>1, <1>2, <1>3 DEF WalkInv, vars

\* The invariant of the walks is inductive.
THEOREM WalkNextInv == WalkInv /\ [WalkNext]_walkVars => WalkInv'
<1> SUFFICES ASSUME WalkInv, [WalkNext]_walkVars PROVE WalkInv'
  OBVIOUS
<1>1. IInv'
  <2>1. IInv /\ [Next]_vars
    BY WalkStepIsNext DEF WalkInv
  <2> QED
    BY <2>1, NextIInv
<1>2. CASE UNCHANGED walkVars
  BY <1>1, <1>2 DEF walkVars, vars, WalkInv, Walking, ReadyToInsert, ReadyToSearch, Adding, Copying,
     RemovingInFor, AtSomeTurn, Walked
<1>3. ASSUME NEW k \in Key, NEW v \in Value, Starts("add", "add", k, v)
      PROVE  WalkInv'
  BY <1>1, <1>3, StartsInv
<1>4. ASSUME NEW k \in Key, NEW op \in {"add_empty", "remove", "get"}, Starts(op, op, k, Garbage)
      PROVE  WalkInv'
  BY <1>1, <1>4, StartsInv
<1>5. ASSUME NEW k \in Key, NEW v \in Value, NEW th \in Thresholds, NEW inc \in Increments,
             BeginAddResizeFactor(k, v, th, inc)
      PROVE  WalkInv'
  <2>1. CASE FillFactor(ht) >= th
    <3>1. ~Walking /\ AddResizeFactor(k, v, th, inc) /\ UNCHANGED <<walk, lost>>
      BY <1>5, <2>1 DEF BeginAddResizeFactor
    <3>2. last' = NoAnswer
      BY <2>1, <3>1 DEF AddResizeFactor, ResizeBegin
    <3> QED
      BY <1>1, <3>1, <3>2, IdleInv
  <2>2. CASE ~(FillFactor(ht) >= th)
    <3>1. Starts("add_resize_factor", "add", k, v)
      BY <1>5, <2>2 DEF BeginAddResizeFactor
    <3>2. Increments # {} /\ \E th2 \in Thresholds : ~(FillFactor(ht) >= th2)
      BY <2>2
    <3> QED
      BY <1>1, <3>1, <3>2, StartsInv
  <2> QED
    BY <2>1, <2>2
<1>6. CASE CopySlot /\ i \in Unoccupied(ht)
  <2>1. ~Walking /\ UNCHANGED <<walk, lost, pc, last>> /\ pc = "resizing"
    BY <1>6 DEF CopySlot
  <2> QED
    BY <1>1, <2>1, IdleInv DEF WalkInv
<1>7. CASE BeginAddAfterResize \/ BeginForRemove \/ (CopySlot /\ i \notin Unoccupied(ht))
  BY <1>1, <1>7, NestedInv
<1>8. CASE Elsewhere
  <2>1. ~Walking /\ UNCHANGED <<walk, lost>>
    BY <1>8 DEF Elsewhere
  <2>2. pc' \in {"resizing", "adding", "for"} => last' = NoAnswer
    <3>1. \/ last' = NoAnswer
          \/ pc \in {"resizing", "for"} /\ last' = last
          \/ pc' \in {"ready", "freed"}
      BY <1>8 DEF Elsewhere, Resize, ResizeBegin, ResizeEnd, ForBegin, ForSkip, ForRead, ForEnd,
         Deinit, Reinit, Return
    <3> QED
      BY <3>1 DEF WalkInv
  <2> QED
    BY <1>1, <2>1, <2>2, IdleInv
<1>9. CASE Loop
  BY <1>1, <1>9, LoopInv
<1>10. CASE EndAdd \/ EndAddEmpty \/ EndRemove \/ EndGet
  <2>1. Finish /\ (pc' = "ready" \/ UNCHANGED <<pc, last>>)
    BY <1>10 DEF EndAdd, EndAddEmpty, EndRemove, EndGet, Return
  <2> QED
    BY <1>1, <2>1, IdleInv DEF WalkInv
<1> QED
  BY <1>2, <1>3, <1>4, <1>5, <1>6, <1>7, <1>8, <1>9, <1>10 DEF WalkNext

\* Every walk that has begun is at a slot of the probe sequence of its key, having passed no
\* slot to stop at, and is waited for by the call that began it.
THEOREM WalkInvariance == WalkSpec => []WalkInv
<1>1. WalkInit => WalkInv
  <2> SUFFICES ASSUME WalkInit PROVE WalkInv
    OBVIOUS
  <2>1. IInv /\ pc = "ready" /\ walk = NoWalk /\ ~lost
    BY InitIInv DEF WalkInit, Init
  <2> QED
    BY <2>1 DEF WalkInv, Walking, NoWalk
<1> QED
  BY <1>1, WalkNextInv, PTL DEF WalkSpec

\* The closed formula and the updates are the same in the instance.
LEMMA SameData ==
    /\ \A t, k, stops : Atomic!Landing(t, k, stops) = Landing(t, k, stops)
    /\ \A t : Atomic!AddStops(t) = AddStops(t) /\ Atomic!Unoccupied(t) = Unoccupied(t)
    /\ \A t, k : Atomic!RemoveStops(t, k) = RemoveStops(t, k) /\ Atomic!GetStops(t, k) = GetStops(t, k)
    /\ \A t, s, k, v : Atomic!Store(t, s, k, v) = Store(t, s, k, v)
    /\ \A t, s, k : Atomic!StoreKey(t, s, k) = StoreKey(t, s, k)
    /\ \A t, s : Atomic!Erase(t, s) = Erase(t, s)
    /\ \A t : Atomic!FillFactor(t) = FillFactor(t)
    /\ \A c : Atomic!EmptyTable(c) = EmptyTable(c)
    /\ Atomic!NoTable = NoTable /\ Atomic!NoCall = NoCall /\ Atomic!NoAnswer = NoAnswer
    /\ \A op, k, v : Atomic!Call(op, k, v) = Call(op, k, v)
    /\ Atomic!FIRST_VALID = FIRST_VALID
<1>1. /\ Atomic!FIRST_VALID = FIRST_VALID /\ Atomic!UNOCCUPIED = UNOCCUPIED /\ Atomic!REMOVED = REMOVED
      /\ Atomic!NoTable = NoTable /\ Atomic!NoCall = NoCall /\ Atomic!NoAnswer = NoAnswer
  BY DEF Atomic!FIRST_VALID, FIRST_VALID, Atomic!UNOCCUPIED, UNOCCUPIED, Atomic!REMOVED, REMOVED,
     Atomic!NoTable, NoTable, Atomic!NoCall, NoCall, Atomic!NoAnswer, NoAnswer
<1>2. \A k : Atomic!HashOf(k) = HashOf(k)
  BY <1>1, Zenon DEF Atomic!HashOf, HashOf
<1>3. \A t : Atomic!Slots(t) = Slots(t) /\ Atomic!ProbeCount(t) = ProbeCount(t)
  BY Zenon DEF Atomic!Slots, Slots, Atomic!ProbeCount, ProbeCount
<1>4. \A t, h, n : Atomic!Probe(t, h, n) = Probe(t, h, n)
  BY Zenon DEF Atomic!Probe, Probe
<1>5. \A t : /\ Atomic!Live(t) = Live(t) /\ Atomic!Removed(t) = Removed(t)
             /\ Atomic!Unoccupied(t) = Unoccupied(t)
  BY <1>1, <1>3, Zenon DEF Atomic!Live, Live, Atomic!Removed, Removed, Atomic!Unoccupied, Unoccupied
<1>6. \A t, k : Atomic!LiveOf(t, k) = LiveOf(t, k)
  BY <1>5, Zenon DEF Atomic!LiveOf, LiveOf
<1>7. \A t : Atomic!AddStops(t) = AddStops(t)
  BY <1>5, Zenon DEF Atomic!AddStops, AddStops
<1>8. \A t, k : Atomic!RemoveStops(t, k) = RemoveStops(t, k) /\ Atomic!GetStops(t, k) = GetStops(t, k)
  BY <1>2, <1>5, <1>6, Zenon DEF Atomic!RemoveStops, RemoveStops, Atomic!GetStops, GetStops
<1>9. \A t, k, stops : Atomic!Landing(t, k, stops) = Landing(t, k, stops)
  BY <1>2, <1>3, <1>4, Zenon DEF Atomic!Landing, Landing
<1>10. \A t, s, k, v : Atomic!Store(t, s, k, v) = Store(t, s, k, v)
  BY <1>2, Zenon DEF Atomic!Store, Store
<1>11. \A t, s, k : Atomic!StoreKey(t, s, k) = StoreKey(t, s, k)
  BY <1>10, Zenon DEF Atomic!StoreKey, StoreKey
<1>12. \A t, s : Atomic!Erase(t, s) = Erase(t, s)
  BY <1>1, Zenon DEF Atomic!Erase, Erase
<1>13. \A t : Atomic!FillFactor(t) = FillFactor(t)
  BY Zenon DEF Atomic!FillFactor, FillFactor
<1>14. \A c : Atomic!EmptyTable(c) = EmptyTable(c)
  BY <1>1, Zenon DEF Atomic!EmptyTable, EmptyTable
<1>15. \A op, k, v : Atomic!Call(op, k, v) = Call(op, k, v)
  BY Zenon DEF Atomic!Call, Call
<1> QED
  BY <1>1, <1>5, <1>7, <1>8, <1>9, <1>10, <1>11, <1>12, <1>13, <1>14, <1>15

\* Before and after a step with no lost walk, the instance sees what is there.
LEMMA FoundStep ==
    ASSUME [Next]_vars, ~lost, ~lost'
    PROVE  [Atomic!Next]_(Atomic!vars)
<1>1. CASE UNCHANGED vars
  BY <1>1 DEF vars, Atomic!vars
<1>2. \A op, k, r : Return(op, k, r) => Atomic!Return(op, k, r)
  BY SameData DEF Return, Atomic!Return
<1>3. \A op, k, v : LoopForever(op, k, v) => Atomic!LoopForever(op, k, v)
  BY SameData DEF LoopForever, Atomic!LoopForever
<1>4. \A op, k, v : InsertInto(op, k, v) => Atomic!InsertInto(op, k, v)
  BY <1>2, <1>3, SameData DEF InsertInto, Atomic!InsertInto
<1>5. \A op, k, v, c : ResizeBegin(op, k, v, c) => Atomic!ResizeBegin(op, k, v, c)
  BY SameData DEF ResizeBegin, Atomic!ResizeBegin
<1>6. \A k, v : Add(k, v) => Atomic!Add(k, v)
  BY <1>4 DEF Add, Atomic!Add
<1>7. \A k : AddEmpty(k) => Atomic!AddEmpty(k)
  BY <1>2, <1>3, SameData DEF AddEmpty, Atomic!AddEmpty
<1>8. \A k : Remove(k) => Atomic!Remove(k)
  BY <1>2, <1>3, SameData DEF Remove, Atomic!Remove
<1>9. \A k : Get(k) => Atomic!Get(k)
  BY <1>2, <1>3, SameData DEF Get, Atomic!Get
<1>10. \A c : Resize(c) => Atomic!Resize(c)
  BY <1>5 DEF Resize, Atomic!Resize
<1>11. ResizeCopy => Atomic!ResizeCopy
  BY SameData DEF ResizeCopy, Atomic!ResizeCopy
<1>12. ResizeEnd => Atomic!ResizeEnd
  BY <1>2, SameData DEF ResizeEnd, Atomic!ResizeEnd
<1>13. \A k, v, th, inc : AddResizeFactor(k, v, th, inc) => Atomic!AddResizeFactor(k, v, th, inc)
  BY <1>4, <1>5, SameData DEF AddResizeFactor, Atomic!AddResizeFactor
<1>14. AddAfterResize => Atomic!AddAfterResize
  BY <1>4 DEF AddAfterResize, Atomic!AddAfterResize
<1>15. \A op : ForBegin(op) => Atomic!ForBegin(op)
  BY SameData DEF ForBegin, Atomic!ForBegin
<1>16. ForSkip => Atomic!ForSkip
  BY SameData DEF ForSkip, Atomic!ForSkip
<1>17. ForRead => Atomic!ForRead
  BY SameData DEF ForRead, Atomic!ForRead
<1>18. ForRemove => Atomic!ForRemove
  BY SameData DEF ForRemove, Atomic!ForRemove
<1>19. ForEnd => Atomic!ForEnd
  BY <1>2, SameData DEF ForEnd, Atomic!ForEnd
<1>20. (Deinit => Atomic!Deinit) /\ (\A c : Reinit(c) => Atomic!Reinit(c)) /\ (Forget => Atomic!Forget)
  BY <1>2, SameData DEF Deinit, Atomic!Deinit, Reinit, Atomic!Reinit, Forget, Atomic!Forget
<1>21. Spin => UNCHANGED vars
  BY DEF Spin
<1> QED
  BY <1>1, <1>6, <1>7, <1>8, <1>9, <1>10, <1>11, <1>12, <1>13, <1>14, <1>15, <1>16, <1>17, <1>18,
     <1>19, <1>20, <1>21 DEF Next, Atomic!Next

\* A walk that will never end begins: HashTable says so at once.
LEMMA LosingStep ==
    ASSUME WalkInv, [WalkNext]_walkVars, ~lost, lost'
    PROVE  Atomic!Next
<1>1. ASSUME NEW proc \in {"add", "add_empty", "remove", "get"}, NEW op, NEW k, NEW v, NEW t,
             Start(proc, op, t, k, v)
      PROVE  /\ Landing(t, k, StopsOf(proc, t, k)) = {}
             /\ walk'.op = op /\ walk'.key = k /\ walk'.value = v
  BY <1>1 DEF Start
<1>2. ASSUME NEW proc \in {"add", "add_empty", "remove", "get"}, NEW op, NEW k, NEW v,
             Starts(op, proc, k, v)
      PROVE  /\ pc = "ready" /\ Landing(ht, k, StopsOf(proc, ht, k)) = {}
             /\ Atomic!LoopForever(op, k, v) /\ UNCHANGED <<new, i, j>>
  <2>1. /\ Start(proc, op, ht, k, v) /\ pc = "ready" /\ last' = NoAnswer
        /\ UNCHANGED <<ht, new, i, j, pc, call>>
    BY <1>2 DEF Starts
  <2>2. /\ Landing(ht, k, StopsOf(proc, ht, k)) = {}
        /\ walk'.op = op /\ walk'.key = k /\ walk'.value = v
    BY <1>1, <2>1
  <2> QED
    BY <2>1, <2>2, SameData DEF Atomic!LoopForever
<1>3. ASSUME NEW k \in Key, NEW v \in Value, Starts("add", "add", k, v)
      PROVE  Atomic!Add(k, v)
  <2>1. /\ pc = "ready" /\ Landing(ht, k, AddStops(ht)) = {}
        /\ Atomic!LoopForever("add", k, v) /\ UNCHANGED <<new, i, j>>
    BY <1>2, <1>3 DEF StopsOf
  <2> QED
    BY <2>1, SameData DEF Atomic!Add, Atomic!InsertInto
<1>4. ASSUME NEW k \in Key, Starts("add_empty", "add_empty", k, Garbage)
      PROVE  Atomic!AddEmpty(k)
  <2>1. /\ pc = "ready" /\ Landing(ht, k, AddStops(ht)) = {}
        /\ Atomic!LoopForever("add_empty", k, Garbage) /\ UNCHANGED <<new, i, j>>
    BY <1>2, <1>4 DEF StopsOf
  <2> QED
    BY <2>1, SameData DEF Atomic!AddEmpty
<1>5. ASSUME NEW k \in Key, Starts("remove", "remove", k, Garbage)
      PROVE  Atomic!Remove(k)
  <2>1. /\ pc = "ready" /\ Landing(ht, k, RemoveStops(ht, k)) = {}
        /\ Atomic!LoopForever("remove", k, Garbage) /\ UNCHANGED <<new, i, j>>
    BY <1>2, <1>5 DEF StopsOf
  <2> QED
    BY <2>1, SameData DEF Atomic!Remove
<1>6. ASSUME NEW k \in Key, Starts("get", "get", k, Garbage)
      PROVE  Atomic!Get(k)
  <2>1. /\ pc = "ready" /\ Landing(ht, k, GetStops(ht, k)) = {}
        /\ Atomic!LoopForever("get", k, Garbage) /\ UNCHANGED <<new, i, j>>
    BY <1>2, <1>6 DEF StopsOf
  <2> QED
    BY <2>1, SameData DEF Atomic!Get
<1>7. ASSUME NEW k \in Key, NEW v \in Value, NEW th \in Thresholds, NEW inc \in Increments,
             BeginAddResizeFactor(k, v, th, inc)
      PROVE  Atomic!AddResizeFactor(k, v, th, inc)
  <2>1. ~(FillFactor(ht) >= th) /\ Starts("add_resize_factor", "add", k, v)
    BY <1>7 DEF BeginAddResizeFactor
  <2>2. /\ pc = "ready" /\ Landing(ht, k, AddStops(ht)) = {}
        /\ Atomic!LoopForever("add_resize_factor", k, v) /\ UNCHANGED <<new, i, j>>
    BY <1>2, <2>1 DEF StopsOf
  <2> QED
    BY <2>1, <2>2, SameData DEF Atomic!AddResizeFactor, Atomic!InsertInto
<1>8. CASE BeginAddAfterResize
  <2>1. /\ pc = "adding" /\ Start("add", "add_resize_factor", ht, call.key, call.value)
        /\ UNCHANGED vars
    BY <1>8 DEF BeginAddAfterResize
  <2>2. Landing(ht, call.key, AddStops(ht)) = {}
    BY <1>1, <2>1 DEF StopsOf
  <2>3. last = NoAnswer /\ TypeOK /\ call.op = "add_resize_factor"
    BY <2>1 DEF WalkInv, IInv, TypeOK
  <2>4. call = Call("add_resize_factor", call.key, call.value)
    BY <2>3 DEF TypeOK, Call
  <2>5. Atomic!LoopForever("add_resize_factor", call.key, call.value)
    BY <2>1, <2>3, <2>4, SameData DEF Atomic!LoopForever, vars
  <2>6. Atomic!AddAfterResize
    BY <2>1, <2>2, <2>5, SameData DEF Atomic!AddAfterResize, Atomic!InsertInto, vars
  <2> QED
    BY <2>6 DEF Atomic!Next
<1>9. CASE CopySlot
  <2> DEFINE k == ht.elements[i].key
             v == ht.elements[i].value
  <2>1. /\ pc = "resizing" /\ i < ht.capacity /\ new.count # new.capacity
        /\ i \notin Unoccupied(ht) /\ Start("add", "copy", new, k, v) /\ UNCHANGED vars
    BY <1>9 DEF CopySlot
  <2>2. Landing(new, k, AddStops(new)) = {}
    BY <1>1, <2>1 DEF StopsOf
  <2>3. Atomic!ResizeCopy
    BY <2>1, <2>2, SameData DEF Atomic!ResizeCopy, vars
  <2> QED
    BY <2>3 DEF Atomic!Next
<1>10. CASE BeginForRemove
  <2> DEFINE k == ht.elements[i].key
  <2>1. /\ pc = "for" /\ j < ht.count /\ ht.elements[i].hash >= FIRST_VALID
        /\ Start("remove", "for_remove", ht, k, Garbage)
    BY <1>10 DEF BeginForRemove
  <2>2. Landing(ht, k, RemoveStops(ht, k)) = {}
    BY <1>1, <2>1 DEF StopsOf
  <2>3. Good(ht) /\ i \in Live(ht)
    BY <2>1, IInvGood, ForMeetsLive DEF WalkInv
  <2>4. Landing(ht, k, RemoveStops(ht, k)) # {}
    BY <2>3, LiveStopsRemoval
  <2> QED
    BY <2>2, <2>4
<1>11. ~UNCHANGED walkVars /\ ~Elsewhere /\ ~Loop
  BY DEF walkVars, Elsewhere, Loop
<1>12. ~EndAdd /\ ~EndAddEmpty /\ ~EndRemove /\ ~EndGet
  BY DEF EndAdd, EndAddEmpty, EndRemove, EndGet, Finish
<1> QED
  BY <1>3, <1>4, <1>5, <1>6, <1>7, <1>8, <1>9, <1>10, <1>11, <1>12 DEF WalkNext, Atomic!Next

\* A lost walk takes turn after turn and changes nothing else.
LEMMA LostStep ==
    ASSUME WalkInv, [WalkNext]_walkVars, lost
    PROVE  UNCHANGED Atomic!vars
<1>1. CASE UNCHANGED walkVars
  BY <1>1 DEF walkVars, vars, Atomic!vars
<1>2. Walking
  BY DEF WalkInv
<1>3. ~EndAdd /\ ~EndAddEmpty /\ ~EndRemove /\ ~EndGet
  BY EndAddStep, EndAddEmptyStep, EndRemoveStep, EndGetStep
<1>4. CASE Loop
  <2>1. /\ UNCHANGED <<ht, new, i, j, pc, call, last, lost>>
        /\ walk'.op = walk.op /\ walk'.key = walk.key /\ walk'.value = walk.value
    BY <1>4, LoopTurns DEF Loop, vars
  <2> QED
    BY <2>1, SameData DEF Atomic!vars
<1>5. ~CopySlot /\ ~BeginAddAfterResize /\ ~BeginForRemove /\ ~Elsewhere
  BY <1>2 DEF CopySlot, BeginAddAfterResize, BeginForRemove, Elsewhere
<1>6. \A op, proc, k, v : ~Starts(op, proc, k, v)
  BY <1>2 DEF Starts
<1>7. \A k, v, th, inc : ~BeginAddResizeFactor(k, v, th, inc)
  BY <1>2 DEF BeginAddResizeFactor
<1> QED
  BY <1>1, <1>3, <1>4, <1>5, <1>6, <1>7 DEF WalkNext

\* The loop of cut_hash_table_travel ends where the closed formula says, with the same effect,
\* or goes on for ever when the formula says so: every behaviour with the loops taken apart is
\* one of HashTable.
THEOREM LoopIsFormula == WalkSpec => ImplementsHashTable
<1>1. WalkInit => Atomic!Init
  <2> SUFFICES ASSUME WalkInit PROVE Atomic!Init
    OBVIOUS
  <2> QED
    BY SameData DEF WalkInit, Init, Atomic!Init
<1>2. WalkInv /\ [WalkNext]_walkVars => [Atomic!Next]_(Atomic!vars)
  <2> SUFFICES ASSUME WalkInv, [WalkNext]_walkVars PROVE [Atomic!Next]_(Atomic!vars)
    OBVIOUS
  <2>1. CASE lost
    BY <2>1, LostStep
  <2>2. CASE ~lost /\ lost'
    BY <2>2, LosingStep
  <2>3. CASE ~lost /\ ~lost'
    BY <2>3, WalkStepIsNext, FoundStep
  <2> QED
    BY <2>1, <2>2, <2>3
<1> QED
  BY <1>1, <1>2, WalkInvariance, PTL DEF WalkSpec, ImplementsHashTable, Atomic!Spec

----------------------------------------------------------------------------
(***************************************************************************)
(* HashTableDictionary: the bags of pairs in sets of slots.                *)
(***************************************************************************)

PairAt(t) == [s \in Slots(t) |-> <<t.elements[s].key, t.elements[s].value>>]

\* The bag of the values of f on a set.
BagOf(f, S) == [p \in {f[s] : s \in S} |-> Cardinality({s \in S : f[s] = p})]

LEMMA PairsAre ==
    ASSUME NEW t, NEW S, S \subseteq Slots(t)
    PROVE  Pairs(t, S) = BagOf(PairAt(t), S)
<1> DEFINE f == PairAt(t)
<1>1. \A s \in S : f[s] = <<t.elements[s].key, t.elements[s].value>>
  BY DEF PairAt
<1> HIDE DEF f
<1>2. \A p : {s \in S : <<t.elements[s].key, t.elements[s].value>> = p} = {s \in S : f[s] = p}
  BY <1>1
<1>3. {<<t.elements[s].key, t.elements[s].value>> : s \in S} = {f[s] : s \in S}
  BY <1>1
<1>4. BagOf(f, S) = Pairs(t, S)
  BY <1>2, <1>3, Zenon DEF BagOf, Pairs
<1> QED BY <1>4 DEF f

LEMMA BagOfAlike ==
    ASSUME NEW f, NEW g, NEW S, \A s \in S : f[s] = g[s]
    PROVE  BagOf(f, S) = BagOf(g, S)
<1>1. \A p : {s \in S : f[s] = p} = {s \in S : g[s] = p}
  OBVIOUS
<1>2. {f[s] : s \in S} = {g[s] : s \in S}
  OBVIOUS
<1> QED BY <1>1, <1>2, Zenon DEF BagOf

\* How often a value is in the bag.
LEMMA BagCounts ==
    ASSUME NEW f, NEW S, IsFiniteSet(S), NEW p
    PROVE  /\ IsFiniteSet({s \in S : f[s] = p}) /\ Cardinality({s \in S : f[s] = p}) \in Nat
           /\ p \in DOMAIN BagOf(f, S) <=> \E s \in S : f[s] = p
           /\ p \in DOMAIN BagOf(f, S) => /\ BagOf(f, S)[p] = Cardinality({s \in S : f[s] = p})
                                          /\ Cardinality({s \in S : f[s] = p}) > 0
           /\ p \notin DOMAIN BagOf(f, S) => Cardinality({s \in S : f[s] = p}) = 0
<1> DEFINE A == {s \in S : f[s] = p}
<1>1. A \in SUBSET S
  OBVIOUS
<1>2. /\ IsFiniteSet(A) /\ Cardinality(A) \in Nat /\ (Cardinality(A) = 0 <=> A = {})
  <2> HIDE DEF A
  <2> QED BY <1>1, SubsetSizes
<1>3. DOMAIN BagOf(f, S) = {f[s] : s \in S}
  BY DEF BagOf
<1>4. p \in DOMAIN BagOf(f, S) <=> \E s \in S : f[s] = p
  BY <1>3
<1>5. p \in DOMAIN BagOf(f, S) => BagOf(f, S)[p] = Cardinality(A)
  BY DEF BagOf
<1>6. A = {} <=> ~\E s \in S : f[s] = p
  OBVIOUS
<1> HIDE DEF A
<1>7. p \in DOMAIN BagOf(f, S) => Cardinality(A) > 0
  BY <1>2, <1>4, <1>6
<1>8. p \notin DOMAIN BagOf(f, S) => Cardinality(A) = 0
  BY <1>2, <1>4, <1>6
<1> QED BY <1>2, <1>4, <1>5, <1>7, <1>8 DEF A

TellsCount(f, S, p, b, A) ==
    /\ IsFiniteSet(A) /\ Cardinality(A) \in Nat
    /\ p \in DOMAIN b <=> \E s \in S : f[s] = p
    /\ p \in DOMAIN b => b[p] = Cardinality(A) /\ Cardinality(A) > 0
    /\ p \notin DOMAIN b => Cardinality(A) = 0

LEMMA BagOfCounts ==
    ASSUME NEW f, NEW S, IsFiniteSet(S)
    PROVE  \A p : TellsCount(f, S, p, BagOf(f, S), {s \in S : f[s] = p})
BY BagCounts DEF TellsCount

\* The bag of two sets together.
LEMMA BagOfBoth ==
    ASSUME NEW f, NEW S, IsFiniteSet(S), NEW T, IsFiniteSet(T), S \cap T = {}
    PROVE  BagOf(f, S \cup T) = BagOf(f, S) (+) BagOf(f, T)
<1> DEFINE A(p) == {s \in S : f[s] = p}
           B(p) == {s \in T : f[s] = p}
           C(p) == {s \in S \cup T : f[s] = p}
           b == BagOf(f, S)
           d == BagOf(f, T)
           both == BagOf(f, S \cup T)
<1>1. IsFiniteSet(S \cup T)
  BY FS_Union
<1>0. \A p : /\ TellsCount(f, S, p, b, A(p)) /\ TellsCount(f, T, p, d, B(p))
             /\ TellsCount(f, S \cup T, p, both, C(p))
  <2>2. ASSUME NEW U, IsFiniteSet(U)
        PROVE  \A p : TellsCount(f, U, p, BagOf(f, U), {s \in U : f[s] = p})
    BY <2>2, BagOfCounts, Zenon
  <2>3. \A p : TellsCount(f, S \cup T, p, both, C(p))
    BY <1>1, <2>2, Zenon
  <2>4. \A p : TellsCount(f, S, p, b, A(p))
    BY <2>2, Zenon
  <2>5. \A p : TellsCount(f, T, p, d, B(p))
    BY <2>2, Zenon
  <2> HIDE DEF b, d, both, A, B, C
  <2> QED BY <2>3, <2>4, <2>5, Zenon
<1>2. \A p : /\ Cardinality(A(p)) \in Nat /\ Cardinality(B(p)) \in Nat
             /\ Cardinality(C(p)) = Cardinality(A(p)) + Cardinality(B(p))
  <2> SUFFICES ASSUME NEW p
               PROVE  /\ Cardinality(A(p)) \in Nat /\ Cardinality(B(p)) \in Nat
                      /\ Cardinality(C(p)) = Cardinality(A(p)) + Cardinality(B(p))
    OBVIOUS
  <2>1. /\ IsFiniteSet(A(p)) /\ Cardinality(A(p)) \in Nat
        /\ IsFiniteSet(B(p)) /\ Cardinality(B(p)) \in Nat
    <3> HIDE DEF A, B, C, b, d, both
    <3> QED BY <1>0 DEF TellsCount
  <2>2. C(p) = A(p) \cup B(p) /\ A(p) \cap B(p) = {}
    OBVIOUS
  <2> HIDE DEF A, B, C
  <2>3. Cardinality(C(p)) = Cardinality(A(p)) + Cardinality(B(p)) - Cardinality({})
    BY <2>1, <2>2, FS_Union
  <2> QED BY <2>1, <2>3, FS_EmptySet
<1>3. \A p : /\ p \in DOMAIN b => b[p] = Cardinality(A(p))
             /\ p \notin DOMAIN b => Cardinality(A(p)) = 0
             /\ p \in DOMAIN d => d[p] = Cardinality(B(p))
             /\ p \notin DOMAIN d => Cardinality(B(p)) = 0
             /\ p \in DOMAIN both => both[p] = Cardinality(C(p))
             /\ p \in DOMAIN both <=> p \in DOMAIN b \/ p \in DOMAIN d
  <2> HIDE DEF b, d, both, A, B, C
  <2> QED BY <1>0 DEF TellsCount
<1>4. both = [p \in DOMAIN both |-> both[p]]
  BY DEF BagOf
<1> HIDE DEF b, d, both, A, B, C
<1>5. DOMAIN both = DOMAIN b \cup DOMAIN d
  BY <1>3
<1>6. \A p \in DOMAIN both : both[p] = (IF p \in DOMAIN b THEN b[p] ELSE 0)
                                       + (IF p \in DOMAIN d THEN d[p] ELSE 0)
  BY <1>2, <1>3
<1>7. both = [p \in DOMAIN b \cup DOMAIN d |-> (IF p \in DOMAIN b THEN b[p] ELSE 0)
                                               + (IF p \in DOMAIN d THEN d[p] ELSE 0)]
  BY <1>4, <1>5, <1>6
<1> QED BY <1>7, Zenon DEF (+), both, b, d

LEMMA BagOfOne ==
    ASSUME NEW f, NEW x
    PROVE  BagOf(f, {x}) = SetToBag({f[x]})
<1>1. {f[s] : s \in {x}} = {f[x]}
  OBVIOUS
<1>2. \A p \in {f[x]} : {s \in {x} : f[s] = p} = {x}
  OBVIOUS
<1>3. Cardinality({x}) = 1
  BY FS_Singleton
<1>4. \A p \in {f[x]} : Cardinality({s \in {x} : f[s] = p}) = 1
  BY <1>2, <1>3
<1>5. BagOf(f, {x}) = [p \in {f[x]} |-> Cardinality({s \in {x} : f[s] = p})]
  BY <1>1, Zenon DEF BagOf
<1> QED BY <1>4, <1>5 DEF SetToBag

LEMMA BagOfNone ==
    ASSUME NEW f
    PROVE  BagOf(f, {}) = EmptyBag
<1>1. {f[s] : s \in {}} = {}
  OBVIOUS
<1> QED BY <1>1 DEF BagOf, EmptyBag, SetToBag

\* One more element, and one less.
LEMMA BagOfMore ==
    ASSUME NEW f, NEW S, IsFiniteSet(S), NEW x, x \notin S
    PROVE  BagOf(f, S \cup {x}) = BagOf(f, S) (+) SetToBag({f[x]})
<1>1. IsFiniteSet({x}) /\ S \cap {x} = {}
  BY FS_Singleton
<1>2. BagOf(f, S \cup {x}) = BagOf(f, S) (+) BagOf(f, {x})
  BY <1>1, BagOfBoth, Zenon
<1> QED BY <1>2, BagOfOne

LEMMA BagOfLess ==
    ASSUME NEW f, NEW S, IsFiniteSet(S), NEW x \in S
    PROVE  BagOf(f, S \ {x}) = BagOf(f, S) (-) SetToBag({f[x]})
<1> DEFINE A(p) == {s \in S : f[s] = p}
           B(p) == {s \in S \ {x} : f[s] = p}
           b == BagOf(f, S)
           d == BagOf(f, S \ {x})
           one == SetToBag({f[x]})
           left(p) == IF p \in DOMAIN one THEN b[p] - one[p] ELSE b[p]
<1>1. IsFiniteSet(S \ {x})
  BY FS_RemoveElement
<1>0. \A p : TellsCount(f, S, p, b, A(p)) /\ TellsCount(f, S \ {x}, p, d, B(p))
  BY <1>1, BagOfCounts, Zenon
<1>2. \A p : /\ Cardinality(A(p)) \in Nat /\ Cardinality(B(p)) \in Nat
             /\ Cardinality(B(p)) = IF p = f[x] THEN Cardinality(A(p)) - 1 ELSE Cardinality(A(p))
  <2> SUFFICES ASSUME NEW p
               PROVE  /\ Cardinality(A(p)) \in Nat /\ Cardinality(B(p)) \in Nat
                      /\ Cardinality(B(p)) = IF p = f[x] THEN Cardinality(A(p)) - 1
                                                         ELSE Cardinality(A(p))
    OBVIOUS
  <2>1. /\ IsFiniteSet(A(p)) /\ Cardinality(A(p)) \in Nat /\ Cardinality(B(p)) \in Nat
    BY <1>0 DEF TellsCount
  <2>2. p = f[x] => x \in A(p) /\ B(p) = A(p) \ {x}
    OBVIOUS
  <2>3. p # f[x] => B(p) = A(p)
    OBVIOUS
  <2> HIDE DEF A, B
  <2>4. x \in A(p) => Cardinality(A(p) \ {x}) = Cardinality(A(p)) - 1
    BY <2>1, FS_RemoveElement
  <2> QED BY <2>1, <2>2, <2>3, <2>4
<1>3. \A p : /\ p \in DOMAIN b => b[p] = Cardinality(A(p)) /\ Cardinality(A(p)) > 0
             /\ p \notin DOMAIN b => Cardinality(A(p)) = 0
             /\ p \in DOMAIN d => d[p] = Cardinality(B(p)) /\ Cardinality(B(p)) > 0
             /\ p \notin DOMAIN d => Cardinality(B(p)) = 0
  <2> HIDE DEF b, d, A, B
  <2> QED BY <1>0 DEF TellsCount
<1>4. d = [p \in DOMAIN d |-> d[p]]
  BY DEF BagOf
<1>5. DOMAIN one = {f[x]} /\ one[f[x]] = 1
  BY DEF SetToBag
<1> HIDE DEF b, d, one, A, B
<1>6. \A p \in DOMAIN b : left(p) = Cardinality(B(p))
  BY <1>2, <1>3, <1>5
<1>7. \A p : p \in DOMAIN d => p \in DOMAIN b
  BY <1>2, <1>3
<1>8. DOMAIN d = {p \in DOMAIN b : left(p) > 0}
  BY <1>2, <1>3, <1>6, <1>7
<1>9. \A p \in DOMAIN d : d[p] = left(p)
  BY <1>3, <1>6, <1>7
<1> HIDE DEF left
<1>10. d = [p \in {q \in DOMAIN b : left(q) > 0} |-> left(p)]
  BY <1>4, <1>8, <1>9
<1>11. b (-) one = [p \in {q \in DOMAIN b : left(q) > 0} |-> left(p)]
  <2> DEFINE m == [q \in DOMAIN b |-> left(q)]
  <2>1. b (-) one = [p \in {q \in DOMAIN m : m[q] > 0} |-> m[p]]
    BY Zenon DEF (-), left
  <2>2. DOMAIN m = DOMAIN b /\ \A q \in DOMAIN b : m[q] = left(q)
    OBVIOUS
  <2> HIDE DEF m
  <2>3. {q \in DOMAIN m : m[q] > 0} = {q \in DOMAIN b : left(q) > 0}
    BY <2>2
  <2>4. \A p \in {q \in DOMAIN m : m[q] > 0} : m[p] = left(p)
    BY <2>2
  <2> QED BY <2>1, <2>3, <2>4
<1> QED BY <1>10, <1>11 DEF d, b, one

LEMMA BagOfPart ==
    ASSUME NEW f, NEW S, IsFiniteSet(S), NEW T, T \subseteq S
    PROVE  BagOf(f, T) \sqsubseteq BagOf(f, S)
<1>1. IsFiniteSet(T)
  BY FS_Subset
<1>2. ASSUME NEW p \in DOMAIN BagOf(f, T)
      PROVE  p \in DOMAIN BagOf(f, S) /\ BagOf(f, T)[p] <= BagOf(f, S)[p]
  <2> DEFINE A == {s \in S : f[s] = p}
             B == {s \in T : f[s] = p}
  <2>1. TellsCount(f, S, p, BagOf(f, S), A) /\ TellsCount(f, T, p, BagOf(f, T), B)
    BY <1>1, BagOfCounts
  <2>2. B \in SUBSET A
    OBVIOUS
  <2> HIDE DEF A, B
  <2>3. p \in DOMAIN BagOf(f, S)
    BY <2>1 DEF TellsCount
  <2>4. Cardinality(B) <= Cardinality(A)
    BY <2>1, <2>2, FS_Subset DEF TellsCount
  <2> QED BY <2>1, <2>3, <2>4 DEF TellsCount
<1>3. /\ DOMAIN BagOf(f, T) \subseteq DOMAIN BagOf(f, S)
      /\ \A p \in DOMAIN BagOf(f, T) : BagOf(f, T)[p] <= BagOf(f, S)[p]
  BY <1>2
<1> QED BY <1>3 DEF \sqsubseteq

IsTotal(g, f, T) ==
    \A E \in SUBSET T : g[E] \in Nat /\ \A x \in E : g[E] = f[x] + g[E \ {x}]

\* The bag has as many elements as the set.
LEMMA BagOfSize ==
    ASSUME NEW f, NEW S, IsFiniteSet(S)
    PROVE  BagCardinality(BagOf(f, S)) = Cardinality(S)
<1> DEFINE b == BagOf(f, S)
           D == DOMAIN b
           In(E) == {s \in S : f[s] \in E}
           A(p) == {s \in S : f[s] = p}
           h == CHOOSE g : IsSum(g, b, D)
           Done == {n \in Nat : \A E \in SUBSET D : Cardinality(E) <= n => h[E] = Cardinality(In(E))}
<1>1. D = {f[s] : s \in S}
  BY DEF BagOf
<1>2. IsFiniteSet(D)
  <2> DEFINE m == [s \in S |-> f[s]]
  <2>1. m \in Surjection(S, D)
    BY <1>1 DEF Surjection
  <2> HIDE DEF m, D
  <2> QED BY <2>1, FS_Surjection
<1>3. \A p : TellsCount(f, S, p, b, A(p))
  BY BagOfCounts, Zenon
<1>4. \A p \in D : b[p] = Cardinality(A(p)) /\ b[p] \in Nat
  <2> HIDE DEF b, A
  <2> QED BY <1>3 DEF TellsCount, D
<1>5. IsSum(h, b, D)
  <2> HIDE DEF b, D
  <2>1. \E g : IsSum(g, b, D)
    BY <1>2, AddsExists
  <2> QED BY <2>1
<1>6. BagCardinality(b) = h[D]
  BY Zenon DEF BagCardinality, IsSum, Pick
<1> HIDE DEF h, b
<1>7. Adds(h, b, D)
  BY <1>5, Zenon DEF IsSum, Adds
<1> HIDE DEF D
<1>8. /\ h[{}] = 0
      /\ \A E \in SUBSET D : h[E] \in Nat /\ \A x \in E : h[E] = b[x] + h[E \ {x}]
  <2>1. \A x \in D : b[x] \in Nat
    BY <1>4
  <2>2. h[{}] = 0
    BY <1>2, <1>7, <2>1, AddsAny, Zenon
  <2>3. \A E \in SUBSET D : h[E] \in Nat /\ \A x \in E : h[E] = b[x] + h[E \ {x}]
    <3>1. ASSUME NEW g, NEW c, NEW T, IsFiniteSet(T), \A x \in T : c[x] \in Nat, Adds(g, c, T)
          PROVE  IsTotal(g, c, T)
      <4>1. \A E \in SUBSET T : g[E] \in Nat /\ \A x \in E : g[E] = c[x] + g[E \ {x}]
        BY <3>1, AddsAny
      <4> QED BY <4>1, Zenon DEF IsTotal
    <3>2. IsTotal(h, b, D)
      BY <1>2, <1>7, <2>1, <3>1, Zenon
    <3> QED BY <3>2, Zenon DEF IsTotal
  <2> QED BY <2>2, <2>3
<1>9. 0 \in Done
  <2> SUFFICES ASSUME NEW E \in SUBSET D, Cardinality(E) <= 0 PROVE h[E] = Cardinality(In(E))
    OBVIOUS
  <2>1. E = {}
    BY <1>2, SubsetSizes
  <2>2. In(E) = {}
    BY <2>1
  <2> QED BY <1>8, <2>1, <2>2, FS_EmptySet
<1>10. ASSUME NEW n \in Nat, n \in Done PROVE n + 1 \in Done
  <2> SUFFICES ASSUME NEW E \in SUBSET D, Cardinality(E) <= n + 1, E # {}
               PROVE  h[E] = Cardinality(In(E))
    <3>1. In({}) = {}
      OBVIOUS
    <3> HIDE DEF In
    <3>2. h[{}] = Cardinality(In({}))
      BY <1>8, <3>1, FS_EmptySet
    <3>3. n + 1 \in Nat
      OBVIOUS
    <3> QED BY <3>2, <3>3
  <2>1. PICK x \in E : TRUE
    OBVIOUS
  <2>2. /\ IsFiniteSet(E) /\ Cardinality(E) \in Nat
        /\ E \ {x} \in SUBSET D /\ Cardinality(E \ {x}) = Cardinality(E) - 1
    BY <1>2, SubsetSizes
  <2>3. h[E \ {x}] = Cardinality(In(E \ {x}))
    <3>1. Cardinality(E \ {x}) <= n
      BY <2>2
    <3> HIDE DEF In
    <3> QED BY <1>10, <2>2, <3>1
  <2>4. h[E] = Cardinality(A(x)) + h[E \ {x}]
    BY <1>4, <1>8
  <2>5. In(E) = A(x) \cup In(E \ {x}) /\ A(x) \cap In(E \ {x}) = {}
    OBVIOUS
  <2>6. A(x) \in SUBSET S /\ In(E \ {x}) \in SUBSET S
    OBVIOUS
  <2> HIDE DEF A, In
  <2>7. /\ IsFiniteSet(A(x)) /\ Cardinality(A(x)) \in Nat
        /\ IsFiniteSet(In(E \ {x})) /\ Cardinality(In(E \ {x})) \in Nat
    <3>1. ASSUME NEW E2 \in SUBSET S PROVE IsFiniteSet(E2) /\ Cardinality(E2) \in Nat
      BY SubsetSizes
    <3> QED BY <2>6, <3>1
  <2>8. Cardinality(In(E)) = Cardinality(A(x)) + Cardinality(In(E \ {x})) - Cardinality({})
    BY <2>5, <2>7, FS_Union
  <2> QED BY <2>3, <2>4, <2>7, <2>8, FS_EmptySet
<1>11. Cardinality(D) \in Nat
  BY <1>2, FS_CardinalityType
<1>12. Cardinality(D) \in Done
  <2> HIDE DEF Done
  <2> QED BY <1>9, <1>10, <1>11, AllNumbers
<1>13. h[D] = Cardinality(In(D))
  <2> HIDE DEF In
  <2> QED BY <1>11, <1>12
<1>14. In(D) = S
  BY <1>1
<1> QED BY <1>6, <1>13, <1>14 DEF b

----------------------------------------------------------------------------
(***************************************************************************)
(* HashTableDictionary: what the operations on a table do to its pairs.    *)
(***************************************************************************)
Entries(t) == BagOf(PairAt(t), Live(t))

Gone(t) == BagOf(PairAt(t), Removed(t))

LEMMA TablePairs ==
    ASSUME NEW t
    PROVE  Pairs(t, Live(t)) = Entries(t) /\ Pairs(t, Removed(t)) = Gone(t)
<1>1. Live(t) \subseteq Slots(t) /\ Removed(t) \subseteq Slots(t)
  BY DEF Live, Removed
<1>2. ASSUME NEW S, S \subseteq Slots(t) PROVE Pairs(t, S) = BagOf(PairAt(t), S)
  BY <1>2, PairsAre, Zenon
<1> QED BY <1>1, <1>2, Zenon DEF Entries, Gone

LEMMA SlotSets ==
    ASSUME NEW t, IsTable(t)
    PROVE  /\ IsFiniteSet(Slots(t)) /\ Cardinality(Slots(t)) = t.capacity
           /\ IsFiniteSet(Live(t)) /\ Live(t) \subseteq Slots(t)
           /\ IsFiniteSet(Removed(t)) /\ Removed(t) \subseteq Slots(t)
           /\ Live(t) \cap Removed(t) = {}
           /\ \A s \in Slots(t) : PairAt(t)[s] = <<t.elements[s].key, t.elements[s].value>>
<1>1. t.capacity \in Nat \ {0} /\ Slots(t) = 0 .. t.capacity - 1
  BY DEF IsTable, Slots
<1>2. IsFiniteSet(Slots(t)) /\ Cardinality(Slots(t)) = t.capacity
  BY <1>1, FS_Interval
<1>3. Live(t) \subseteq Slots(t) /\ Removed(t) \subseteq Slots(t) /\ Live(t) \cap Removed(t) = {}
  BY DEF Live, Removed, FIRST_VALID, REMOVED
<1>4. IsFiniteSet(Live(t)) /\ IsFiniteSet(Removed(t))
  BY <1>2, <1>3, FS_Subset
<1> QED BY <1>2, <1>3, <1>4 DEF PairAt

\* A pair is in the dictionary when a live element has it.
LEMMA EntryIsLive ==
    ASSUME NEW t, IsTable(t), NEW k, NEW v
    PROVE  BagIn(<<k, v>>, Entries(t)) <=> \E s \in LiveOf(t, k) : t.elements[s].value = v
<1>1. BagIn(<<k, v>>, Entries(t)) <=> <<k, v>> \in DOMAIN Entries(t)
  BY DEF BagIn, BagToSet
<1>2. IsFiniteSet(Live(t)) /\ Live(t) \subseteq Slots(t)
  BY SlotSets
<1>3. DOMAIN Entries(t) = {PairAt(t)[s] : s \in Live(t)}
  BY DEF Entries, BagOf
<1>4. <<k, v>> \in DOMAIN Entries(t) <=> \E s \in Live(t) : PairAt(t)[s] = <<k, v>>
  BY <1>3
<1>5. \A s \in Live(t) : PairAt(t)[s] = <<k, v>> <=> t.elements[s].key = k /\ t.elements[s].value = v
  BY <1>2, SlotSets
<1> QED BY <1>1, <1>4, <1>5 DEF LiveOf

\* A table that init has made has no pairs.
LEMMA EmptyPairs ==
    ASSUME NEW c \in Nat \ {0}
    PROVE  Entries(EmptyTable(c)) = EmptyBag /\ Gone(EmptyTable(c)) = EmptyBag
<1>1. Live(EmptyTable(c)) = {} /\ Removed(EmptyTable(c)) = {}
  BY DEF Live, Removed, Slots, EmptyTable, UNOCCUPIED, FIRST_VALID, REMOVED
<1> QED BY <1>1, BagOfNone, Zenon DEF Entries, Gone

\* A pair more, and at most one removed pair less.
PairStored(t, u, s, p) ==
    /\ Removed(u) = Removed(t) \ {s}
    /\ BagCardinality(Entries(t)) < t.capacity
    /\ Entries(u) = Entries(t) (+) SetToBag({p})
    /\ \/ Gone(u) = Gone(t)
       \/ \E q \in BagToSet(Gone(t)) : Gone(u) = Gone(t) (-) SetToBag({q})

\* add puts one pair more into the table, and forgets at most one removed pair.
LEMMA StorePairs ==
    ASSUME NEW t, IsTable(t), NEW s \in AddStops(t), NEW k \in Key, NEW v \in Value \cup {Garbage}
    PROVE  PairStored(t, Store(t, s, k, v), s, <<k, v>>)
<1> DEFINE u == Store(t, s, k, v)
           f == PairAt(t)
           g == PairAt(u)
           L == Live(t)
           R == Removed(t)
<1>1. s \in Slots(t) /\ s \notin L
  BY DEF AddStops, Unoccupied, Removed, Live, UNOCCUPIED, REMOVED, FIRST_VALID
<1>2. /\ Live(u) = L \cup {s} /\ Removed(u) = R \ {s} /\ Slots(u) = Slots(t)
      /\ g[s] = <<k, v>> /\ \A r \in Slots(t) \ {s} : g[r] = f[r]
  <2>1. /\ u.capacity = t.capacity /\ Live(u) = L \cup {s}
        /\ u.elements[s] = [hash |-> HashOf(k), key |-> k, value |-> v]
        /\ \A r \in Slots(t) \ {s} : u.elements[r] = t.elements[r]
    BY <1>1, StoreEffect
  <2> HIDE DEF u
  <2>2. Slots(u) = Slots(t)
    BY <2>1 DEF Slots
  <2>3. HashOf(k) >= FIRST_VALID
    BY HashOfValid
  <2>4. Removed(u) = R \ {s}
    BY <1>1, <2>1, <2>2, <2>3 DEF Removed, FIRST_VALID, REMOVED
  <2> QED BY <1>1, <2>1, <2>2, <2>4 DEF PairAt
<1>3. /\ IsFiniteSet(L) /\ L \subseteq Slots(t) /\ IsFiniteSet(R) /\ R \subseteq Slots(t)
      /\ IsFiniteSet(Slots(t)) /\ Cardinality(Slots(t)) = t.capacity
  BY SlotSets
<1> HIDE DEF u, f, g, L, R
<1>4. BagCardinality(BagOf(f, L)) < t.capacity
  <2>1. Cardinality(L) < Cardinality(Slots(t))
    <3>1. L \cup {s} \subseteq Slots(t) /\ IsFiniteSet(L \cup {s}) /\ Cardinality(L \cup {s}) = Cardinality(L) + 1
      BY <1>1, <1>3, FS_AddElement
    <3>2. Cardinality(L \cup {s}) <= Cardinality(Slots(t)) /\ Cardinality(L) \in Nat /\ Cardinality(Slots(t)) \in Nat
      BY <1>3, <3>1, FS_Subset, FS_CardinalityType
    <3> QED BY <3>1, <3>2
  <2>2. BagCardinality(BagOf(f, L)) = Cardinality(L)
    BY <1>3, BagOfSize
  <2> QED BY <1>3, <2>1, <2>2
<1>5. BagOf(g, L \cup {s}) = BagOf(f, L) (+) SetToBag({<<k, v>>})
  <2>1. \A r \in L : g[r] = f[r]
    BY <1>1, <1>2, <1>3
  <2>2. BagOf(g, L) = BagOf(f, L)
    BY <2>1, BagOfAlike, Zenon
  <2>3. BagOf(g, L \cup {s}) = BagOf(g, L) (+) SetToBag({g[s]})
    BY <1>1, <1>3, BagOfMore, Zenon
  <2>4. g[s] = <<k, v>>
    BY <1>2
  <2> QED BY <2>2, <2>3, <2>4, Zenon
<1>6. BagOf(g, R \ {s}) = BagOf(f, R \ {s})
  <2>1. \A r \in R \ {s} : g[r] = f[r]
    BY <1>2, <1>3
  <2>2. ASSUME NEW S, \A r \in S : g[r] = f[r] PROVE BagOf(g, S) = BagOf(f, S)
    BY <2>2, BagOfAlike, Zenon
  <2> QED BY <2>1, <2>2
<1>7. CASE s \in R
  <2>1. BagOf(f, R \ {s}) = BagOf(f, R) (-) SetToBag({f[s]})
    BY <1>3, <1>7, BagOfLess
  <2>2. f[s] \in BagToSet(BagOf(f, R))
    <3>1. DOMAIN BagOf(f, R) = {f[r] : r \in R}
      BY DEF BagOf
    <3> QED BY <1>7, <3>1 DEF BagToSet
  <2>3. \E q \in BagToSet(BagOf(f, R)) : BagOf(g, R \ {s}) = BagOf(f, R) (-) SetToBag({q})
    BY <1>6, <2>1, <2>2, Zenon
  <2> QED BY <1>2, <1>4, <1>5, <2>3, Zenon DEF PairStored, Entries, Gone, u, f, g, L, R
<1>8. CASE s \notin R
  <2>1. R \ {s} = R
    BY <1>8
  <2>2. BagOf(g, R \ {s}) = BagOf(f, R)
    BY <1>6, <2>1
  <2> QED BY <1>2, <1>4, <1>5, <2>2, Zenon DEF PairStored, Entries, Gone, u, f, g, L, R
<1> QED BY <1>7, <1>8

\* remove takes one pair out and keeps it as a removed one.
LEMMA ErasePairs ==
    ASSUME NEW t, Good(t), NEW s \in Live(t), NEW p, p = <<t.elements[s].key, t.elements[s].value>>
    PROVE  /\ Entries(Erase(t, s)) = Entries(t) (-) SetToBag({p})
           /\ Gone(Erase(t, s)) = Gone(t) (+) SetToBag({p})
<1> DEFINE u == Erase(t, s)
           f == PairAt(t)
           g == PairAt(u)
           L == Live(t)
           R == Removed(t)
<1>0. IsTable(t) /\ t.count > 0
  BY EraseGood DEF Good
<1>1. s \in Slots(t) /\ s \in L /\ s \notin R
  BY DEF Removed, Live, REMOVED, FIRST_VALID
<1>2. /\ Live(u) = L \ {s} /\ Removed(u) = R \cup {s} /\ Slots(u) = Slots(t)
      /\ g[s] = p /\ f[s] = p /\ \A r \in Slots(t) \ {s} : g[r] = f[r]
  <2>1. /\ u.capacity = t.capacity /\ Live(u) = L \ {s}
        /\ \A r \in Slots(t) \ {s} : u.elements[r] = t.elements[r]
    BY <1>0, EraseEffect
  <2>2. u.elements[s] = [hash |-> REMOVED, key |-> t.elements[s].key, value |-> t.elements[s].value]
    BY <1>0, <1>1 DEF Erase, IsTable
  <2> HIDE DEF u
  <2>3. Slots(u) = Slots(t)
    BY <2>1 DEF Slots
  <2>4. Removed(u) = R \cup {s}
    BY <1>1, <2>1, <2>2, <2>3 DEF Removed
  <2> QED BY <1>1, <2>1, <2>2, <2>3, <2>4 DEF PairAt
<1>3. /\ IsFiniteSet(L) /\ L \subseteq Slots(t) /\ IsFiniteSet(R) /\ R \subseteq Slots(t)
  BY <1>0, SlotSets
<1> HIDE DEF u, f, g, L, R
<1>4. BagOf(g, L \ {s}) = BagOf(f, L) (-) SetToBag({p})
  <2>1. \A r \in L \ {s} : g[r] = f[r]
    BY <1>2, <1>3
  <2>2. ASSUME NEW S, \A r \in S : g[r] = f[r] PROVE BagOf(g, S) = BagOf(f, S)
    BY <2>2, BagOfAlike, Zenon
  <2>3. BagOf(g, L \ {s}) = BagOf(f, L \ {s})
    BY <2>1, <2>2
  <2> QED BY <1>1, <1>2, <1>3, <2>3, BagOfLess
<1>5. BagOf(g, R \cup {s}) = BagOf(f, R) (+) SetToBag({p})
  <2>1. \A r \in R : g[r] = f[r]
    BY <1>1, <1>2, <1>3
  <2>2. BagOf(g, R) = BagOf(f, R)
    BY <2>1, BagOfAlike, Zenon
  <2> QED BY <1>1, <1>2, <1>3, <2>2, BagOfMore
<1> QED BY <1>2, <1>4, <1>5, Zenon DEF Entries, Gone, u, f, g, L, R

----------------------------------------------------------------------------
(***************************************************************************)
(* HashTableDictionary: every step of the table is one of the dictionary.  *)
(***************************************************************************)
LEMMA SameBags ==
    /\ \A B, C : Dict!(+)(B, C) = B (+) C /\ Dict!(-)(B, C) = B (-) C
    /\ \A B, C : Dict!\sqsubseteq(B, C) <=> B \sqsubseteq C
    /\ \A S : Dict!SetToBag(S) = SetToBag(S)
    /\ \A B : Dict!BagToSet(B) = BagToSet(B)
    /\ \A B, e : Dict!BagIn(e, B) <=> BagIn(e, B)
    /\ Dict!EmptyBag = EmptyBag
<1>1. \A B, C : Dict!(+)(B, C) = B (+) C
  BY Zenon DEF Dict!(+), (+)
<1>2. \A B, C : Dict!(-)(B, C) = B (-) C
  BY Zenon DEF Dict!(-), (-)
<1>3. \A B, C : Dict!\sqsubseteq(B, C) <=> B \sqsubseteq C
  BY Zenon DEF Dict!\sqsubseteq, \sqsubseteq
<1>4. \A S : Dict!SetToBag(S) = SetToBag(S)
  BY Zenon DEF Dict!SetToBag, SetToBag
<1>5. \A B : Dict!BagToSet(B) = BagToSet(B)
  BY Zenon DEF Dict!BagToSet, BagToSet
<1>6. \A B, e : Dict!BagIn(e, B) <=> BagIn(e, B)
  BY <1>5, Zenon DEF Dict!BagIn, BagIn
<1>7. Dict!EmptyBag = EmptyBag
  BY <1>4, Zenon DEF Dict!EmptyBag, EmptyBag
<1> QED BY <1>1, <1>2, <1>3, <1>4, <1>5, <1>6, <1>7, Zenon

LEMMA SameSize == \A B : Dict!BagCardinality(B) = BagCardinality(B)
BY Zenon DEF Dict!BagCardinality, BagCardinality

LEMMA DictAdds ==
    ASSUME NEW op \in {"add", "add_empty", "add_resize_factor"}, NEW k \in Key,
           NEW v \in Value \cup {Garbage},
           BagCardinality(Entries(ht)) < ht.capacity,
           Entries(ht') = Entries(ht) (+) SetToBag({<<k, v>>}),
           \/ Gone(ht') = Gone(ht)
           \/ \E p \in BagToSet(Gone(ht)) : Gone(ht') = Gone(ht) (-) SetToBag({p}),
           last' = [op |-> op, key |-> k, result |-> v], ht'.capacity = ht.capacity
    PROVE  Dict!Next
<1>1. Dict!Add(op, k, v)
  BY SameBags, SameSize, TablePairs, Zenon DEF Dict!Add, Dict!Pair, Dict!Answer
<1> QED BY <1>1, Zenon DEF Dict!Next

LEMMA DictTakesOut ==
    ASSUME NEW k \in Key, NEW v \in Value \cup {Garbage}, NEW p, p = <<k, v>>,
           BagIn(p, Entries(ht)),
           Entries(ht') = Entries(ht) (-) SetToBag({p}),
           Gone(ht') = Gone(ht) (+) SetToBag({p}),
           ht'.capacity = ht.capacity,
           last' = [op |-> "remove", key |-> k, result |-> 1] \/ last' = last
    PROVE  Dict!Next
<1>1. Dict!TakeOut(k)
  BY SameBags, TablePairs, Zenon DEF Dict!TakeOut, Dict!Pair
<1> QED BY <1>1, Zenon DEF Dict!Next, Dict!Remove, Dict!Answer, Dict!RemoveWhileIterating

LEMMA DictLooks ==
    ASSUME NEW k \in Key, UNCHANGED ht,
           \/ /\ \A v \in Value \cup {Garbage} : ~BagIn(<<k, v>>, Entries(ht))
              /\ \/ last' = [op |-> "remove", key |-> k, result |-> 0]
                 \/ last' = [op |-> "get", key |-> k, result |-> NULL]
           \/ \E v \in Value \cup {Garbage} :
                 BagIn(<<k, v>>, Entries(ht)) /\ last' = [op |-> "get", key |-> k, result |-> v]
    PROVE  Dict!Next
<1>1. /\ Pairs(ht', Live(ht')) = Pairs(ht, Live(ht)) /\ Pairs(ht', Removed(ht')) = Pairs(ht, Removed(ht))
      /\ ht'.capacity = ht.capacity
  BY TablePairs, Zenon
<1>2. Pairs(ht, Live(ht)) = Entries(ht)
  BY TablePairs, Zenon
<1>3. CASE /\ \A v \in Value \cup {Garbage} : ~BagIn(<<k, v>>, Entries(ht))
           /\ last' = [op |-> "remove", key |-> k, result |-> 0]
  <2>1. Dict!Remove(k)
    BY <1>1, <1>2, <1>3, SameBags, Zenon DEF Dict!Remove, Dict!IsAbsent, Dict!Answer
  <2> QED BY <2>1, Zenon DEF Dict!Next
<1>4. CASE /\ \A v \in Value \cup {Garbage} : ~BagIn(<<k, v>>, Entries(ht))
           /\ last' = [op |-> "get", key |-> k, result |-> NULL]
  <2>1. Dict!Get(k)
    BY <1>1, <1>2, <1>4, SameBags, Zenon DEF Dict!Get, Dict!IsAbsent, Dict!Answer
  <2> QED BY <2>1, Zenon DEF Dict!Next
<1>5. CASE \E v \in Value \cup {Garbage} :
              BagIn(<<k, v>>, Entries(ht)) /\ last' = [op |-> "get", key |-> k, result |-> v]
  <2>1. Dict!Get(k)
    BY <1>1, <1>2, <1>5, SameBags, Zenon DEF Dict!Get, Dict!Answer
  <2> QED BY <2>1, Zenon DEF Dict!Next
<1> QED BY <1>3, <1>4, <1>5, Zenon

LEMMA DictStays ==
    ASSUME UNCHANGED ht,
           \/ last' = NoAnswer
           \/ \E op \in {"for", "for_remove"} : last' = [op |-> op, key |-> Garbage, result |-> NULL]
           \/ last' = last
    PROVE  [Dict!Next]_(Dict!vars)
<1>1. /\ Pairs(ht', Live(ht')) = Pairs(ht, Live(ht)) /\ Pairs(ht', Removed(ht')) = Pairs(ht, Removed(ht))
      /\ ht'.capacity = ht.capacity
  BY TablePairs, Zenon
<1>2. CASE last' = NoAnswer
  BY <1>1, <1>2, Zenon DEF Dict!Next, Dict!Begin
<1>3. CASE \E op \in {"for", "for_remove"} : last' = [op |-> op, key |-> Garbage, result |-> NULL]
  BY <1>1, <1>3, Zenon DEF Dict!Next, Dict!EndIteration, Dict!Answer
<1>4. CASE last' = last
  BY <1>1, <1>4, Zenon DEF Dict!vars
<1> QED BY <1>2, <1>3, <1>4, Zenon

LEMMA DictEmpties ==
    ASSUME NEW c \in Capacities, ht' = EmptyTable(c), last' = [op |-> "init", key |-> Garbage, result |-> NULL]
    PROVE  Dict!Next
<1>1. Entries(ht') = EmptyBag /\ Gone(ht') = EmptyBag /\ ht'.capacity = c
  <2>1. c \in Nat \ {0}
    BY CapacitiesAssumption
  <2>2. ht'.capacity = c
    BY DEF EmptyTable
  <2> QED BY <2>1, <2>2, EmptyPairs, Zenon
<1>2. Dict!Reinit(c)
  BY <1>1, SameBags, TablePairs, Zenon DEF Dict!Reinit, Dict!Empty, Dict!Answer
<1>3. c \in AllCapacities
  BY DEF AllCapacities
<1> QED BY <1>2, <1>3, Zenon DEF Dict!Next

LEMMA DictResizes ==
    ASSUME NEW c \in AllCapacities, ht'.capacity = c, Gone(ht') = EmptyBag,
           Entries(ht') \sqsubseteq Entries(ht) (+) Gone(ht),
           BagCardinality(Entries(ht')) =
               IF BagCardinality(Entries(ht) (+) Gone(ht)) <= c
               THEN BagCardinality(Entries(ht) (+) Gone(ht)) ELSE c,
           last' \in {NoAnswer, [op |-> "resize", key |-> Garbage, result |-> NULL]}
    PROVE  Dict!Next
<1>1. Dict!Resize(c)
  BY SameBags, SameSize, TablePairs, Zenon DEF Dict!Resize
<1> QED BY <1>1, Zenon DEF Dict!Next

\* What is to show of a step.
DictStep ==
    /\ ht'.capacity \in AllCapacities
    /\ CopiedPairs'
    /\ [Dict!Next]_(Dict!vars)

LEMMA DictInvGood ==
    ASSUME DictInv
    PROVE  /\ IInv /\ Good(ht) /\ IsTable(ht) /\ ht.capacity \in Nat \ {0}
           /\ ht.capacity \in AllCapacities
           /\ new # NoTable => Good(new) /\ IsTable(new)
BY IInvGood DEF DictInv, Good, IsTable

\* A step that leaves the pairs alone and starts no resize.
LEMMA QuietDict ==
    ASSUME DictInv, UNCHANGED ht, pc' # "resizing",
           \/ last' = NoAnswer
           \/ \E op \in {"for", "for_remove"} : last' = [op |-> op, key |-> Garbage, result |-> NULL]
           \/ last' = last
    PROVE  DictStep
<1>1. [Dict!Next]_(Dict!vars)
  BY DictStays, Zenon
<1>2. CopiedPairs'
  BY DEF CopiedPairs
<1>3. ht'.capacity \in AllCapacities
  BY DEF DictInv
<1> QED BY <1>1, <1>2, <1>3, Zenon DEF DictStep

LEMMA InsertDict ==
    ASSUME DictInv, NEW op \in {"add", "add_resize_factor"}, NEW k \in Key, NEW v \in Value,
           InsertInto(op, k, v)
    PROVE  DictStep
<1>1. CASE Landing(ht, k, AddStops(ht)) = {}
  BY <1>1, QuietDict DEF InsertInto, LoopForever
<1>2. CASE Landing(ht, k, AddStops(ht)) # {}
  <2>1. PICK s \in Landing(ht, k, AddStops(ht)) : ht' = Store(ht, s, k, v) /\ Return(op, k, v)
    BY <1>2 DEF InsertInto
  <2>2. s \in AddStops(ht) /\ IsTable(ht) /\ v \in Value \cup {Garbage}
        /\ op \in {"add", "add_empty", "add_resize_factor"}
    BY DictInvGood DEF Landing
  <2>3. ht'.capacity = ht.capacity
    BY <2>1 DEF Store
  <2>4. last' = [op |-> op, key |-> k, result |-> v] /\ pc' = "ready"
    BY <2>1 DEF Return
  <2>5. PairStored(ht, Store(ht, s, k, v), s, <<k, v>>)
    BY <2>2, StorePairs, Zenon
  <2>6. Dict!Next
    BY <2>1, <2>2, <2>3, <2>4, <2>5, DictAdds, Zenon DEF PairStored
  <2>7. CopiedPairs' /\ ht'.capacity \in AllCapacities
    BY <2>3, <2>4, DictInvGood DEF CopiedPairs
  <2> QED BY <2>6, <2>7, Zenon DEF DictStep
<1> QED BY <1>1, <1>2

LEMMA AddEmptyDict ==
    ASSUME DictInv, NEW k \in Key, AddEmpty(k)
    PROVE  DictStep
<1>1. CASE Landing(ht, k, AddStops(ht)) = {}
  BY <1>1, QuietDict DEF AddEmpty, LoopForever
<1>2. CASE Landing(ht, k, AddStops(ht)) # {}
  <2>1. PICK s \in Landing(ht, k, AddStops(ht)) :
               ht' = StoreKey(ht, s, k) /\ Return("add_empty", k, ht.elements[s].value)
    BY <1>2 DEF AddEmpty
  <2> DEFINE v == ht.elements[s].value
  <2>2. s \in AddStops(ht) /\ IsTable(ht) /\ v \in Value \cup {Garbage}
    <3>1. s \in AddStops(ht) /\ IsTable(ht) /\ s \in Slots(ht)
      BY DictInvGood DEF Landing, AddStops, Unoccupied, Removed
    <3> QED BY <3>1, UsedOrNot
  <2>3. ht' = Store(ht, s, k, v) /\ ht'.capacity = ht.capacity
    BY <2>1 DEF Store, StoreKey
  <2>4. last' = [op |-> "add_empty", key |-> k, result |-> v] /\ pc' = "ready"
    BY <2>1 DEF Return
  <2> HIDE DEF v
  <2>5. PairStored(ht, Store(ht, s, k, v), s, <<k, v>>)
    BY <2>2, StorePairs, Zenon
  <2>6. Dict!Next
    <3>1. "add_empty" \in {"add", "add_empty", "add_resize_factor"}
      OBVIOUS
    <3> QED BY <2>2, <2>3, <2>4, <2>5, <3>1, DictAdds, Zenon DEF PairStored
  <2>7. CopiedPairs' /\ ht'.capacity \in AllCapacities
    BY <2>3, <2>4, DictInvGood DEF CopiedPairs
  <2> QED BY <2>6, <2>7, Zenon DEF DictStep
<1> QED BY <1>1, <1>2

\* Taking out the element at a slot.
LEMMA EraseDict ==
    ASSUME DictInv, NEW k \in Key, NEW s \in LiveOf(ht, k), ht' = Erase(ht, s), pc' # "resizing",
           last' = [op |-> "remove", key |-> k, result |-> 1] \/ last' = last
    PROVE  DictStep
<1> DEFINE v == ht.elements[s].value
           p == <<k, v>>
<1>1. s \in Live(ht) /\ s \in Slots(ht) /\ ht.elements[s].key = k
  BY DEF LiveOf, Live
<1>2. v \in Value \cup {Garbage}
  BY <1>1, UsedOrNot, DictInvGood
<1>3. p = <<ht.elements[s].key, ht.elements[s].value>>
  BY <1>1
<1>4. BagIn(<<k, v>>, Entries(ht))
  <2>1. \E r \in LiveOf(ht, k) : ht.elements[r].value = v
    OBVIOUS
  <2> HIDE DEF v
  <2> QED BY <2>1, EntryIsLive, DictInvGood
<1>5. ht'.capacity = ht.capacity
  BY DEF Erase
<1>6. Entries(ht') = Entries(ht) (-) SetToBag({p}) /\ Gone(ht') = Gone(ht) (+) SetToBag({p})
  BY <1>1, <1>3, ErasePairs, DictInvGood, Zenon
<1> HIDE DEF v
<1>7. Dict!Next
  <2>1. BagIn(p, Entries(ht))
    BY <1>4
  <2>2. p = <<k, v>>
    OBVIOUS
  <2> HIDE DEF p
  <2> QED BY <1>2, <1>5, <1>6, <2>1, <2>2, DictTakesOut, Zenon
<1>8. CopiedPairs' /\ ht'.capacity \in AllCapacities
  BY <1>5, DictInvGood DEF CopiedPairs
<1> QED BY <1>7, <1>8, Zenon DEF DictStep

\* Nothing has the key.
LEMMA NoEntries ==
    ASSUME DictInv, NEW k, LiveOf(ht, k) = {}
    PROVE  \A v \in Value \cup {Garbage} : ~BagIn(<<k, v>>, Entries(ht))
<1> SUFFICES ASSUME NEW v \in Value \cup {Garbage} PROVE ~BagIn(<<k, v>>, Entries(ht))
  BY Zenon
<1> QED BY EntryIsLive, DictInvGood

LEMMA RemoveDict ==
    ASSUME DictInv, NEW k \in Key, Remove(k)
    PROVE  DictStep
<1>1. CASE Landing(ht, k, RemoveStops(ht, k)) = {}
  BY <1>1, QuietDict DEF Remove, LoopForever
<1>2. CASE Landing(ht, k, RemoveStops(ht, k)) # {}
  <2>1. PICK s \in Landing(ht, k, RemoveStops(ht, k)) :
               IF s \in Unoccupied(ht)
               THEN ht' = ht /\ Return("remove", k, 0)
               ELSE ht' = Erase(ht, s) /\ Return("remove", k, 1)
    BY <1>2 DEF Remove
  <2>2. CASE s \in Unoccupied(ht)
    <3>1. LiveOf(ht, k) = {}
      BY <2>2, RemoveMissesNone, DictInvGood
    <3>2. ht' = ht /\ last' = [op |-> "remove", key |-> k, result |-> 0] /\ pc' = "ready"
      BY <2>1, <2>2 DEF Return
    <3>3. Dict!Next
      BY <3>1, <3>2, NoEntries, DictLooks, Zenon
    <3>4. CopiedPairs' /\ ht'.capacity \in AllCapacities
      BY <3>2, DictInvGood DEF CopiedPairs
    <3> QED BY <3>3, <3>4, Zenon DEF DictStep
  <2>3. CASE s \notin Unoccupied(ht)
    <3>1. s \in LiveOf(ht, k)
      BY <2>3, SearchLands
    <3>2. ht' = Erase(ht, s) /\ last' = [op |-> "remove", key |-> k, result |-> 1] /\ pc' = "ready"
      BY <2>1, <2>3 DEF Return
    <3> QED BY <3>1, <3>2, EraseDict
  <2> QED BY <2>2, <2>3
<1> QED BY <1>1, <1>2

LEMMA GetDict ==
    ASSUME DictInv, NEW k \in Key, Get(k)
    PROVE  DictStep
<1>1. CASE Landing(ht, k, GetStops(ht, k)) = {}
  BY <1>1, QuietDict DEF Get, LoopForever
<1>2. CASE Landing(ht, k, GetStops(ht, k)) # {}
  <2>1. PICK s \in Landing(ht, k, GetStops(ht, k)) :
               /\ ht' = ht
               /\ Return("get", k, IF s \in Unoccupied(ht) THEN NULL ELSE ht.elements[s].value)
    BY <1>2 DEF Get
  <2>2. CopiedPairs' /\ ht'.capacity \in AllCapacities
    BY <2>1, DictInvGood DEF CopiedPairs, Return
  <2>3. CASE s \in Unoccupied(ht)
    <3>1. LiveOf(ht, k) = {}
      BY <2>3, GetMissesNone, DictInvGood
    <3>2. last' = [op |-> "get", key |-> k, result |-> NULL]
      BY <2>1, <2>3 DEF Return
    <3>3. Dict!Next
      BY <2>1, <3>1, <3>2, NoEntries, DictLooks, Zenon
    <3> QED BY <2>2, <3>3, Zenon DEF DictStep
  <2>4. CASE s \notin Unoccupied(ht)
    <3> DEFINE v == ht.elements[s].value
    <3>1. s \in LiveOf(ht, k) /\ s \in Slots(ht)
      BY <2>4, SearchLands DEF LiveOf, Live
    <3>2. last' = [op |-> "get", key |-> k, result |-> v] /\ v \in Value \cup {Garbage}
      BY <2>1, <2>4, <3>1, UsedOrNot, DictInvGood DEF Return
    <3>3. BagIn(<<k, v>>, Entries(ht))
      <4>1. \E r \in LiveOf(ht, k) : ht.elements[r].value = v
        BY <3>1
      <4> HIDE DEF v
      <4> QED BY <4>1, EntryIsLive, DictInvGood
    <3> HIDE DEF v
    <3>4. Dict!Next
      BY <2>1, <3>2, <3>3, DictLooks, Zenon
    <3> QED BY <2>2, <3>4, Zenon DEF DictStep
  <2> QED BY <2>3, <2>4
<1> QED BY <1>1, <1>2

LEMMA ResizeBeginDict ==
    ASSUME DictInv, NEW op, NEW k, NEW v, NEW c \in AllCapacities, c \in Nat \ {0}, ResizeBegin(op, k, v, c)
    PROVE  DictStep
<1>1. new' = EmptyTable(c) /\ i' = 0 /\ last' = NoAnswer /\ ht' = ht
  BY DEF ResizeBegin
<1>2. Removed(new') = {} /\ new'.capacity = c
  BY <1>1 DEF Removed, Slots, EmptyTable, UNOCCUPIED, REMOVED
<1>3. Pairs(new', Live(new')) = EmptyBag
  BY <1>1, EmptyPairs, TablePairs, Zenon
<1>4. UsedBefore(ht', i') = {}
  BY <1>1, DictInvGood DEF UsedBefore, Live, Removed, Slots
<1>5. Pairs(ht', {}) = EmptyBag
  <2>1. {} \subseteq Slots(ht')
    OBVIOUS
  <2> QED BY <2>1, PairsAre, BagOfNone, Zenon
<1>6. CopiedPairs'
  BY <1>1, <1>2, <1>3, <1>4, <1>5, Zenon DEF CopiedPairs
<1>7. [Dict!Next]_(Dict!vars)
  BY <1>1, DictStays, Zenon
<1> QED BY <1>1, <1>6, <1>7, DictInvGood, Zenon DEF DictStep

LEMMA ResizeCopyDict ==
    ASSUME DictInv, ResizeCopy
    PROVE  DictStep
<1>1. /\ pc = "resizing" /\ i \in Slots(ht) /\ i \in Nat /\ new # NoTable /\ IsTable(ht) /\ IsTable(new)
      /\ ht' = ht /\ last' = last
  BY DictInvGood DEF ResizeCopy, IInv, TypeOK, Slots, IsTable
<1>2. /\ new.capacity \in AllCapacities /\ Removed(new) = {} /\ last = NoAnswer
      /\ Entries(new) = Pairs(ht, UsedBefore(ht, i))
  <2>1. /\ new.capacity \in AllCapacities /\ Removed(new) = {} /\ last = NoAnswer
        /\ Pairs(new, Live(new)) = Pairs(ht, UsedBefore(ht, i))
    BY <1>1, Zenon DEF DictInv, CopiedPairs
  <2> QED BY <2>1, TablePairs, Zenon
<1>3. [Dict!Next]_(Dict!vars)
  BY <1>1, DictStays, Zenon
<1>4. ht'.capacity \in AllCapacities
  BY <1>1, DictInvGood
<1>5. CASE i \in Unoccupied(ht)
  <2>1. i' = i + 1 /\ new' = new
    BY <1>5 DEF ResizeCopy
  <2>2. i \notin Live(ht) \cup Removed(ht)
    BY <1>1, <1>5, UsedOrNot
  <2>3. UsedBefore(ht', i') = UsedBefore(ht, i)
    <3>1. \A s \in Live(ht) \cup Removed(ht) : s < i + 1 <=> s < i
      BY <1>1, <2>2 DEF Live, Removed, Slots, IsTable
    <3> QED BY <1>1, <2>1, <3>1 DEF UsedBefore
  <2>4. Pairs(new', Live(new')) = Pairs(ht', UsedBefore(ht', i'))
    BY <1>1, <1>2, <2>1, <2>3, TablePairs, Zenon
  <2>5. CopiedPairs'
    BY <1>1, <1>2, <2>1, <2>4, Zenon DEF CopiedPairs
  <2> QED BY <1>3, <1>4, <2>5, Zenon DEF DictStep
<1>6. CASE i \notin Unoccupied(ht)
  <2> DEFINE k == ht.elements[i].key
             v == ht.elements[i].value
  <2>1. k \in Key /\ v \in Value \cup {Garbage} /\ i \in Live(ht) \cup Removed(ht)
    BY <1>1, <1>6, UsedOrNot
  <2>2. CASE Landing(new, k, AddStops(new)) = {}
    <3>1. pc' = "looping"
      BY <1>6, <2>2 DEF ResizeCopy
    <3>2. CopiedPairs'
      BY <3>1 DEF CopiedPairs
    <3> QED BY <1>3, <1>4, <3>2, Zenon DEF DictStep
  <2>3. CASE Landing(new, k, AddStops(new)) # {}
    <3>1. PICK s \in Landing(new, k, AddStops(new)) : new' = Store(new, s, k, v)
      BY <1>6, <2>3 DEF ResizeCopy
    <3>2. i' = i + 1
      BY <1>6, <2>3 DEF ResizeCopy
    <3> DEFINE U == UsedBefore(ht, i)
               f == PairAt(ht)
    <3>3. s \in AddStops(new)
      BY DEF Landing
    <3>4. f[i] = <<k, v>> /\ U \subseteq Slots(ht) /\ IsFiniteSet(U) /\ i \notin U
      <4>1. f[i] = <<k, v>> /\ Live(ht) \subseteq Slots(ht) /\ Removed(ht) \subseteq Slots(ht)
        BY <1>1, SlotSets
      <4>2. IsFiniteSet(U)
        BY <1>1, PartsFinite
      <4>3. U \subseteq Slots(ht) /\ i \notin U
        BY <1>1, <4>1 DEF UsedBefore
      <4> QED BY <4>1, <4>2, <4>3
    <3>5. UsedBefore(ht', i') = U \cup {i}
      <4>1. \A r \in Live(ht) \cup Removed(ht) : r < i + 1 <=> r < i \/ r = i
        BY <1>1 DEF Live, Removed, Slots, IsTable
      <4> QED BY <1>1, <2>1, <3>2, <4>1 DEF UsedBefore
    <3> HIDE DEF k, v, U, f
    <3>6. /\ Removed(new') = Removed(new) \ {s}
          /\ Entries(new') = Entries(new) (+) SetToBag({<<k, v>>})
      <4>1. PairStored(new, Store(new, s, k, v), s, <<k, v>>)
        BY <1>1, <2>1, <3>3, StorePairs, Zenon
      <4> QED BY <3>1, <4>1, Zenon DEF PairStored
    <3>7. BagOf(f, U \cup {i}) = BagOf(f, U) (+) SetToBag({f[i]})
      BY <3>4, BagOfMore, Zenon
    <3>8. Pairs(ht, U) = BagOf(f, U) /\ Pairs(ht, U \cup {i}) = BagOf(f, U \cup {i})
      <4>1. ASSUME NEW S, S \subseteq Slots(ht) PROVE Pairs(ht, S) = BagOf(f, S)
        BY <4>1, PairsAre, Zenon DEF f
      <4>2. U \cup {i} \subseteq Slots(ht)
        BY <1>1, <3>4
      <4> QED BY <3>4, <4>1, <4>2, Zenon
    <3>9. Entries(new) = BagOf(f, U)
      BY <1>2, <3>8, Zenon DEF U
    <3>10. Entries(new') = Pairs(ht, U \cup {i})
      BY <3>4, <3>6, <3>7, <3>8, <3>9, Zenon
    <3>11. Pairs(new', Live(new')) = Pairs(ht', UsedBefore(ht', i'))
      BY <1>1, <3>5, <3>10, TablePairs, Zenon
    <3>12. Removed(new') = {}
      BY <1>2, <3>6
    <3>13. new'.capacity = new.capacity
      BY <3>1 DEF Store
    <3>14. CopiedPairs'
      BY <1>1, <1>2, <3>11, <3>12, <3>13, Zenon DEF CopiedPairs
    <3> QED BY <1>3, <1>4, <3>14, Zenon DEF DictStep
  <2> QED BY <2>2, <2>3
<1> QED BY <1>5, <1>6

LEMMA ResizeEndDict ==
    ASSUME DictInv, ResizeEnd
    PROVE  DictStep
<1> DEFINE f == PairAt(ht)
           U == UsedBefore(ht, i)
           used == Live(ht) \cup Removed(ht)
           c == new.capacity
<1>1. /\ pc = "resizing" /\ new # NoTable /\ ht' = new /\ pc' # "resizing" /\ i \in Nat
      /\ i = ht.capacity \/ new.count = new.capacity
      /\ Good(ht) /\ IsTable(ht) /\ Good(new) /\ IsTable(new)
      /\ new.count = Cardinality(U) /\ new.count = Cardinality(Live(new))
  <2>1. pc = "resizing" /\ new # NoTable /\ i \in Nat /\ new.count = Cardinality(U)
    BY DictInvGood DEF ResizeEnd, IInv, TypeOK, CopiedSoFar
  <2>2. Good(ht) /\ IsTable(ht) /\ Good(new) /\ IsTable(new)
    BY <2>1, DictInvGood
  <2>3. ht' = new /\ pc' # "resizing" /\ (i = ht.capacity \/ new.count = new.capacity)
    BY DEF ResizeEnd, Return
  <2> QED BY <2>1, <2>2, <2>3 DEF Good, Counted
<1>2. c \in AllCapacities /\ Removed(new) = {} /\ last = NoAnswer /\ Entries(new) = Pairs(ht, U)
  <2>1. c \in AllCapacities /\ Removed(new) = {} /\ last = NoAnswer /\ Pairs(new, Live(new)) = Pairs(ht, U)
    BY <1>1, Zenon DEF DictInv, CopiedPairs
  <2> QED BY <2>1, TablePairs, Zenon
<1>3. last' \in {NoAnswer, [op |-> "resize", key |-> Garbage, result |-> NULL]}
  BY <1>2 DEF ResizeEnd, Return
<1>4. /\ U \subseteq used /\ used \subseteq Slots(ht)
      /\ IsFiniteSet(U) /\ IsFiniteSet(used) /\ Cardinality(used) \in Nat /\ Cardinality(U) <= Cardinality(used)
      /\ i = ht.capacity => U = used
  <2>1. U \subseteq used /\ used \subseteq Slots(ht)
    BY <1>1, SlotSets DEF UsedBefore
  <2>2. IsFiniteSet(U) /\ IsFiniteSet(used)
    BY <1>1, PartsFinite
  <2>3. i = ht.capacity => U = used
    BY <1>1, <2>1 DEF UsedBefore, Slots, IsTable
  <2> HIDE DEF U, used
  <2>4. Cardinality(used) \in Nat /\ Cardinality(U) <= Cardinality(used)
    BY <2>1, <2>2, FS_Subset, FS_CardinalityType
  <2> QED BY <2>1, <2>2, <2>3, <2>4
<1>5. Entries(new) = BagOf(f, U)
  <2>1. U \subseteq Slots(ht)
    BY <1>4
  <2> HIDE DEF U
  <2>2. Pairs(ht, U) = BagOf(f, U)
    BY <2>1, PairsAre, Zenon
  <2> QED BY <1>2, <2>2, Zenon
<1>6. Entries(ht) (+) Gone(ht) = BagOf(f, used)
  <2>1. IsFiniteSet(Live(ht)) /\ IsFiniteSet(Removed(ht)) /\ Live(ht) \cap Removed(ht) = {}
    BY <1>1, SlotSets
  <2> HIDE DEF f
  <2>2. BagOf(f, used) = BagOf(f, Live(ht)) (+) BagOf(f, Removed(ht))
    BY <2>1, BagOfBoth, Zenon
  <2> QED BY <2>2, Zenon DEF Entries, Gone, f
<1>7. Cardinality(Live(new)) <= c /\ c \in Nat
  <2>1. /\ Live(new) \subseteq Slots(new) /\ IsFiniteSet(Slots(new)) /\ Cardinality(Slots(new)) = c
    BY <1>1, SlotSets
  <2>2. Cardinality(Live(new)) <= Cardinality(Slots(new))
    BY <2>1, FS_Subset
  <2> QED BY <1>1, <2>1, <2>2 DEF IsTable
<1> HIDE DEF f, U, used, c
<1>8. Entries(new) \sqsubseteq Entries(ht) (+) Gone(ht)
  BY <1>4, <1>5, <1>6, BagOfPart, Zenon
<1>9. /\ BagCardinality(Entries(new)) = Cardinality(U)
      /\ BagCardinality(Entries(ht) (+) Gone(ht)) = Cardinality(used)
  <2>1. ASSUME NEW S, IsFiniteSet(S) PROVE BagCardinality(BagOf(f, S)) = Cardinality(S)
    BY <2>1, BagOfSize, Zenon
  <2> QED BY <1>4, <1>5, <1>6, <2>1, Zenon
<1>10. Cardinality(U) = IF Cardinality(used) <= c THEN Cardinality(used) ELSE c
  <2>1. Cardinality(U) <= c
    BY <1>1, <1>7
  <2>2. CASE i = ht.capacity
    <3>1. Cardinality(U) = Cardinality(used)
      BY <1>4, <2>2
    <3> QED BY <2>1, <3>1
  <2>3. CASE new.count = new.capacity
    <3>1. Cardinality(U) = c
      BY <1>1, <2>3 DEF c
    <3> QED BY <1>4, <1>7, <3>1
  <2> QED BY <1>1, <2>2, <2>3
<1>11. Gone(new) = EmptyBag
  BY <1>2, BagOfNone, Zenon DEF Gone
<1>12. BagCardinality(Entries(new)) = IF BagCardinality(Entries(ht) (+) Gone(ht)) <= c
                                      THEN BagCardinality(Entries(ht) (+) Gone(ht)) ELSE c
  BY <1>9, <1>10, Zenon
<1>13. ht'.capacity = c
  BY <1>1 DEF c
<1>14. Dict!Next
  BY <1>1, <1>2, <1>3, <1>8, <1>11, <1>12, <1>13, DictResizes, Zenon
<1>15. CopiedPairs'
  BY <1>1 DEF CopiedPairs
<1> QED BY <1>2, <1>13, <1>14, <1>15, Zenon DEF DictStep

LEMMA ForRemoveDict ==
    ASSUME DictInv, ForRemove
    PROVE  DictStep
<1> DEFINE k == ht.elements[i].key
<1>1. /\ i \in Live(ht) /\ IsTable(ht) /\ k \in Key /\ pc' # "resizing" /\ last' = last
      /\ \E s \in Landing(ht, k, RemoveStops(ht, k)) :
            ht' = IF s \in Unoccupied(ht) THEN ht ELSE Erase(ht, s)
  <2>1. i \in Live(ht) /\ IsTable(ht)
    BY ForMeetsLive, DictInvGood DEF ForRemove
  <2>2. k \in Key
    BY <2>1 DEF IsTable, Live, UNOCCUPIED, FIRST_VALID
  <2> QED BY <2>1, <2>2 DEF ForRemove
<1> HIDE DEF k
<1>2. PICK s \in Landing(ht, k, RemoveStops(ht, k)) :
             ht' = IF s \in Unoccupied(ht) THEN ht ELSE Erase(ht, s)
  BY <1>1
<1>3. CASE s \in Unoccupied(ht)
  <2>1. UNCHANGED ht
    BY <1>2, <1>3
  <2> QED BY <1>1, <2>1, QuietDict
<1>4. CASE s \notin Unoccupied(ht)
  <2>1. s \in LiveOf(ht, k) /\ ht' = Erase(ht, s)
    BY <1>2, <1>4, SearchLands
  <2> QED BY <1>1, <2>1, EraseDict
<1> QED BY <1>3, <1>4

LEMMA ReinitDict ==
    ASSUME NEW c \in Capacities, Reinit(c)
    PROVE  DictStep
<1>1. ht' = EmptyTable(c) /\ last' = [op |-> "init", key |-> Garbage, result |-> NULL] /\ pc' = "ready"
  BY DEF Reinit, Return
<1>2. Dict!Next
  BY <1>1, DictEmpties, Zenon
<1>3. ht'.capacity = c
  BY <1>1 DEF EmptyTable
<1>4. ht'.capacity \in AllCapacities /\ CopiedPairs'
  BY <1>1, <1>3 DEF AllCapacities, CopiedPairs
<1> QED BY <1>2, <1>4, Zenon DEF DictStep

\* Every step of the table is a step of the dictionary, or none, and what the refinement
\* rests on stays true.
LEMMA NextDict ==
    ASSUME DictInv, Next
    PROVE  DictStep
<1>1. ASSUME NEW k \in Key, NEW v \in Value, Add(k, v) PROVE DictStep
  BY <1>1, InsertDict DEF Add
<1>2. ASSUME NEW k \in Key, AddEmpty(k) PROVE DictStep
  BY <1>2, AddEmptyDict
<1>3. ASSUME NEW k \in Key, Remove(k) PROVE DictStep
  BY <1>3, RemoveDict
<1>4. ASSUME NEW k \in Key, Get(k) PROVE DictStep
  BY <1>4, GetDict
<1>5. ASSUME NEW c \in Capacities, Resize(c) PROVE DictStep
  <2>1. c \in AllCapacities /\ c \in Nat \ {0}
    BY CapacitiesAssumption DEF AllCapacities
  <2> QED BY <1>5, <2>1, ResizeBeginDict DEF Resize
<1>6. CASE ResizeCopy
  BY <1>6, ResizeCopyDict
<1>7. CASE ResizeEnd
  BY <1>7, ResizeEndDict
<1>8. ASSUME NEW k \in Key, NEW v \in Value, NEW th \in Thresholds, NEW inc \in Increments,
             AddResizeFactor(k, v, th, inc)
      PROVE  DictStep
  <2>1. CASE FillFactor(ht) >= th
    <3> DEFINE c == ht.capacity + inc
    <3>1. ResizeBegin("add_resize_factor", k, v, c) /\ c <= MaxCapacity
      BY <1>8, <2>1 DEF AddResizeFactor
    <3>2. c \in AllCapacities /\ c \in Nat \ {0}
      BY <3>1, CapacitiesAssumption, DictInvGood DEF AllCapacities
    <3> HIDE DEF c
    <3> QED BY <3>1, <3>2, ResizeBeginDict
  <2>2. CASE ~(FillFactor(ht) >= th)
    BY <1>8, <2>2, InsertDict DEF AddResizeFactor
  <2> QED BY <2>1, <2>2
<1>9. CASE AddAfterResize
  <2>1. call.key \in Key /\ call.value \in Value
    BY <1>9, DictInvGood DEF AddAfterResize, IInv, TypeOK
  <2> QED BY <1>9, <2>1, InsertDict DEF AddAfterResize
<1>10. CASE \E op \in {"for", "for_remove"} : ForBegin(op)
  BY <1>10, QuietDict DEF ForBegin
<1>11. CASE ForSkip
  BY <1>11, QuietDict DEF ForSkip
<1>12. CASE ForRead
  BY <1>12, QuietDict DEF ForRead
<1>13. CASE ForRemove
  BY <1>13, ForRemoveDict
<1>14. CASE ForEnd
  <2>1. call.op \in {"for", "for_remove"} /\ UNCHANGED ht /\ pc' # "resizing"
        /\ last' = [op |-> call.op, key |-> Garbage, result |-> NULL]
    BY <1>14, DictInvGood DEF ForEnd, Return, IInv, TypeOK
  <2> QED BY <2>1, QuietDict
<1>15. CASE Deinit
  BY <1>15, QuietDict DEF Deinit
<1>16. ASSUME NEW c \in Capacities, Reinit(c) PROVE DictStep
  BY <1>16, ReinitDict
<1>17. CASE Forget
  BY <1>17, QuietDict DEF Forget
<1>18. CASE Spin
  BY <1>18, QuietDict DEF Spin, vars
<1> QED
  BY <1>1, <1>2, <1>3, <1>4, <1>5, <1>6, <1>7, <1>8, <1>9, <1>10, <1>11, <1>12, <1>13, <1>14,
     <1>15, <1>16, <1>17, <1>18 DEF Next

LEMMA IdleDict ==
    ASSUME DictInv, UNCHANGED vars
    PROVE  DictInv' /\ [Dict!Next]_(Dict!vars)
<1>1. UNCHANGED <<ht, new, i, pc, last>>
  BY DEF vars
<1>2. IInv'
  BY NextIInv DEF DictInv
<1>3. [Dict!Next]_(Dict!vars)
  BY <1>1, DictStays, Zenon
<1>4. CopiedPairs' /\ ht'.capacity \in AllCapacities
  BY <1>1, Zenon DEF CopiedPairs, DictInv
<1> QED BY <1>2, <1>3, <1>4 DEF DictInv

LEMMA DictInit ==
    ASSUME Init
    PROVE  DictInv /\ Dict!Init
<1>1. PICK c \in Capacities : ht = EmptyTable(c)
  BY DEF Init
<1>2. c \in Nat \ {0} /\ c \in AllCapacities
  BY CapacitiesAssumption DEF AllCapacities
<1>3. ht.capacity = c
  BY <1>1 DEF EmptyTable
<1>4. Pairs(ht, Live(ht)) = EmptyBag /\ Pairs(ht, Removed(ht)) = EmptyBag
  BY <1>1, <1>2, EmptyPairs, TablePairs, Zenon
<1>5. last = NoAnswer /\ CopiedPairs /\ IInv
  BY InitIInv DEF Init, CopiedPairs
<1>6. Dict!Init
  BY <1>2, <1>3, <1>4, <1>5, SameBags, Zenon DEF Dict!Init
<1> QED BY <1>2, <1>3, <1>5, <1>6 DEF DictInv

LEMMA DictNext ==
    ASSUME DictInv, [Next]_vars
    PROVE  DictInv' /\ [Dict!Next]_(Dict!vars)
<1>1. CASE Next
  <2>1. DictStep
    BY <1>1, NextDict
  <2>2. IInv'
    BY NextIInv DEF DictInv
  <2> QED BY <2>1, <2>2, Zenon DEF DictStep, DictInv
<1>2. CASE UNCHANGED vars
  BY <1>2, IdleDict
<1> QED BY <1>1, <1>2

\* Whatever the layout of the slots and the history of collisions, removals, resizes and
\* iterations, every call does to the pairs, and answers, what Dictionary says.
THEOREM TableIsDictionary == Spec => ImplementsDictionary
<1>1. Init => DictInv /\ Dict!Init
  BY DictInit
<1>2. DictInv /\ [Next]_vars => DictInv' /\ [Dict!Next]_(Dict!vars)
  BY DictNext
<1> QED BY <1>1, <1>2, PTL DEF Spec, ImplementsDictionary, Dict!Spec

\* The same of the table whose walks are taken apart: seen from outside, a walk that has not
\* ended has done nothing.
THEOREM LoopIsDictionary == WalkSpec => ImplementsDictionary
<1>1. WalkInit => DictInv /\ Dict!Init
  BY DictInit DEF WalkInit
<1>2. DictInv /\ [Next]_vars => DictInv' /\ [Dict!Next]_(Dict!vars)
  BY DictNext
<1>3. WalkInv /\ [WalkNext]_walkVars => [Next]_vars
  BY WalkStepIsNext
<1> QED
  BY <1>1, <1>2, <1>3, WalkInvariance, PTL DEF WalkSpec, ImplementsDictionary, Dict!Spec
====
