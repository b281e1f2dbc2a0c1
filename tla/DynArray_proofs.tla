---- MODULE DynArray_proofs ----
(***************************************************************************)
(* DynArray keeps its elements inside the block and implements List, for   *)
(* every capacity, increment and number of elements.                       *)
(***************************************************************************)
EXTENDS DynArray, SequenceTheorems, NaturalsInduction, WellFoundedInduction, TLAPS

\* An array whose elements are inside its block.
Fits(a) == IsArray(a) /\ a.count <= a.capacity

\* What init makes fits.
LEMMA EmptyFits ==
    \A c, inc \in Nat : Fits(EmptyArray(c, inc))
BY DEF Fits, IsArray, EmptyArray, Item

\* Resizing keeps the elements that fit in the new block.
LEMMA ResizedFits ==
    ASSUME NEW a, Fits(a), NEW c \in Nat
    PROVE  /\ Fits(Resized(a, c))
           /\ Resized(a, c).count = IF a.count > c THEN c ELSE a.count
           /\ Resized(a, c).capacity = c
           /\ Resized(a, c).increment = a.increment
           /\ \A n \in 0 .. Resized(a, c).count - 1 : Resized(a, c).data[n] = a.data[n]
<1>1. \A n \in 0 .. c - 1 : n < a.capacity => a.data[n] \in Item
  BY DEF Fits, IsArray
<1>2. Unwritten \in Item
  BY DEF Item
<1>3. [n \in 0 .. c - 1 |-> IF n < a.capacity THEN a.data[n] ELSE Unwritten]
          \in [0 .. c - 1 -> Item]
  BY <1>1, <1>2
<1> QED BY <1>3 DEF Fits, IsArray, Resized

\* Growing keeps the elements.
LEMMA GrownFits ==
    ASSUME NEW a, Fits(a)
    PROVE  /\ Fits(Grown(a))
           /\ Grown(a).count = a.count
           /\ Grown(a).increment = a.increment
           /\ a.increment > 0 => Grown(a).count < Grown(a).capacity
           /\ a.count < a.capacity => Grown(a) = a
           /\ \A n \in 0 .. a.count - 1 : Grown(a).data[n] = a.data[n]
<1>1. a.count \in Nat /\ a.capacity \in Nat /\ a.increment \in Nat /\ a.count <= a.capacity
  BY DEF Fits, IsArray
<1>2. CASE a.count = a.capacity
  <2>1. a.capacity + a.increment \in Nat
    BY <1>1
  <2>2. Grown(a) = Resized(a, a.capacity + a.increment)
    BY <1>2 DEF Grown
  <2>3. /\ Fits(Resized(a, a.capacity + a.increment))
        /\ Resized(a, a.capacity + a.increment).count = IF a.count > a.capacity + a.increment THEN a.capacity + a.increment ELSE a.count
        /\ Resized(a, a.capacity + a.increment).capacity = a.capacity + a.increment
        /\ Resized(a, a.capacity + a.increment).increment = a.increment
        /\ \A n \in 0 .. Resized(a, a.capacity + a.increment).count - 1 : Resized(a, a.capacity + a.increment).data[n] = a.data[n]
    BY <2>1, ResizedFits
  <2> QED BY <1>1, <1>2, <2>1, <2>2, <2>3
<1>3. CASE a.count # a.capacity
  BY <1>1, <1>3 DEF Grown
<1> QED BY <1>2, <1>3

\* Growing for n elements keeps the elements and makes room for the n.
LEMMA GrownManyFits ==
    ASSUME NEW a, Fits(a), NEW n \in Nat
    PROVE  /\ Fits(GrownMany(a, n))
           /\ GrownMany(a, n).count = a.count
           /\ GrownMany(a, n).increment = a.increment
           /\ a.count + n <= GrownMany(a, n).capacity
           /\ \A x \in 0 .. a.count - 1 : GrownMany(a, n).data[x] = a.data[x]
<1>1. a.count \in Nat /\ a.capacity \in Nat /\ a.increment \in Nat /\ a.count <= a.capacity
  BY DEF Fits, IsArray
<1> DEFINE more == IF n > a.increment THEN n ELSE a.increment
<1>2. more \in Nat /\ more >= n
  BY <1>1
<1>3. CASE a.count + n >= a.capacity
  <2>1. a.capacity + more \in Nat
    BY <1>1, <1>2
  <2>2. GrownMany(a, n) = Resized(a, a.capacity + more)
    BY <1>3 DEF GrownMany
  <2> HIDE DEF more
  <2>3. /\ Fits(Resized(a, a.capacity + more))
        /\ Resized(a, a.capacity + more).count = IF a.count > a.capacity + more THEN a.capacity + more ELSE a.count
        /\ Resized(a, a.capacity + more).capacity = a.capacity + more
        /\ Resized(a, a.capacity + more).increment = a.increment
        /\ \A x \in 0 .. Resized(a, a.capacity + more).count - 1 : Resized(a, a.capacity + more).data[x] = a.data[x]
    BY <2>1, ResizedFits
  <2> QED BY <1>1, <1>2, <2>1, <2>2, <2>3
<1>4. CASE ~(a.count + n >= a.capacity)
  BY <1>1, <1>4 DEF GrownMany
<1> QED BY <1>3, <1>4

\* Appending keeps the elements.
LEMMA AppendedFits ==
    ASSUME NEW a, Fits(a), NEW n \in Nat, a.count + n <= a.capacity,
           NEW vals, \A x \in 1 .. n : vals[x] \in Item
    PROVE  /\ Fits(Appended(a, vals, n))
           /\ Appended(a, vals, n).count = a.count + n
           /\ Appended(a, vals, n).increment = a.increment
           /\ \A x \in 0 .. a.count - 1 : Appended(a, vals, n).data[x] = a.data[x]
           /\ \A x \in 1 .. n : Appended(a, vals, n).data[a.count + x - 1] = vals[x]
<1>1. a.count \in Nat /\ a.capacity \in Nat /\ a.count <= a.capacity
  BY DEF Fits, IsArray
<1>2. \A x \in 0 .. a.capacity - 1 : a.data[x] \in Item
  BY DEF Fits, IsArray
<1> DEFINE D == [x \in 0 .. a.capacity - 1 |->
                   IF a.count <= x /\ x < a.count + n THEN vals[x - a.count + 1] ELSE a.data[x]]
<1>3. ASSUME NEW x \in 0 .. a.capacity - 1, a.count <= x, x < a.count + n
      PROVE  vals[x - a.count + 1] \in Item
  <2>1. x - a.count + 1 \in 1 .. n
    BY <1>1, <1>3
  <2> QED BY <2>1
<1>4. D \in [0 .. a.capacity - 1 -> Item]
  BY <1>2, <1>3
<1>5. \A x \in 0 .. a.count - 1 : D[x] = a.data[x]
  BY <1>1
<1>6. ASSUME NEW x \in 1 .. n
      PROVE  D[a.count + x - 1] = vals[x]
  <2>1. a.count + x - 1 \in 0 .. a.capacity - 1 /\ (a.count + x - 1) - a.count + 1 = x
    BY <1>1
  <2> QED BY <2>1, <1>1
<1>7. Appended(a, vals, n).data = D
  BY DEF Appended
<1> HIDE DEF D
<1> QED BY <1>1, <1>4, <1>5, <1>6, <1>7 DEF Fits, IsArray, Appended

\* Removing takes one element away.
LEMMA RemovedAtFits ==
    ASSUME NEW a, Fits(a), NEW index \in 0 .. a.count - 1, NEW from \in CopiesOf(a, index)
    PROVE  /\ Fits(RemovedAt(a, index, from))
           /\ RemovedAt(a, index, from).count = a.count - 1
           /\ RemovedAt(a, index, from).increment = a.increment
           /\ RemovedAt(a, index, from).capacity = a.capacity
<1>1. a.count \in Nat /\ a.capacity \in Nat /\ a.count <= a.capacity
  BY DEF Fits, IsArray
<1>2. \A x \in 0 .. a.capacity - 1 : a.data[x] \in Item
  BY DEF Fits, IsArray
<1>3. ASSUME NEW x \in 0 .. a.capacity - 1, index <= x, x < a.count - 1
      PROVE  a.data[from[x]] \in Item
  <2>1. x \in index .. a.count - 2
    BY <1>1, <1>3
  <2>2. from[x] \in index + 1 .. a.count - 1
    BY <2>1 DEF CopiesOf
  <2>3. from[x] \in 0 .. a.capacity - 1
    BY <1>1, <2>2
  <2> QED BY <1>2, <2>3
<1>4. RemovedAt(a, index, from).data \in [0 .. a.capacity - 1 -> Item]
  BY <1>2, <1>3 DEF RemovedAt
<1>5. a.count - 1 \in Nat
  BY <1>1
<1> QED BY <1>1, <1>4, <1>5 DEF Fits, IsArray, RemovedAt

----------------------------------------------------------------------------
\* The inductive invariant.
IInv == TypeOK /\ CountFits

\* The invariant of a state in which the array fits and nothing was written past its block.
LEMMA FitsIInv ==
    ASSUME Fits(arr'), pc' \in {"ready", "for", "freed"}, i' \in Nat,
           body' \in {"read", "remove", "add"}, pc' # "for" => i' = 0
    PROVE  IInv'
BY DEF IInv, TypeOK, CountFits, Fits

\* The many elements of an add_back_many.
LEMMA ManyElements ==
    ASSUME NEW vals \in Many
    PROVE  /\ Len(vals) \in Nat
           /\ vals \in Seq(Item)
           /\ \A x \in 1 .. Len(vals) : vals[x] \in Item
<1>1. PICK n \in 0 .. MaxMany : vals \in [1 .. n -> Elem]
  BY DEF Many
<1>2. n \in Nat
  BY DynArrayAssumption
<1>3. Len(vals) = n
  BY <1>1, <1>2
<1>4. vals \in Seq(Elem)
  BY <1>1, <1>2
<1>5. \A x \in 1 .. n : vals[x] \in Item
  BY <1>1 DEF Item
<1> QED BY <1>2, <1>3, <1>4, <1>5, ElementOfSeq DEF Item

\* Writing one element behind the last: the array grows if it has to, and if it cannot the
\* elements are as they were.
LEMMA PutEffect ==
    ASSUME IInv, NEW v \in Item, NEW this, Put(Grown(arr), v, this)
    PROVE  /\ Fits(arr')
           /\ \/ /\ pc' = pc /\ call' = this
                 /\ arr'.count = arr.count + 1 /\ arr'.data[arr.count] = v
              \/ /\ pc' = "overrun" /\ call' = call
                 /\ arr'.count = arr.count /\ arr'.increment = 0 /\ arr'.count = arr'.capacity
           /\ \A n \in 0 .. arr.count - 1 : arr'.data[n] = arr.data[n]
<1> DEFINE g == Grown(arr)
<1>1. Fits(arr)
  BY DEF IInv, TypeOK, CountFits, Fits
<1>2. /\ Fits(g)
      /\ g.count = arr.count
      /\ g.increment = arr.increment
      /\ arr.increment > 0 => g.count < g.capacity
      /\ \A n \in 0 .. arr.count - 1 : g.data[n] = arr.data[n]
  BY <1>1, GrownFits
<1>3. g.count \in Nat /\ g.capacity \in Nat /\ g.count <= g.capacity /\ arr.increment \in Nat
  BY <1>1, <1>2 DEF Fits, IsArray
<1>4. Put(g, v, this)
  OBVIOUS
<1> HIDE DEF g
<1>5. CASE g.count < g.capacity
  <2>1. arr' = Appended(g, <<v>>, 1) /\ pc' = pc /\ call' = this
    BY <1>4, <1>5 DEF Put
  <2>2. g.count + 1 <= g.capacity /\ \A x \in 1 .. 1 : <<v>>[x] \in Item
    BY <1>3, <1>5
  <2>3. /\ Fits(Appended(g, <<v>>, 1))
        /\ Appended(g, <<v>>, 1).count = g.count + 1
        /\ \A x \in 0 .. g.count - 1 : Appended(g, <<v>>, 1).data[x] = g.data[x]
        /\ \A x \in 1 .. 1 : Appended(g, <<v>>, 1).data[g.count + x - 1] = <<v>>[x]
    BY <1>2, <2>2, AppendedFits
  <2>4. Appended(g, <<v>>, 1).data[g.count + 1 - 1] = v
    BY <2>3
  <2>5. g.count + 1 - 1 = g.count
    BY <1>3
  <2> QED BY <1>2, <2>1, <2>3, <2>4, <2>5
<1>6. CASE ~(g.count < g.capacity)
  <2>1. arr' = g /\ pc' = "overrun" /\ call' = call
    BY <1>4, <1>6 DEF Put
  <2>2. arr.increment = 0 /\ g.count = g.capacity
    BY <1>2, <1>3, <1>6
  <2>3. arr'.count = arr.count /\ arr'.increment = 0 /\ arr'.count = arr'.capacity
    BY <1>2, <2>1, <2>2
  <2>4. Fits(arr') /\ \A n \in 0 .. arr.count - 1 : arr'.data[n] = arr.data[n]
    BY <1>2, <2>1
  <2> QED BY <2>1, <2>3, <2>4
<1> QED BY <1>5, <1>6

\* So writing one element keeps the invariant.
LEMMA PutIInv ==
    ASSUME IInv, pc \in {"ready", "for"}, NEW v \in Item, NEW this, Put(Grown(arr), v, this),
           i' \in Nat, pc' = "ready" => i' = 0, UNCHANGED body
    PROVE  IInv'
<1>1. body' \in {"read", "remove", "add"}
  BY DEF IInv, TypeOK
<1>2. /\ Fits(arr')
      /\ \/ pc' = pc
         \/ pc' = "overrun" /\ arr'.increment = 0 /\ arr'.count = arr'.capacity
  BY PutEffect
<1>3. CASE pc' = pc
  <2>1. pc' \in {"ready", "for", "freed"} /\ (pc' # "for" => i' = 0)
    BY <1>3
  <2> QED BY <1>1, <1>2, <2>1, FitsIInv
<1>4. CASE pc' = "overrun" /\ arr'.increment = 0 /\ arr'.count = arr'.capacity
  <2>1. IsArray(arr') /\ arr'.count <= arr'.capacity
    BY <1>2 DEF Fits
  <2>2. TypeOK'
    BY <1>1, <1>4, <2>1 DEF TypeOK
  <2>3. CountFits'
    BY <1>4, <2>1 DEF CountFits
  <2> QED BY <2>2, <2>3 DEF IInv
<1> QED BY <1>2, <1>3, <1>4

\* A fresh array satisfies the invariant.
THEOREM InitIInv == Init => IInv
<1> SUFFICES ASSUME Init PROVE IInv
  OBVIOUS
<1>1. Fits(arr)
  BY EmptyFits, DynArrayAssumption DEF Init
<1> QED BY <1>1 DEF Init, IInv, TypeOK, CountFits, Fits

\* Every step keeps the invariant.
THEOREM NextIInv == IInv /\ [Next]_vars => IInv'
<1> SUFFICES ASSUME IInv, [Next]_vars PROVE IInv'
  OBVIOUS
<1>0. /\ Fits(arr)
      /\ i \in Nat
      /\ body \in {"read", "remove", "add"}
      /\ pc \in {"ready", "freed"} => i = 0
      /\ arr.count \in Nat /\ arr.capacity \in Nat /\ arr.count <= arr.capacity
  BY DEF IInv, TypeOK, CountFits, Fits, IsArray
<1>1. ASSUME NEW v \in Elem, AddBack(v) PROVE IInv'
  <2>1. v \in Item
    BY DEF Item
  <2> QED BY <1>0, <1>1, <2>1, PutIInv DEF AddBack
<1>2. ASSUME AddBackEmpty PROVE IInv'
  <2> DEFINE g == Grown(arr)
             v == IF g.count < g.capacity THEN g.data[g.count] ELSE Unwritten
  <2>1. v \in Item
    <3>1. Fits(g)
      BY <1>0, GrownFits
    <3> QED BY <3>1 DEF Fits, IsArray, Item
  <2>2. Put(Grown(arr), v, <<"add_back_empty">>) /\ pc = "ready" /\ i' = i /\ body' = body
    BY <1>2 DEF AddBackEmpty
  <2> HIDE DEF g, v
  <2> QED BY <1>0, <2>1, <2>2, PutIInv
<1>3. ASSUME NEW index \in 0 .. arr.count - 1, AddBackOwn(index) PROVE IInv'
  <2>1. arr.data[index] \in Item
    <3>1. index \in 0 .. arr.capacity - 1
      BY <1>0
    <3> QED BY <1>0, <3>1 DEF Fits, IsArray
  <2>2. PICK v \in Item : Put(Grown(arr), v, <<"add_back_own", index, arr.count < arr.capacity>>)
    BY <1>3, <2>1 DEF AddBackOwn
  <2> QED BY <1>0, <1>3, <2>2, PutIInv DEF AddBackOwn
<1>4. ASSUME NEW vals \in Many, AddBackMany(vals) PROVE IInv'
  <2> DEFINE n == Len(vals)
             g == GrownMany(arr, n)
  <2>1. n \in Nat /\ \A x \in 1 .. n : vals[x] \in Item
    BY ManyElements
  <2>2. Fits(g) /\ g.count = arr.count /\ arr.count + n <= g.capacity
    BY <1>0, <2>1, GrownManyFits
  <2>3. arr' = Appended(g, vals, n) /\ pc' = pc /\ pc = "ready" /\ i' = i /\ body' = body
    BY <1>4, <2>2 DEF AddBackMany
  <2> HIDE DEF n, g
  <2>4. Fits(Appended(g, vals, n))
    BY <2>1, <2>2, AppendedFits
  <2> QED BY <1>0, <2>3, <2>4, FitsIInv
<1>5. ASSUME NEW index \in 0 .. arr.count - 1, NEW v \in Elem, WriteAt(index, v) PROVE IInv'
  <2>1. Fits([arr EXCEPT !.data[index] = v])
    BY <1>0 DEF Fits, IsArray, Item
  <2> QED BY <1>0, <1>5, <2>1, FitsIInv DEF WriteAt
<1>6. ASSUME RemoveBack PROVE IInv'
  <2>1. arr.count > 0
    BY <1>6 DEF RemoveBack
  <2>2. Fits([arr EXCEPT !.count = arr.count - 1])
    BY <1>0, <2>1 DEF Fits, IsArray
  <2> QED BY <1>0, <1>6, <2>2, FitsIInv DEF RemoveBack
<1>7. ASSUME NEW index \in 0 .. arr.count - 1, RemoveAt(index) PROVE IInv'
  <2>1. PICK from \in CopiesOf(arr, index) : arr' = RemovedAt(arr, index, from)
    BY <1>7 DEF RemoveAt
  <2>2. Fits(arr')
    BY <1>0, <2>1, RemovedAtFits
  <2> QED BY <1>0, <1>7, <2>2, FitsIInv DEF RemoveAt
<1>8. ASSUME NEW v \in Elem, SetAll(v) PROVE IInv'
  <2>1. Fits(Filled(arr, v))
    BY <1>0 DEF Fits, IsArray, Item, Filled
  <2> QED BY <1>0, <1>8, <2>1, FitsIInv DEF SetAll
<1>9. ASSUME Clear PROVE IInv'
  <2>1. Fits([arr EXCEPT !.count = 0])
    BY <1>0 DEF Fits, IsArray
  <2> QED BY <1>0, <1>9, <2>1, FitsIInv DEF Clear
<1>10. ASSUME NEW c \in Capacities, Resize(c) PROVE IInv'
  <2>1. Fits(Resized(arr, c))
    BY <1>0, DynArrayAssumption, ResizedFits
  <2> QED BY <1>0, <1>10, <2>1, FitsIInv DEF Resize
<1>11. ASSUME Deinit PROVE IInv'
  BY <1>0, <1>11, FitsIInv DEF Deinit
<1>12. ASSUME NEW b \in {"read", "remove", "add"}, ForBegin(b) PROVE IInv'
  BY <1>0, <1>12, FitsIInv DEF ForBegin
<1>13. ASSUME ForRead PROVE IInv'
  BY <1>0, <1>13, FitsIInv DEF ForRead
<1>14. ASSUME ForRemoveAt PROVE IInv'
  <2>1. i \in 0 .. arr.count - 1
    BY <1>0, <1>14 DEF ForRemoveAt
  <2>2. PICK from \in CopiesOf(arr, i) : arr' = RemovedAt(arr, i, from)
    BY <1>14 DEF ForRemoveAt
  <2>3. Fits(arr')
    BY <1>0, <2>1, <2>2, RemovedAtFits
  <2> QED BY <1>0, <1>14, <2>3, FitsIInv DEF ForRemoveAt
<1>15. ASSUME NEW v \in Elem, ForAddBack(v) PROVE IInv'
  <2>1. v \in Item
    BY DEF Item
  <2>2. /\ pc = "for" /\ Put(Grown(arr), v, <<"for_add_back", arr.data[i], v>>)
        /\ i' \in Nat /\ body' = body
    BY <1>0, <1>15 DEF ForAddBack
  <2>3. pc' # "ready"
    BY <2>2 DEF Put
  <2> QED BY <2>1, <2>2, <2>3, PutIInv
<1>16. ASSUME ForEnd PROVE IInv'
  BY <1>0, <1>16, FitsIInv DEF ForEnd
<1>17. ASSUME UNCHANGED vars PROVE IInv'
  BY <1>17 DEF vars, IInv, TypeOK, CountFits
<1> QED
  BY <1>1, <1>2, <1>3, <1>4, <1>5, <1>6, <1>7, <1>8, <1>9, <1>10, <1>11, <1>12, <1>13,
     <1>14, <1>15, <1>16, <1>17 DEF Next, ForStep

\* The invariant holds in every reachable state.
THEOREM Invariance == Spec => []IInv
BY InitIInv, NextIInv, PTL DEF Spec

\* The variables always have their types.
THEOREM TypeCorrect == Spec => []TypeOK
<1>1. IInv => TypeOK
  BY DEF IInv
<1> QED BY <1>1, Invariance, PTL

\* The elements are always inside the block, and an add_back writes past it only in an array
\* that is full and whose increment is 0.
THEOREM ElementsInside == Spec => []CountFits
<1>1. IInv => CountFits
  BY DEF IInv
<1> QED BY <1>1, Invariance, PTL

----------------------------------------------------------------------------
\* The contents of an array are a sequence.
LEMMA ContentsSeq ==
    ASSUME NEW a, Fits(a)
    PROVE  /\ ContentsOf(a) \in Seq(Item)
           /\ Len(ContentsOf(a)) = a.count
           /\ \A n \in 1 .. a.count : ContentsOf(a)[n] = a.data[n - 1]
<1>1. a.count \in Nat /\ a.capacity \in Nat /\ a.count <= a.capacity
  BY DEF Fits, IsArray
<1>2. ASSUME NEW n \in 1 .. a.count PROVE a.data[n - 1] \in Item
  <2>1. n - 1 \in 0 .. a.capacity - 1
    BY <1>1
  <2> QED BY <2>1 DEF Fits, IsArray
<1>3. ContentsOf(a) \in [1 .. a.count -> Item]
  BY <1>2 DEF ContentsOf
<1>4. ContentsOf(a) \in Seq(Item)
  BY <1>1, <1>3
<1>5. Len(ContentsOf(a)) \in Nat /\ DOMAIN ContentsOf(a) = 1 .. Len(ContentsOf(a))
  BY <1>4, LenProperties
<1>6. Len(ContentsOf(a)) = a.count
  BY <1>1, <1>3, <1>5
<1>7. \A n \in 1 .. a.count : ContentsOf(a)[n] = a.data[n - 1]
  BY DEF ContentsOf
<1> QED BY <1>4, <1>6, <1>7

\* Two arrays with the same elements have the same contents.
LEMMA SameContents ==
    ASSUME NEW a, NEW b, Fits(a), a.count = b.count, \A n \in 0 .. a.count - 1 : a.data[n] = b.data[n]
    PROVE  ContentsOf(a) = ContentsOf(b)
<1>1. a.count \in Nat
  BY DEF Fits, IsArray
<1>2. \A n \in 1 .. a.count : a.data[n - 1] = b.data[n - 1]
  BY <1>1
<1> QED BY <1>2 DEF ContentsOf

\* Elements behind the last are appended to the contents, all of them in their order.
LEMMA ManyContents ==
    ASSUME NEW a, NEW b, Fits(a), Fits(b), NEW vals \in Seq(Item), b.count = a.count + Len(vals),
           \A n \in 0 .. a.count - 1 : b.data[n] = a.data[n],
           \A n \in 1 .. Len(vals) : b.data[a.count + n - 1] = vals[n]
    PROVE  ContentsOf(b) = ContentsOf(a) \o vals
<1> DEFINE s == ContentsOf(a)
<1>1. a.count \in Nat /\ Len(vals) \in Nat
  BY LenProperties DEF Fits, IsArray
<1>2. /\ s \in Seq(Item)
      /\ Len(s) = a.count
      /\ \A n \in 1 .. a.count : s[n] = a.data[n - 1]
  BY ContentsSeq
<1>3. /\ ContentsOf(b) \in Seq(Item)
      /\ Len(ContentsOf(b)) = a.count + Len(vals)
      /\ \A n \in 1 .. a.count + Len(vals) : ContentsOf(b)[n] = b.data[n - 1]
  BY ContentsSeq
<1> HIDE DEF s
<1>4. /\ s \o vals \in Seq(Item)
      /\ Len(s \o vals) = a.count + Len(vals)
      /\ \A n \in 1 .. a.count + Len(vals) :
            (s \o vals)[n] = IF n <= a.count THEN s[n] ELSE vals[n - a.count]
  <2>1. /\ s \o vals \in Seq(Item)
        /\ Len(s \o vals) = Len(s) + Len(vals)
        /\ \A n \in 1 .. Len(s) + Len(vals) :
              (s \o vals)[n] = IF n <= Len(s) THEN s[n] ELSE vals[n - Len(s)]
    BY <1>2, ConcatProperties
  <2> QED BY <1>2, <2>1
<1>5. ASSUME NEW n \in 1 .. a.count + Len(vals) PROVE ContentsOf(b)[n] = (s \o vals)[n]
  <2>1. CASE n <= a.count
    <3>1. n \in 1 .. a.count /\ n - 1 \in 0 .. a.count - 1
      BY <1>1, <2>1
    <3> QED BY <1>2, <1>3, <1>4, <2>1, <3>1
  <2>2. CASE ~(n <= a.count)
    <3>1. n - a.count \in 1 .. Len(vals) /\ a.count + (n - a.count) - 1 = n - 1
      BY <1>1, <2>2
    <3>2. b.data[n - 1] = vals[n - a.count]
      BY <3>1
    <3> QED BY <1>3, <1>4, <2>2, <3>2
  <2> QED BY <2>1, <2>2
<1>6. ContentsOf(b) = s \o vals
  BY <1>3, <1>4, <1>5, SeqEqual
<1> QED BY <1>6 DEF s

\* One element behind the last is appended to the contents.
LEMMA AppendedContents ==
    ASSUME NEW a, NEW b, Fits(a), Fits(b), b.count = a.count + 1,
           \A n \in 0 .. a.count - 1 : b.data[n] = a.data[n]
    PROVE  ContentsOf(b) = Append(ContentsOf(a), b.data[a.count])
<1> DEFINE s == ContentsOf(a)
           v == b.data[a.count]
<1>1. a.count \in Nat /\ b.capacity \in Nat /\ b.count <= b.capacity
  BY DEF Fits, IsArray
<1>2. v \in Item
  <2>1. a.count \in 0 .. b.capacity - 1
    BY <1>1
  <2> QED BY <2>1 DEF Fits, IsArray
<1>3. /\ s \in Seq(Item)
      /\ Len(s) = a.count
      /\ \A n \in 1 .. a.count : s[n] = a.data[n - 1]
  BY ContentsSeq
<1>4. /\ ContentsOf(b) \in Seq(Item)
      /\ Len(ContentsOf(b)) = a.count + 1
      /\ \A n \in 1 .. a.count + 1 : ContentsOf(b)[n] = b.data[n - 1]
  BY ContentsSeq
<1> HIDE DEF s, v
<1>5. /\ Append(s, v) \in Seq(Item)
      /\ Len(Append(s, v)) = a.count + 1
      /\ \A n \in 1 .. a.count : Append(s, v)[n] = s[n]
      /\ Append(s, v)[a.count + 1] = v
  BY <1>2, <1>3, AppendProperties
<1>6. ASSUME NEW n \in 1 .. a.count + 1 PROVE ContentsOf(b)[n] = Append(s, v)[n]
  <2>1. CASE n = a.count + 1
    <3>1. ContentsOf(b)[n] = b.data[a.count]
      <4>1. n - 1 = a.count
        BY <1>1, <2>1
      <4> QED BY <1>4, <4>1
    <3> QED BY <1>5, <2>1, <3>1 DEF v
  <2>2. CASE n # a.count + 1
    <3>1. n \in 1 .. a.count /\ n - 1 \in 0 .. a.count - 1
      BY <1>1, <2>2
    <3> QED BY <1>3, <1>4, <1>5, <3>1
  <2> QED BY <2>1, <2>2
<1>7. ContentsOf(b) = Append(s, v)
  BY <1>4, <1>5, <1>6, SeqEqual
<1> QED BY <1>7 DEF s, v

\* A smaller count cuts the contents.
LEMMA CutContents ==
    ASSUME NEW a, NEW b, Fits(a), Fits(b), b.count <= a.count,
           \A n \in 0 .. b.count - 1 : b.data[n] = a.data[n]
    PROVE  ContentsOf(b) = SubSeq(ContentsOf(a), 1, b.count)
<1> DEFINE s == ContentsOf(a)
<1>1. a.count \in Nat /\ b.count \in Nat
  BY DEF Fits, IsArray
<1>2. /\ s \in Seq(Item)
      /\ Len(s) = a.count
      /\ \A n \in 1 .. a.count : s[n] = a.data[n - 1]
  BY ContentsSeq
<1>3. /\ ContentsOf(b) \in Seq(Item)
      /\ Len(ContentsOf(b)) = b.count
      /\ \A n \in 1 .. b.count : ContentsOf(b)[n] = b.data[n - 1]
  BY ContentsSeq
<1> HIDE DEF s
<1>4. \A n \in 1 .. b.count : s[n] \in Item
  BY <1>1, <1>2
<1>5. /\ SubSeq(s, 1, b.count) \in Seq(Item)
      /\ Len(SubSeq(s, 1, b.count)) = b.count
      /\ \A n \in 1 .. b.count : SubSeq(s, 1, b.count)[n] = s[n]
  BY <1>1, <1>4, SubSeqProperties
<1>6. ASSUME NEW n \in 1 .. b.count PROVE ContentsOf(b)[n] = SubSeq(s, 1, b.count)[n]
  <2>1. n - 1 \in 0 .. b.count - 1 /\ n \in 1 .. a.count
    BY <1>1
  <2> QED BY <1>2, <1>3, <1>5, <2>1
<1>7. ContentsOf(b) = SubSeq(s, 1, b.count)
  BY <1>3, <1>5, <1>6, SeqEqual
<1> QED BY <1>7 DEF s

\* A set of numbers that has a member has a least one.
LEMMA LeastElement ==
    ASSUME NEW S, S \subseteq Nat, S # {}
    PROVE  \E x \in S : \A y \in S : x <= y
<1> DEFINE Below == {ss \in Nat \X Nat : ss[1] < ss[2]}
<1>1. IsWellFoundedOn(Below, Nat)
  BY NatLessThanWellFounded DEF OpToRel
<1> HIDE DEF Below
<1>2. PICK x \in S : \A y \in S : ~(<<y, x>> \in Below)
  BY <1>1, WFMin
<1>3. ASSUME NEW y \in S
      PROVE  x <= y
  <2>1. x \in Nat /\ y \in Nat
    OBVIOUS
  <2>2. y < x => <<y, x>> \in Below
    BY <2>1 DEF Below
  <2> QED BY <1>2, <2>1, <2>2
<1> QED BY <1>3

\* What comes to a place was behind it: the last place it were otherwise for would have got what
\* came to the next.
LEMMA CopiedFromBehind ==
    ASSUME NEW a, Fits(a), NEW index \in 0 .. a.count - 1, NEW from \in CopiesOf(a, index)
    PROVE  \A x \in index .. a.count - 2 : from[x] \in x + 1 .. a.count - 1
<1> DEFINE moved == index .. a.count - 2
           S == {x \in moved : ~(from[x] > x)}
           T == {a.count - x : x \in S}
<1>1. a.count \in Nat
  BY DEF Fits, IsArray
<1>2. /\ from \in [moved -> index + 1 .. a.count - 1]
      /\ \A x \in moved : from[x] = x + 1 \/ (x + 1 \in moved /\ from[x] = from[x + 1])
  BY DEF CopiesOf
<1>3. S = {}
  <2> SUFFICES ASSUME S # {} PROVE FALSE
    OBVIOUS
  <2>1. T \subseteq Nat /\ T # {}
    BY <1>1
  <2> HIDE DEF T
  <2>2. PICK t \in T : \A u \in T : t <= u
    BY <2>1, LeastElement
  <2>3. PICK x \in S : t = a.count - x
    BY <2>2 DEF T
  <2>4. x \in moved /\ x \in Int /\ ~(from[x] > x) /\ from[x] \in Int
    BY <1>1, <1>2, <2>3
  <2>5. x + 1 \in moved /\ from[x] = from[x + 1]
    BY <1>2, <2>4
  <2>6. x + 1 \in S
    BY <1>1, <1>2, <2>4, <2>5
  <2>7. a.count - (x + 1) \in T
    BY <2>6 DEF T
  <2>8. a.count - x <= a.count - (x + 1)
    BY <2>2, <2>3, <2>7
  <2> QED BY <1>1, <2>4, <2>8
<1>4. ASSUME NEW x \in moved PROVE from[x] \in x + 1 .. a.count - 1
  <2>1. from[x] > x /\ from[x] \in index + 1 .. a.count - 1
    BY <1>2, <1>3
  <2> QED BY <1>1, <2>1
<1> QED BY <1>4

\* Whatever order the elements are copied in, those before the removed one stay, and in each place
\* behind is one that was behind it; when every element moves by one place they keep their order.
LEMMA RemovedContents ==
    ASSUME NEW a, Fits(a), NEW index \in 0 .. a.count - 1, NEW from \in CopiesOf(a, index)
    PROVE  LET list == ContentsOf(a)
               left == ContentsOf(RemovedAt(a, index, from))
           IN  /\ left \in Seq(Item) /\ Len(left) = Len(list) - 1
               /\ InOrder(from) => left = [m \in 1 .. Len(list) - 1 |->
                                             IF m < index + 1 THEN list[m] ELSE list[m + 1]]
               /\ \A m \in 1 .. Len(list) - 1 :
                     IF m < index + 1 THEN left[m] = list[m]
                     ELSE \E k \in m + 1 .. Len(list) : left[m] = list[k]
<1> DEFINE b == RemovedAt(a, index, from)
           list == ContentsOf(a)
           left == ContentsOf(b)
<1>1. /\ a.count \in Nat /\ a.capacity \in Nat /\ a.count <= a.capacity /\ a.count - 1 \in Nat
      /\ Len(list) = a.count /\ \A n \in 1 .. a.count : list[n] = a.data[n - 1]
  BY ContentsSeq DEF Fits, IsArray
<1>2. Fits(b) /\ b.count = a.count - 1
  BY RemovedAtFits
<1>3. \A x \in 0 .. a.capacity - 1 :
          b.data[x] = IF index <= x /\ x < a.count - 1 THEN a.data[from[x]] ELSE a.data[x]
  BY DEF RemovedAt
<1>4. DOMAIN from = index .. a.count - 2 /\ \A x \in index .. a.count - 2 : from[x] \in x + 1 .. a.count - 1
  BY CopiedFromBehind DEF CopiesOf
<1> HIDE DEF b
<1>5. /\ left \in Seq(Item) /\ Len(left) = a.count - 1
      /\ left = [m \in 1 .. a.count - 1 |-> b.data[m - 1]]
  BY <1>2, ContentsSeq DEF ContentsOf
<1> HIDE DEF left, list
<1>6. ASSUME NEW m \in 1 .. a.count - 1, m < index + 1
      PROVE  left[m] = list[m]
  <2>1. m - 1 \in 0 .. a.capacity - 1 /\ ~(index <= m - 1) /\ m \in 1 .. a.count
    BY <1>1, <1>6
  <2>2. b.data[m - 1] = a.data[m - 1]
    BY <1>3, <2>1
  <2> QED BY <1>1, <1>5, <2>1, <2>2
<1>7. ASSUME NEW m \in 1 .. a.count - 1, ~(m < index + 1)
      PROVE  /\ m - 1 \in index .. a.count - 2
             /\ left[m] = list[from[m - 1] + 1]
  <2>1. m - 1 \in 0 .. a.capacity - 1 /\ index <= m - 1 /\ m - 1 < a.count - 1 /\ m - 1 \in index .. a.count - 2
    BY <1>1, <1>7
  <2>2. b.data[m - 1] = a.data[from[m - 1]]
    BY <1>3, <2>1
  <2>3. from[m - 1] + 1 \in 1 .. a.count /\ (from[m - 1] + 1) - 1 = from[m - 1]
    BY <1>1, <1>4, <2>1
  <2>4. list[from[m - 1] + 1] = a.data[from[m - 1]]
    BY <1>1, <2>3
  <2> QED BY <1>5, <2>1, <2>2, <2>4
<1>8. ASSUME InOrder(from)
      PROVE  left = [m \in 1 .. Len(list) - 1 |-> IF m < index + 1 THEN list[m] ELSE list[m + 1]]
  <2>1. ASSUME NEW m \in 1 .. a.count - 1, ~(m < index + 1)
        PROVE  left[m] = list[m + 1]
    <3>1. m - 1 \in DOMAIN from /\ left[m] = list[from[m - 1] + 1]
      BY <1>4, <1>7, <2>1
    <3>2. from[m - 1] + 1 = m + 1
      BY <1>8, <3>1 DEF InOrder
    <3> QED BY <3>1, <3>2
  <2>2. \A m \in 1 .. a.count - 1 : left[m] = IF m < index + 1 THEN list[m] ELSE list[m + 1]
    BY <1>6, <2>1
  <2> QED BY <1>1, <1>5, <2>2
<1>9. ASSUME NEW m \in 1 .. a.count - 1, ~(m < index + 1)
      PROVE  \E k \in m + 1 .. Len(list) : left[m] = list[k]
  <2>1. m - 1 \in index .. a.count - 2 /\ left[m] = list[from[m - 1] + 1]
    BY <1>7, <1>9
  <2>2. from[m - 1] + 1 \in m + 1 .. a.count
    BY <1>1, <1>4, <2>1
  <2> QED BY <1>1, <2>1, <2>2
<1> QED BY <1>1, <1>5, <1>6, <1>8, <1>9 DEF left, list, b

----------------------------------------------------------------------------
\* An array that has just been made is an empty list.
LEMMA InitPromised == Init => Promised!Init
<1> SUFFICES ASSUME Init PROVE Promised!Init
  OBVIOUS
<1>1. PICK c \in Capacities, inc \in Increments : arr = EmptyArray(c, inc)
  BY DEF Init
<1>2. arr.count = 0
  BY <1>1 DEF EmptyArray
<1>3. ContentsOf(arr) = << >>
  BY <1>2 DEF ContentsOf
<1> QED BY <1>3 DEF Init, Promised!Init

\* Writing an element appends it to the list; an add_back that overruns the block has not returned,
\* and the list is as it was.
LEMMA PutPromised ==
    ASSUME IInv, NEW v \in Item, NEW this, Put(Grown(arr), v, this)
    PROVE  \/ pc' = pc /\ call' = this /\ ContentsOf(arr)' = Append(ContentsOf(arr), v)
           \/ pc' = "overrun" /\ call' = call /\ ContentsOf(arr)' = ContentsOf(arr)
<1>1. Fits(arr)
  BY DEF IInv, TypeOK, CountFits, Fits
<1>2. ContentsOf(arr)' = ContentsOf(arr')
  BY DEF ContentsOf
<1>3. Fits(arr') /\ \A n \in 0 .. arr.count - 1 : arr'.data[n] = arr.data[n]
  BY PutEffect
<1>4. CASE pc' = pc /\ call' = this /\ arr'.count = arr.count + 1 /\ arr'.data[arr.count] = v
  <2>1. ContentsOf(arr') = Append(ContentsOf(arr), v)
    BY <1>1, <1>3, <1>4, AppendedContents
  <2> QED BY <1>2, <1>4, <2>1
<1>5. CASE pc' = "overrun" /\ call' = call /\ arr'.count = arr.count
  <2>1. ContentsOf(arr) = ContentsOf(arr')
    BY <1>1, <1>3, <1>5, SameContents
  <2> QED BY <1>2, <1>5, <2>1
<1> QED BY <1>4, <1>5, PutEffect

\* A call of add_back as a caller makes it, outside an iteration.
LEMMA PutSteps ==
    ASSUME IInv, NEW v \in Item, NEW this, Put(Grown(arr), v, this), i' = i
    PROVE  \/ call' = this /\ ContentsOf(arr)' = Append(ContentsOf(arr), v) /\ i' = i
           \/ UNCHANGED Promised!vars
BY PutPromised DEF Promised!vars

\* A shorter array with the same elements is the beginning of the list.
LEMMA CutPromised ==
    ASSUME IInv, Fits(arr'), arr'.count <= arr.count,
           \A n \in 0 .. arr'.count - 1 : arr'.data[n] = arr.data[n]
    PROVE  ContentsOf(arr)' = SubSeq(ContentsOf(arr), 1, arr'.count)
<1>1. Fits(arr)
  BY DEF IInv, TypeOK, CountFits, Fits
<1>2. ContentsOf(arr') = SubSeq(ContentsOf(arr), 1, arr'.count)
  BY <1>1, CutContents
<1> QED BY <1>2 DEF ContentsOf

\* Taking an element out of the array takes it out of the list.
LEMMA RemovedPromised ==
    ASSUME IInv, NEW index \in 0 .. arr.count - 1, NEW from \in CopiesOf(arr, index),
           arr' = RemovedAt(arr, index, from)
    PROVE  /\ index + 1 \in 1 .. Len(ContentsOf(arr))
           /\ Promised!TakeOut(index + 1, InOrder(from))
<1> DEFINE list == ContentsOf(arr)
           left == ContentsOf(RemovedAt(arr, index, from))
<1>1. Fits(arr) /\ arr.count \in Nat
  BY DEF IInv, TypeOK, CountFits, Fits, IsArray
<1>2. Len(list) = arr.count
  BY <1>1, ContentsSeq
<1>3. ContentsOf(arr)' = left
  BY DEF ContentsOf
<1>4. /\ left \in Seq(Item) /\ Len(left) = Len(list) - 1
      /\ InOrder(from) => left = [m \in 1 .. Len(list) - 1 |->
                                    IF m < index + 1 THEN list[m] ELSE list[m + 1]]
      /\ \A m \in 1 .. Len(list) - 1 :
            IF m < index + 1 THEN left[m] = list[m]
            ELSE \E k \in m + 1 .. Len(list) : left[m] = list[k]
  BY <1>1, RemovedContents
<1> HIDE DEF list, left
<1>5. CASE InOrder(from)
  <2>1. left = Promised!Without(index + 1)
    BY <1>4, <1>5 DEF Promised!Without, list
  <2> QED BY <1>1, <1>2, <1>3, <1>5, <2>1 DEF Promised!TakeOut, list
<1>6. CASE ~InOrder(from)
  <2>1. Promised!Closed(index + 1)
    BY <1>3, <1>4 DEF Promised!Closed, list
  <2> QED BY <1>1, <1>2, <1>6, <2>1 DEF Promised!TakeOut, list
<1> QED BY <1>5, <1>6

\* Every step of the array is one of the list, or leaves the list as it is.
THEOREM NextPromised ==
    ASSUME IInv, IInv', [Next]_vars
    PROVE  [Promised!Next]_(Promised!vars)
<1> DEFINE list == ContentsOf(arr)
<1>0. /\ Fits(arr)
      /\ Fits(arr')
      /\ i \in Nat
      /\ pc \in {"ready", "freed"} => i = 0
      /\ arr.count \in Nat /\ arr.capacity \in Nat /\ arr.count <= arr.capacity
      /\ Len(list) = arr.count
      /\ list \in Seq(Item)
      /\ \A n \in 1 .. arr.count : list[n] = arr.data[n - 1]
  BY ContentsSeq DEF IInv, TypeOK, CountFits, Fits, IsArray
<1>p. ContentsOf(arr)' = ContentsOf(arr')
  BY DEF ContentsOf
<1>1. ASSUME NEW v \in Elem, AddBack(v) PROVE Promised!AddBack \/ UNCHANGED Promised!vars
  <2>1. v \in Item /\ Put(Grown(arr), v, <<"add_back", v>>) /\ i' = i
    BY <1>1 DEF AddBack, Item
  <2>2. \/ call' = <<"add_back", v>> /\ list' = Append(list, v)
        \/ UNCHANGED Promised!vars
    BY <2>1, PutSteps
  <2> QED BY <2>1, <2>2 DEF Promised!AddBack, Promised!Called, Promised!Value
<1>2. ASSUME AddBackEmpty PROVE Promised!AddBackEmpty \/ UNCHANGED Promised!vars
  <2> DEFINE g == Grown(arr)
             v == IF g.count < g.capacity THEN g.data[g.count] ELSE Unwritten
  <2>1. v \in Item
    <3>1. Fits(g)
      BY <1>0, GrownFits
    <3> QED BY <3>1 DEF Fits, IsArray, Item
  <2>2. Put(Grown(arr), v, <<"add_back_empty">>) /\ i' = i
    BY <1>2 DEF AddBackEmpty
  <2> HIDE DEF g, v
  <2>3. \/ call' = <<"add_back_empty">> /\ list' = Append(list, v)
        \/ UNCHANGED Promised!vars
    BY <2>1, <2>2, PutSteps
  <2> QED BY <2>1, <2>2, <2>3 DEF Promised!AddBackEmpty, Promised!Called
<1>3. ASSUME NEW index \in 0 .. arr.count - 1, AddBackOwn(index)
      PROVE  Promised!AddBackOwn \/ UNCHANGED Promised!vars
  <2> DEFINE stays == arr.count < arr.capacity
  <2>1. arr.data[index] \in Item /\ index + 1 \in 1 .. Len(list) /\ list[index + 1] = arr.data[index]
    <3>1. index \in 0 .. arr.capacity - 1 /\ index + 1 \in 1 .. arr.count /\ (index + 1) - 1 = index
      BY <1>0
    <3>2. list[index + 1] = arr.data[index]
      BY <1>0, <3>1
    <3> QED BY <1>0, <3>1, <3>2 DEF Fits, IsArray
  <2>2. PICK v \in IF stays THEN {arr.data[index]} ELSE Item :
            Put(Grown(arr), v, <<"add_back_own", index, stays>>)
    BY <1>3 DEF AddBackOwn
  <2>3. v \in Item /\ i' = i
    BY <1>3, <2>1, <2>2 DEF AddBackOwn
  <2> HIDE DEF stays
  <2>4. \/ call' = <<"add_back_own", index, stays>> /\ list' = Append(list, v)
        \/ UNCHANGED Promised!vars
    BY <2>2, <2>3, PutSteps
  <2>5. CASE call' = <<"add_back_own", index, stays>> /\ list' = Append(list, v)
    <3>1. v \in IF call'[3] THEN {list[index + 1]} ELSE Item
      BY <2>1, <2>2, <2>5
    <3> QED BY <2>1, <2>3, <2>5, <3>1
        DEF Promised!AddBackOwn, Promised!Called, Promised!IsIndex, Promised!Index
  <2> QED BY <2>4, <2>5
<1>4. ASSUME NEW vals \in Many, AddBackMany(vals) PROVE Promised!AddBackMany
  <2> DEFINE n == Len(vals)
             g == GrownMany(arr, n)
  <2>1. n \in Nat /\ vals \in Seq(Item) /\ \A x \in 1 .. n : vals[x] \in Item
    BY ManyElements
  <2>2. /\ Fits(g)
        /\ g.count = arr.count
        /\ arr.count + n <= g.capacity
        /\ \A x \in 0 .. arr.count - 1 : g.data[x] = arr.data[x]
    BY <1>0, <2>1, GrownManyFits
  <2>3. arr' = Appended(g, vals, n) /\ i' = i /\ call' = <<"add_back_many", vals>>
    BY <1>4, <2>2 DEF AddBackMany
  <2> HIDE DEF n, g
  <2>4. /\ Appended(g, vals, n).count = arr.count + n
        /\ \A x \in 0 .. arr.count - 1 : Appended(g, vals, n).data[x] = arr.data[x]
        /\ \A x \in 1 .. n : Appended(g, vals, n).data[arr.count + x - 1] = vals[x]
    BY <2>1, <2>2, AppendedFits
  <2>5. ContentsOf(arr') = list \o vals
    BY <1>0, <2>1, <2>3, <2>4, ManyContents DEF n
  <2> QED BY <1>p, <2>3, <2>5 DEF Promised!AddBackMany, Promised!Called, Promised!Values
<1>5. ASSUME NEW index \in 0 .. arr.count - 1, NEW v \in Elem, WriteAt(index, v)
      PROVE  Promised!WriteAt
  <2>1. index + 1 \in 1 .. Len(list) /\ v \in Item
    BY <1>0 DEF Item
  <2>2. /\ arr'.count = arr.count /\ arr'.data = [arr.data EXCEPT ![index] = v]
        /\ i' = i /\ call' = <<"at", index, v>>
    BY <1>0, <1>5 DEF WriteAt, Fits, IsArray
  <2>3. ASSUME NEW n \in 1 .. arr.count
        PROVE  arr'.data[n - 1] = [list EXCEPT ![index + 1] = v][n]
    <3>1. n - 1 \in 0 .. arr.capacity - 1 /\ (n - 1 = index <=> n = index + 1)
      BY <1>0
    <3>2. arr'.data[n - 1] = IF n - 1 = index THEN v ELSE arr.data[n - 1]
      BY <1>0, <2>2, <3>1 DEF Fits, IsArray
    <3>3. [list EXCEPT ![index + 1] = v][n] = IF n = index + 1 THEN v ELSE list[n]
      BY <1>0, <2>1, ExceptSeq
    <3> QED BY <1>0, <3>1, <3>2, <3>3
  <2>4. [list EXCEPT ![index + 1] = v] \in Seq(Item) /\ Len([list EXCEPT ![index + 1] = v]) = arr.count
    BY <1>0, <2>1, ExceptSeq
  <2>5. /\ ContentsOf(arr') \in Seq(Item)
        /\ Len(ContentsOf(arr')) = arr.count
        /\ \A n \in 1 .. arr.count : ContentsOf(arr')[n] = arr'.data[n - 1]
    BY <1>0, <2>2, ContentsSeq
  <2>6. ContentsOf(arr') = [list EXCEPT ![index + 1] = v]
    BY <2>3, <2>4, <2>5, SeqEqual
  <2>7. call'[2] + 1 = index + 1 /\ call'[3] = v /\ call'[1] = "at"
    BY <2>2
  <2> QED BY <1>p, <2>1, <2>2, <2>6, <2>7
      DEF Promised!WriteAt, Promised!Called, Promised!IsIndex, Promised!Index
<1>6. ASSUME RemoveBack PROVE Promised!RemoveBack
  <2>1. /\ arr.count > 0 /\ arr'.count = arr.count - 1 /\ arr'.data = arr.data
        /\ i' = i /\ call' = <<"remove_back">>
    BY <1>0, <1>6 DEF RemoveBack, Fits, IsArray
  <2>2. ContentsOf(arr)' = SubSeq(list, 1, arr.count - 1)
    BY <1>0, <2>1, CutPromised
  <2>3. list # << >>
    BY <1>0, <2>1
  <2> QED BY <1>0, <2>1, <2>2, <2>3 DEF Promised!RemoveBack, Promised!Called
<1>7. ASSUME NEW index \in 0 .. arr.count - 1, RemoveAt(index) PROVE Promised!RemoveAt
  <2>1. PICK from \in CopiesOf(arr, index) :
            arr' = RemovedAt(arr, index, from) /\ call' = <<"remove_at", index, InOrder(from)>>
    BY <1>7 DEF RemoveAt
  <2>2. index + 1 \in 1 .. Len(list) /\ Promised!TakeOut(index + 1, InOrder(from))
    BY <2>1, RemovedPromised
  <2>3. i' = i
    BY <1>7 DEF RemoveAt
  <2>4. call'[1] = "remove_at" /\ call'[2] = index /\ call'[3] = InOrder(from)
    BY <2>1
  <2> QED BY <2>2, <2>3, <2>4
      DEF Promised!RemoveAt, Promised!Called, Promised!IsIndex, Promised!Index
<1>8. ASSUME NEW v \in Elem, SetAll(v) PROVE Promised!SetAll
  <2>1. arr'.count = arr.count /\ i' = i /\ call' = <<"set_all", v>>
        /\ arr'.data = [x \in 0 .. arr.capacity - 1 |-> IF x < arr.count THEN v ELSE arr.data[x]]
    BY <1>0, <1>8 DEF SetAll, Filled, Fits, IsArray
  <2>2. \A n \in 1 .. arr.count : arr'.data[n - 1] = v
    BY <1>0, <2>1
  <2>3. ContentsOf(arr') = [n \in 1 .. Len(list) |-> v]
    BY <1>0, <2>1, <2>2 DEF ContentsOf
  <2> QED BY <1>p, <2>1, <2>3 DEF Promised!SetAll, Promised!Called, Promised!Value
<1>9. ASSUME Clear PROVE Promised!Clear
  <2>1. arr'.count = 0 /\ i' = i /\ call' = <<"clear">>
    BY <1>0, <1>9 DEF Clear, Fits, IsArray
  <2>2. ContentsOf(arr') = << >>
    BY <2>1 DEF ContentsOf
  <2> QED BY <1>p, <2>1, <2>2 DEF Promised!Clear, Promised!Called
<1>10. ASSUME NEW c \in Capacities, Resize(c) PROVE Promised!Resize
  <2>1. c \in Nat /\ arr' = Resized(arr, c) /\ i' = i /\ call' = <<"resize", c>>
    BY <1>10, DynArrayAssumption DEF Resize
  <2>2. /\ arr'.count = IF arr.count > c THEN c ELSE arr.count
        /\ \A n \in 0 .. arr'.count - 1 : arr'.data[n] = arr.data[n]
    BY <1>0, <2>1, ResizedFits
  <2>3. arr'.count <= arr.count /\ arr'.count = IF c < Len(list) THEN c ELSE Len(list)
    BY <1>0, <2>1, <2>2
  <2>4. ContentsOf(arr)' = SubSeq(list, 1, IF c < Len(list) THEN c ELSE Len(list))
    BY <1>0, <2>2, <2>3, CutPromised
  <2> QED BY <2>1, <2>4 DEF Promised!Resize, Promised!Called
<1>11. ASSUME Deinit PROVE Promised!Deinit
  BY <1>11 DEF Deinit, Promised!Deinit, Promised!Called, ContentsOf
<1>12. ASSUME NEW b \in {"read", "remove", "add"}, ForBegin(b) PROVE Promised!For
  BY <1>0, <1>12 DEF ForBegin, Promised!For, Promised!Called, ContentsOf
<1>g. ASSUME i < arr.count
      PROVE  i \in 0 .. arr.count - 1 /\ i < Len(list) /\ list[i + 1] = arr.data[i]
  <2>1. i + 1 \in 1 .. arr.count /\ (i + 1) - 1 = i
    BY <1>0, <1>g
  <2> QED BY <1>0, <1>g, <2>1
<1>13. ASSUME ForRead PROVE Promised!ForRead
  <2>1. /\ ContentsOf(arr)' = ContentsOf(arr) /\ i < arr.count /\ i' = i + 1
        /\ call' = <<"for_read", arr.data[i]>>
    BY <1>13 DEF ForRead, ContentsOf
  <2> QED BY <1>g, <2>1 DEF Promised!ForRead, Promised!Called, Promised!Gives, Promised!Value
<1>14. ASSUME ForRemoveAt PROVE Promised!ForRemoveAt
  <2>1. i < arr.count /\ i' = i + 1
    BY <1>14 DEF ForRemoveAt
  <2>2. PICK from \in CopiesOf(arr, i) :
            arr' = RemovedAt(arr, i, from) /\ call' = <<"for_remove_at", arr.data[i], InOrder(from)>>
    BY <1>14 DEF ForRemoveAt
  <2>3. i \in 0 .. arr.count - 1 /\ i < Len(list) /\ list[i + 1] = arr.data[i]
    BY <1>g, <2>1
  <2>4. Promised!TakeOut(i + 1, InOrder(from))
    BY <2>2, <2>3, RemovedPromised
  <2>5. call'[1] = "for_remove_at" /\ call'[2] = arr.data[i] /\ call'[3] = InOrder(from)
    BY <2>2
  <2> QED BY <2>1, <2>3, <2>4, <2>5
      DEF Promised!ForRemoveAt, Promised!Called, Promised!Gives, Promised!Value
<1>15. ASSUME NEW v \in Elem, ForAddBack(v) PROVE Promised!ForAddBack \/ UNCHANGED Promised!vars
  <2>1. v \in Item /\ Put(Grown(arr), v, <<"for_add_back", arr.data[i], v>>)
    BY <1>15 DEF ForAddBack, Item
  <2>2. pc = "for" /\ i < arr.count /\ i' = IF pc' = "overrun" THEN i ELSE i + 1
    BY <1>15 DEF ForAddBack
  <2>3. CASE pc' = pc /\ call' = <<"for_add_back", arr.data[i], v>>
             /\ ContentsOf(arr)' = Append(ContentsOf(arr), v)
    <3>1. i' = i + 1
      BY <2>2, <2>3
    <3>2. call'[1] = "for_add_back" /\ call'[2] = arr.data[i] /\ call'[3] = v
      BY <2>3
    <3> QED BY <1>g, <2>2, <2>3, <3>1, <3>2
        DEF Promised!ForAddBack, Promised!Called, Promised!Gives, Promised!Value
  <2>4. CASE pc' = "overrun" /\ call' = call /\ ContentsOf(arr)' = ContentsOf(arr)
    BY <2>2, <2>4 DEF Promised!vars
  <2> QED BY <2>1, <2>3, <2>4, PutPromised
<1>16. ASSUME ForEnd PROVE Promised!ForEnd
  <2>1. ContentsOf(arr)' = ContentsOf(arr) /\ i >= Len(list) /\ i' = 0 /\ call' = <<"for_end">>
    BY <1>0, <1>16 DEF ForEnd, ContentsOf
  <2> QED BY <2>1 DEF Promised!ForEnd, Promised!Called
<1>17. ASSUME UNCHANGED vars PROVE UNCHANGED Promised!vars
  BY <1>17 DEF vars, Promised!vars, ContentsOf
<1> HIDE DEF list
<1> QED
  BY <1>1, <1>2, <1>3, <1>4, <1>5, <1>6, <1>7, <1>8, <1>9, <1>10, <1>11, <1>12, <1>13,
     <1>14, <1>15, <1>16, <1>17 DEF Next, ForStep, Promised!Next

\* Whatever order memcpy copies in, the array implements the list.
THEOREM ArrayIsList == Spec => ImplementsList
<1>1. IInv /\ IInv' /\ [Next]_vars => [Promised!Next]_(Promised!vars)
  BY NextPromised
<1>2. Spec => []IInv
  BY Invariance
<1> QED BY <1>1, <1>2, InitPromised, PTL DEF Spec, ImplementsList, Promised!Spec
====
