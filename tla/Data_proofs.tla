---- MODULE Data_proofs ----
(***************************************************************************)
(* What is true of values, whichever component keeps them: lemmas about    *)
(* one table of HashTableData, for every set of keys, hash procedure and   *)
(* capacity, and lemmas about sums over finite sets.                       *)
(***************************************************************************)
EXTENDS HashTableData, FiniteSetTheorems, NaturalsInduction, TLAPS

\* HashOf gives a number that is not one of the two reserved ones.
LEMMA HashOfValid ==
    ASSUME NEW k \in Key
    PROVE  HashOf(k) \in Nat /\ HashOf(k) >= FIRST_VALID
BY HashProcAssumption DEF HashOf, FIRST_VALID

\* A fresh table is well-formed and has no live slot.
LEMMA EmptyIsTable ==
    ASSUME NEW c \in Nat \ {0}
    PROVE  /\ IsTable(EmptyTable(c))
           /\ Live(EmptyTable(c)) = {}
           /\ Counted(EmptyTable(c))
           /\ Reachable(EmptyTable(c))
<1> DEFINE t == EmptyTable(c)
<1>1. /\ t.capacity = c
      /\ t.count = 0
      /\ \A s \in 0 .. c - 1 : t.elements[s] = [hash |-> UNOCCUPIED, key |-> Garbage, value |-> Garbage]
  BY DEF EmptyTable
<1>2. IsTable(t)
  BY <1>1 DEF IsTable, EmptyTable, Slots, Element, UNOCCUPIED
<1>3. Live(t) = {}
  BY <1>1 DEF Live, Slots, UNOCCUPIED, FIRST_VALID
<1>4. Counted(t)
  BY <1>1, <1>3, FS_EmptySet DEF Counted
<1>5. Reachable(t)
  BY <1>3 DEF Reachable
<1> QED BY <1>2, <1>3, <1>4, <1>5

\* What Store does to the slots.
LEMMA StoreEffect ==
    ASSUME NEW t, IsTable(t), NEW s \in Slots(t), NEW k \in Key, NEW v \in Value \cup {Garbage}
    PROVE  /\ IsTable(Store(t, s, k, v))
           /\ Store(t, s, k, v).capacity = t.capacity
           /\ Store(t, s, k, v).count = t.count + 1
           /\ Store(t, s, k, v).elements[s] = [hash |-> HashOf(k), key |-> k, value |-> v]
           /\ \A r \in Slots(t) \ {s} : Store(t, s, k, v).elements[r] = t.elements[r]
           /\ Live(Store(t, s, k, v)) = Live(t) \cup {s}
           /\ Unoccupied(Store(t, s, k, v)) = Unoccupied(t) \ {s}
<1> DEFINE u == Store(t, s, k, v)
<1>1. /\ u = [elements |-> [t.elements EXCEPT ![s] = [hash |-> HashOf(k), key |-> k, value |-> v]],
               count    |-> t.count + 1,
               capacity |-> t.capacity]
      /\ u.capacity = t.capacity
      /\ u.count = t.count + 1
      /\ u.elements = [t.elements EXCEPT ![s] = [hash |-> HashOf(k), key |-> k, value |-> v]]
  BY DEF Store
<1>2. t.elements \in [Slots(t) -> Element] /\ t.count \in Nat /\ t.capacity \in Nat \ {0}
  BY DEF IsTable
<1>3. Slots(u) = Slots(t)
  BY <1>1 DEF Slots
<1>4. /\ u.elements[s] = [hash |-> HashOf(k), key |-> k, value |-> v]
      /\ \A r \in Slots(t) \ {s} : u.elements[r] = t.elements[r]
  BY <1>1, <1>2
<1>5. HashOf(k) \in Nat /\ HashOf(k) >= FIRST_VALID
  BY HashOfValid
<1>6. IsTable(u)
  <2>1. u.elements \in [Slots(u) -> Element]
    BY <1>1, <1>2, <1>3, <1>5 DEF Element
  <2>2. \A r \in Slots(u) : u.elements[r].hash # UNOCCUPIED => u.elements[r].key \in Key
    BY <1>3, <1>4 DEF IsTable
  <2> QED BY <1>1, <1>2, <2>1, <2>2 DEF IsTable
<1>7. Live(u) = Live(t) \cup {s}
  BY <1>3, <1>4, <1>5 DEF Live
<1>8. Unoccupied(u) = Unoccupied(t) \ {s}
  BY <1>3, <1>4, <1>5 DEF Unoccupied, UNOCCUPIED, FIRST_VALID
<1> QED BY <1>1, <1>4, <1>6, <1>7, <1>8

\* What Erase does to the slots, when it is a live one that is erased.
LEMMA EraseEffect ==
    ASSUME NEW t, IsTable(t), NEW s \in Live(t), t.count > 0
    PROVE  /\ IsTable(Erase(t, s))
           /\ Erase(t, s).capacity = t.capacity
           /\ Erase(t, s).count = t.count - 1
           /\ \A r \in Slots(t) \ {s} : Erase(t, s).elements[r] = t.elements[r]
           /\ Live(Erase(t, s)) = Live(t) \ {s}
           /\ Unoccupied(Erase(t, s)) = Unoccupied(t)
<1> DEFINE u == Erase(t, s)
           e == [hash |-> REMOVED, key |-> t.elements[s].key, value |-> t.elements[s].value]
<1>1. /\ u = [elements |-> [t.elements EXCEPT ![s] = e],
               count    |-> t.count - 1,
               capacity |-> t.capacity]
      /\ u.capacity = t.capacity
      /\ u.count = t.count - 1
      /\ u.elements = [t.elements EXCEPT ![s] = e]
  BY DEF Erase
<1>2. /\ t.elements \in [Slots(t) -> Element]
      /\ t.count \in Nat /\ t.capacity \in Nat \ {0}
      /\ s \in Slots(t) /\ t.elements[s].hash >= FIRST_VALID
  BY DEF IsTable, Live
<1>3. Slots(u) = Slots(t)
  BY <1>1 DEF Slots
<1>4. /\ u.elements[s] = e
      /\ \A r \in Slots(t) \ {s} : u.elements[r] = t.elements[r]
  BY <1>1, <1>2
<1>5. IsTable(u)
  <2>1. e \in Element
    BY <1>2 DEF Element, REMOVED
  <2>2. u.elements \in [Slots(u) -> Element]
    BY <1>1, <1>2, <1>3, <2>1
  <2>3. t.elements[s].key \in Key
    BY <1>2 DEF IsTable, FIRST_VALID, UNOCCUPIED
  <2>4. \A r \in Slots(u) : u.elements[r].hash # UNOCCUPIED => u.elements[r].key \in Key
    BY <1>3, <1>4, <2>3 DEF IsTable
  <2> QED BY <1>1, <1>2, <2>2, <2>4 DEF IsTable
<1>6. Live(u) = Live(t) \ {s}
  BY <1>3, <1>4 DEF Live, REMOVED, FIRST_VALID
<1>7. Unoccupied(u) = Unoccupied(t)
  BY <1>2, <1>3, <1>4 DEF Unoccupied, REMOVED, UNOCCUPIED, FIRST_VALID
<1> QED BY <1>1, <1>4, <1>5, <1>6, <1>7

----------------------------------------------------------------------------
\* The live slots are finitely many.
LEMMA LiveFinite ==
    ASSUME NEW t, IsTable(t)
    PROVE  IsFiniteSet(Live(t)) /\ Cardinality(Live(t)) \in Nat
<1>1. t.capacity - 1 \in Int /\ 0 \in Int
  BY DEF IsTable
<1>2. IsFiniteSet(0 .. t.capacity - 1)
  BY <1>1, FS_Interval
<1>3. Live(t) \subseteq 0 .. t.capacity - 1
  BY DEF Live, Slots
<1> QED BY <1>2, <1>3, FS_Subset, FS_CardinalityType

\* Storing into a slot that is not live keeps the count right.
LEMMA StoreCounted ==
    ASSUME NEW t, IsTable(t), Counted(t), NEW s \in AddStops(t), NEW k \in Key,
           NEW v \in Value \cup {Garbage}
    PROVE  Counted(Store(t, s, k, v))
<1> DEFINE u == Store(t, s, k, v)
<1>1. s \in Slots(t)
  BY DEF AddStops, Unoccupied, Removed
<1>4. s \notin Live(t)
  BY DEF AddStops, Unoccupied, Removed, Live, UNOCCUPIED, REMOVED, FIRST_VALID
<1>2. Cardinality(Live(t) \cup {s}) = Cardinality(Live(t)) + 1
  BY <1>4, LiveFinite, FS_AddElement
<1>3. /\ u.capacity = t.capacity
      /\ u.count = t.count + 1
      /\ u.elements[s] = [hash |-> HashOf(k), key |-> k, value |-> v]
      /\ Live(u) = Live(t) \cup {s}
  BY <1>1, StoreEffect
<1> QED BY <1>2, <1>3 DEF Counted

\* Erasing a live slot keeps the count right.
LEMMA EraseCounted ==
    ASSUME NEW t, IsTable(t), Counted(t), NEW s \in Live(t)
    PROVE  t.count > 0 /\ Counted(Erase(t, s))
<1>1. Cardinality(Live(t) \ {s}) = Cardinality(Live(t)) - 1 /\ Cardinality(Live(t)) # 0
  BY LiveFinite, FS_RemoveElement, FS_EmptySet
<1>2. t.count > 0
  BY <1>1, LiveFinite DEF Counted
<1> QED BY <1>1, <1>2, EraseEffect DEF Counted

----------------------------------------------------------------------------
\* The walk of an add ends before any unoccupied slot, so what it stores can be reached;
\* and it takes nothing from the paths to the other elements.
LEMMA StoreReachable ==
    ASSUME NEW t, IsTable(t), Reachable(t), NEW k \in Key, NEW v \in Value \cup {Garbage},
           NEW s \in Landing(t, k, AddStops(t))
    PROVE  Reachable(Store(t, s, k, v))
<1> DEFINE u == Store(t, s, k, v)
<1>1. s \in AddStops(t) /\ s \in Slots(t)
  BY DEF Landing, AddStops, Unoccupied, Removed
<1>2. /\ u.capacity = t.capacity
      /\ u.elements[s] = [hash |-> HashOf(k), key |-> k, value |-> v]
      /\ \A r \in Slots(t) \ {s} : u.elements[r] = t.elements[r]
      /\ Live(u) = Live(t) \cup {s}
      /\ Unoccupied(u) = Unoccupied(t) \ {s}
  BY <1>1, StoreEffect
<1>3. /\ ProbeCount(u) = ProbeCount(t)
      /\ \A h, n : Probe(u, h, n) = Probe(t, h, n)
  BY <1>2 DEF ProbeCount, Probe
<1> HIDE DEF u
<1>4. SUFFICES ASSUME NEW r \in Live(u)
               PROVE  /\ u.elements[r].hash = HashOf(u.elements[r].key)
                      /\ \E n \in 0 .. ProbeCount(u) - 1 :
                            /\ Probe(u, u.elements[r].hash, n) = r
                            /\ \A m \in 0 .. n - 1 :
                                  Probe(u, u.elements[r].hash, m) \notin Unoccupied(u)
  BY DEF Reachable, u
<1>5. CASE r = s
  <2>1. PICK n \in 0 .. ProbeCount(t) - 1 :
               /\ Probe(t, HashOf(k), n) = s
               /\ \A m \in 0 .. n - 1 : Probe(t, HashOf(k), m) \notin AddStops(t)
    BY DEF Landing
  <2>2. \A m \in 0 .. n - 1 : Probe(t, HashOf(k), m) \notin Unoccupied(u)
    BY <1>2, <2>1 DEF AddStops
  <2> QED BY <1>2, <1>3, <1>5, <2>1, <2>2
<1>6. CASE r # s
  <2>1. r \in Live(t) /\ u.elements[r] = t.elements[r]
    BY <1>2, <1>6 DEF Live
  <2>2. PICK n \in 0 .. ProbeCount(t) - 1 :
               /\ Probe(t, t.elements[r].hash, n) = r
               /\ \A m \in 0 .. n - 1 : Probe(t, t.elements[r].hash, m) \notin Unoccupied(t)
    BY <2>1 DEF Reachable
  <2>3. t.elements[r].hash = HashOf(t.elements[r].key)
    BY <2>1 DEF Reachable
  <2> QED BY <1>2, <1>3, <2>1, <2>2, <2>3
<1> QED BY <1>5, <1>6

\* Erasing leaves the slot occupied as far as a walk can tell.
LEMMA EraseReachable ==
    ASSUME NEW t, IsTable(t), Reachable(t), t.count > 0, NEW s \in Live(t)
    PROVE  Reachable(Erase(t, s))
<1> DEFINE u == Erase(t, s)
<1>1. /\ u.capacity = t.capacity
      /\ \A r \in Slots(t) \ {s} : u.elements[r] = t.elements[r]
      /\ Live(u) = Live(t) \ {s}
      /\ Unoccupied(u) = Unoccupied(t)
  BY EraseEffect
<1>2. /\ ProbeCount(u) = ProbeCount(t)
      /\ \A h, n : Probe(u, h, n) = Probe(t, h, n)
  BY <1>1 DEF ProbeCount, Probe
<1>3. \A r \in Live(u) : r \in Live(t) /\ u.elements[r] = t.elements[r]
  BY <1>1 DEF Live
<1> HIDE DEF u
<1> QED BY <1>1, <1>2, <1>3 DEF Reachable, u

\* A search that ends at an unoccupied slot has not missed an element of its key.
LEMMA SearchMissesNone ==
    ASSUME NEW t, IsTable(t), Reachable(t), NEW k \in Key, NEW stops,
           Unoccupied(t) \subseteq stops, LiveOf(t, k) \subseteq stops,
           NEW s \in Landing(t, k, stops), s \in Unoccupied(t)
    PROVE  LiveOf(t, k) = {}
<1>1. SUFFICES ASSUME NEW r \in LiveOf(t, k)
               PROVE  FALSE
  OBVIOUS
<1>2. PICK n \in 0 .. ProbeCount(t) - 1 :
             /\ Probe(t, HashOf(k), n) = s
             /\ \A m \in 0 .. n - 1 : Probe(t, HashOf(k), m) \notin stops
  BY DEF Landing
<1>3. r \in Live(t) /\ t.elements[r].hash = HashOf(k)
  BY DEF LiveOf, Reachable
<1>4. PICK p \in 0 .. ProbeCount(t) - 1 :
             /\ Probe(t, HashOf(k), p) = r
             /\ \A m \in 0 .. p - 1 : Probe(t, HashOf(k), m) \notin Unoccupied(t)
  BY <1>3 DEF Reachable
<1>5. n \in Int /\ p \in Int /\ n >= 0 /\ p >= 0
  OBVIOUS
<1>6. ~(p < n)
  BY <1>2, <1>4, <1>5
<1>7. ~(n < p)
  BY <1>2, <1>4, <1>5
<1>8. r = s
  BY <1>2, <1>4, <1>5, <1>6, <1>7
<1> QED BY <1>3, <1>8 DEF Live, Unoccupied, UNOCCUPIED, FIRST_VALID

----------------------------------------------------------------------------
\* What the operations keep of a table.
Good(t) == IsTable(t) /\ Counted(t) /\ Reachable(t)

\* A fresh table is good.
LEMMA EmptyGood == \A c \in Nat \ {0} : Good(EmptyTable(c))
BY EmptyIsTable DEF Good

\* The slot an add lands on may be stored into.
LEMMA StoreGood ==
    ASSUME NEW t, Good(t), NEW k \in Key, NEW v \in Value \cup {Garbage},
           NEW s \in Landing(t, k, AddStops(t))
    PROVE  Good(Store(t, s, k, v)) /\ s \in Slots(t) /\ s \notin Live(t)
<1>1. s \in AddStops(t)
  BY DEF Landing
<1>2. s \in Slots(t) /\ s \notin Live(t)
  BY <1>1 DEF AddStops, Unoccupied, Removed, Live, UNOCCUPIED, REMOVED, FIRST_VALID
<1>3. IsTable(Store(t, s, k, v))
  BY <1>2, StoreEffect DEF Good
<1>4. Counted(Store(t, s, k, v))
  BY <1>1, StoreCounted DEF Good
<1>5. Reachable(Store(t, s, k, v))
  BY StoreReachable DEF Good
<1> QED BY <1>2, <1>3, <1>4, <1>5 DEF Good

\* A live slot may be erased.
LEMMA EraseGood ==
    ASSUME NEW t, Good(t), NEW s \in Live(t)
    PROVE  Good(Erase(t, s)) /\ t.count > 0
BY EraseEffect, EraseCounted, EraseReachable DEF Good

\* Where a search ends is an unoccupied slot or an element of the key.
LEMMA SearchLands ==
    ASSUME NEW t, NEW k
    PROVE  /\ \A s \in Landing(t, k, RemoveStops(t, k)) : s \in Unoccupied(t) \/ s \in LiveOf(t, k)
           /\ \A s \in Landing(t, k, GetStops(t, k)) : s \in Unoccupied(t) \/ s \in LiveOf(t, k)
BY DEF Landing, RemoveStops, GetStops

\* The hash stored with a key is the hash of the key, so remove, which compares hashes
\* first, stops where get does.
LEMMA RemoveStopsAtKey ==
    ASSUME NEW t, Good(t), NEW k
    PROVE  RemoveStops(t, k) = GetStops(t, k)
BY DEF RemoveStops, GetStops, LiveOf, Good, Reachable

\* remove gives up only when no element has the key.
LEMMA RemoveMissesNone ==
    ASSUME NEW t, Good(t), NEW k \in Key,
           NEW s \in Landing(t, k, RemoveStops(t, k)), s \in Unoccupied(t)
    PROVE  LiveOf(t, k) = {}
<1>1. s \in Landing(t, k, GetStops(t, k))
  BY RemoveStopsAtKey
<1>2. Unoccupied(t) \subseteq GetStops(t, k) /\ LiveOf(t, k) \subseteq GetStops(t, k)
  BY DEF GetStops
<1> QED BY <1>1, <1>2, SearchMissesNone DEF Good

\* get gives up only when no element has the key.
LEMMA GetMissesNone ==
    ASSUME NEW t, Good(t), NEW k \in Key,
           NEW s \in Landing(t, k, GetStops(t, k)), s \in Unoccupied(t)
    PROVE  LiveOf(t, k) = {}
<1>1. Unoccupied(t) \subseteq GetStops(t, k) /\ LiveOf(t, k) \subseteq GetStops(t, k)
  BY DEF GetStops
<1> QED BY <1>1, SearchMissesNone DEF Good

----------------------------------------------------------------------------
\* The numbers of slots before and after a position.
LEMMA PartsFinite ==
    ASSUME NEW t, IsTable(t), NEW n
    PROVE  /\ IsFiniteSet(LiveFrom(t, n)) /\ Cardinality(LiveFrom(t, n)) \in Nat
           /\ IsFiniteSet(UsedBefore(t, n)) /\ Cardinality(UsedBefore(t, n)) \in Nat
           /\ IsFiniteSet(Live(t) \cup Removed(t))
<1>0. t.capacity - 1 \in Int /\ 0 \in Int
  BY DEF IsTable
<1>1. IsFiniteSet(0 .. t.capacity - 1)
  BY <1>0, FS_Interval
<1>2. /\ LiveFrom(t, n) \subseteq 0 .. t.capacity - 1
      /\ UsedBefore(t, n) \subseteq 0 .. t.capacity - 1
      /\ Live(t) \cup Removed(t) \subseteq 0 .. t.capacity - 1
  BY DEF LiveFrom, UsedBefore, Live, Removed, Slots
<1> QED BY <1>1, <1>2, FS_Subset, FS_CardinalityType

\* At slot 0 every element is still to be met.
LEMMA LiveFromZero ==
    ASSUME NEW t, IsTable(t)
    PROVE  LiveFrom(t, 0) = Live(t)
BY DEF LiveFrom, Live, Slots

\* Taking one slot out of a finite set takes at most one off its size.
LEMMA RemoveOne ==
    ASSUME NEW S, IsFiniteSet(S), NEW x
    PROVE  /\ IsFiniteSet(S \ {x})
           /\ Cardinality(S) \in Nat
           /\ Cardinality(S \ {x}) \in Nat
           /\ Cardinality(S \ {x}) >= Cardinality(S) - 1
<1>1. Cardinality(S) \in Nat
  BY FS_CardinalityType
<1>2. CASE x \in S
  <2>1. IsFiniteSet(S \ {x}) /\ Cardinality(S \ {x}) = Cardinality(S) - 1
    BY <1>2, FS_RemoveElement
  <2>2. Cardinality(S \ {x}) \in Nat
    BY <2>1, FS_CardinalityType
  <2> QED BY <1>1, <2>1, <2>2
<1>3. CASE x \notin S
  <2>1. S \ {x} = S
    BY <1>3
  <2>2. Cardinality(S) >= Cardinality(S) - 1
    BY <1>1
  <2> QED BY <1>1, <2>1, <2>2
<1> QED BY <1>2, <1>3

\* A slot is unoccupied or used, never both.
LEMMA UsedOrNot ==
    ASSUME NEW t, IsTable(t), NEW s \in Slots(t)
    PROVE  /\ s \notin Unoccupied(t) => s \in Live(t) \cup Removed(t) /\ t.elements[s].key \in Key
           /\ s \in Unoccupied(t) => s \notin Live(t) \cup Removed(t)
           /\ t.elements[s].value \in Value \cup {Garbage}
           /\ t.elements[s] = [hash  |-> t.elements[s].hash,
                                key   |-> t.elements[s].key,
                                value |-> t.elements[s].value]
<1>1. t.elements[s] \in Element
  BY DEF IsTable
<1>2. t.elements[s].hash \in Nat
  BY <1>1 DEF Element
<1>3. t.elements[s].hash # UNOCCUPIED => t.elements[s].key \in Key
  BY DEF IsTable
<1>4. /\ t.elements[s].value \in Value \cup {Garbage}
      /\ t.elements[s] = [hash  |-> t.elements[s].hash,
                           key   |-> t.elements[s].key,
                           value |-> t.elements[s].value]
  BY <1>1 DEF Element
<1> QED BY <1>2, <1>3, <1>4 DEF Live, Removed, Unoccupied, UNOCCUPIED, REMOVED, FIRST_VALID

\* Passing slot n of the loop of cut_hash_table_for.
LEMMA LiveFromNext ==
    ASSUME NEW t, IsTable(t), NEW n \in Nat
    PROVE  LiveFrom(t, n + 1) = LiveFrom(t, n) \ {n}
<1>1. \A s \in Live(t) : s >= n + 1 <=> s >= n /\ s # n
  BY DEF Live, Slots, IsTable
<1> QED BY <1>1 DEF LiveFrom

----------------------------------------------------------------------------
(***************************************************************************)
(* The walk over a table whose capacity is a power of two.                 *)
(***************************************************************************)

\* Numbers that are not none have a least one.
LEMMA LeastNumber ==
    ASSUME NEW S, S \subseteq Nat, S # {}
    PROVE  \E x \in S : \A y \in S : x <= y
<1> DEFINE Below == {ss \in Nat \X Nat : ss[1] < ss[2]}
<1>1. IsWellFoundedOn(Below, Nat)
  BY NatLessThanWellFounded DEF OpToRel
<1> HIDE DEF Below
<1>2. PICK x \in S : \A y \in S : ~(<<y, x>> \in Below)
  BY <1>1, WFMin
<1>3. ASSUME NEW y \in S
      PROVE  x <= y
  <2>1. x \in Nat /\ y \in Nat
    OBVIOUS
  <2>2. y < x => <<y, x>> \in Below
    BY <2>1 DEF Below
  <2> QED BY <1>2, <2>1, <2>2
<1> QED BY <1>3

LEMMA AllNumbers ==
    ASSUME NEW S, 0 \in S, \A n \in Nat : n \in S => n + 1 \in S
    PROVE  Nat \subseteq S
<1> SUFFICES ASSUME Nat \ S # {}
             PROVE  FALSE
  OBVIOUS
<1>1. PICK x \in Nat \ S : \A y \in Nat \ S : x <= y
  BY LeastNumber
<1>2. x # 0 /\ x - 1 \in Nat
  BY <1>1
<1>3. x - 1 \notin Nat \ S
  BY <1>1, <1>2
<1> QED BY <1>1, <1>2, <1>3

\* The step of the walk is a whole number of slots: twice n(n+1)/2 is n(n+1).
LEMMA Triangle ==
    ASSUME NEW n \in Nat
    PROVE  (n * (n + 1)) \div 2 \in Nat /\ 2 * ((n * (n + 1)) \div 2) = n * (n + 1)
<1> DEFINE half == n \div 2
           p == n * (n + 1)
<1>1. half \in Nat /\ (n = 2 * half \/ n = 2 * half + 1)
  OBVIOUS
<1> HIDE DEF half
<1>2. \E c \in Nat : p = 2 * c
  <2>1. CASE n = 2 * half
    <3>1. half * (n + 1) \in Nat /\ p = 2 * (half * (n + 1))
      BY <1>1, <2>1
    <3> QED
      BY <3>1
  <2>2. CASE n = 2 * half + 1
    <3>1. (half + 1) * n \in Nat /\ n + 1 = 2 * (half + 1)
      BY <1>1, <2>2
    <3>2. p = 2 * ((half + 1) * n)
      BY <1>1, <3>1
    <3> QED
      BY <3>1, <3>2
  <2> QED
    BY <1>1, <2>1, <2>2
<1> HIDE DEF p
<1>3. p \div 2 \in Nat /\ 2 * (p \div 2) = p
  BY <1>2
<1> QED
  BY <1>3 DEF p

\* What a power of two divides with an odd factor, it divides without it.
LEMMA OddFactor ==
    ASSUME NEW c \in Nat \ {0}, IsPowerOfTwo(c), NEW a \in Nat, a % 2 = 1, NEW b \in Nat,
           NEW q \in Nat, a * b = c * q
    PROVE  \E r \in Nat : b = c * r
<1> DEFINE S == {x \in Nat \ {0} : \E r \in Nat : x * b = c * r}
<1>1. c \in S
  OBVIOUS
<1>2. a \in S
  <2>1. a # 0
    OBVIOUS
  <2> QED
    BY <2>1
<1>3. PICK k \in S : \A y \in S : k <= y
  <2>1. S \subseteq Nat /\ S # {}
    BY <1>1
  <2> HIDE DEF S
  <2> QED
    BY <2>1, LeastNumber
<1>4. k \in Nat \ {0}
  OBVIOUS
<1>5. PICK kr \in Nat : k * b = c * kr
  OBVIOUS
<1>6. ASSUME NEW x \in S PROVE \E m \in Nat : x = k * m
  <2>1. x \in Nat \ {0}
    OBVIOUS
  <2>2. PICK xr \in Nat : x * b = c * xr
    OBVIOUS
  <2> DEFINE m == x \div k
             d == x % k
  <2>3. m \in Nat /\ d \in Nat /\ d < k /\ x = k * m + d
    BY <1>4, <2>1
  <2> HIDE DEF S, m, d
  <2>4. d * b = c * (xr - m * kr)
    <3>1. x * b = (k * m) * b + d * b
      BY <1>4, <2>1, <2>3
    <3>2. (k * m) * b = m * (k * b)
      BY <1>4, <2>3
    <3>3. m * (k * b) = c * (m * kr)
      BY <1>5, <2>3
    <3>4. c * (xr - m * kr) = c * xr - c * (m * kr)
      BY <1>5, <2>2, <2>3
    <3>5. (k * m) * b \in Int /\ d * b \in Int /\ c * (m * kr) \in Int /\ c * xr \in Int
      BY <1>4, <1>5, <2>2, <2>3
    <3> QED
      BY <2>2, <3>1, <3>2, <3>3, <3>4, <3>5
  <2>5. d = 0
    <3> SUFFICES ASSUME d # 0 PROVE FALSE
      OBVIOUS
    <3> DEFINE r == xr - m * kr
    <3>1. r \in Int /\ d * b = c * r /\ d * b \in Nat
      BY <2>2, <2>3, <2>4
    <3>2. r \in Nat
      <4> HIDE DEF r
      <4>1. r < 0 => c * r < 0
        BY <3>1
      <4> QED
        BY <3>1, <4>1
    <3>3. d \in S
      BY <2>3, <3>1, <3>2 DEF S
    <3> QED
      BY <1>3, <1>4, <2>3, <3>3
  <2> QED
    BY <2>3, <2>5
<1> HIDE DEF S
<1>7. PICK m \in Nat : c = k * m
  BY <1>1, <1>6
<1>8. PICK n \in Nat : a = k * n
  BY <1>2, <1>6
<1>9. k % 2 = 1
  <2> SUFFICES ASSUME k % 2 = 0 PROVE FALSE
    BY <1>4
  <2>1. PICK h \in Nat : k = 2 * h
    BY <1>4
  <2>2. a = 2 * (h * n) /\ h * n \in Nat
    BY <1>8, <2>1
  <2> QED
    BY <2>2
<1>10. k = 1
  <2> SUFFICES ASSUME k # 1 PROVE FALSE
    OBVIOUS
  <2>1. c % k = 0
    BY <1>4, <1>7
  <2>2. m # 0
    BY <1>4, <1>7
  <2>3. k <= c
    BY <1>4, <1>7, <2>2
  <2>4. k \in 2 .. c
    BY <1>4, <2>3
  <2> QED
    BY <1>9, <2>1, <2>4 DEF IsPowerOfTwo
<1>11. k * b = b
  BY ONLY <1>10, b \in Nat
<1> QED
  BY <1>5, <1>11

\* Two places of the first turn are different ones.
LEMMA TurnsDiffer ==
    ASSUME NEW c \in Nat \ {0}, IsPowerOfTwo(c), NEW m \in Nat, NEW n \in Nat, m < n, n < c,
           NEW q \in Nat, (n - m) * (n + m + 1) = 2 * (c * q)
    PROVE  FALSE
<1> DEFINE d == n - m
           s == n + m + 1
<1>1. d \in Nat /\ s \in Nat /\ 0 < d /\ d < c /\ 0 < s /\ s < 2 * c /\ s = d + 2 * m + 1
      /\ d * s = 2 * (c * q)
  OBVIOUS
<1> HIDE DEF d, s
<1>2. ASSUME NEW x \in Nat, x < c, 0 < x, NEW r \in Nat, x = c * r PROVE FALSE
  <2>1. r # 0 => c * r >= c
    OBVIOUS
  <2>2. r = 0 => c * r = 0
    OBVIOUS
  <2> QED
    BY <1>2, <2>1, <2>2
<1>3. CASE d % 2 = 1
  <2> DEFINE h == (d \div 2) + m + 1
  <2>1. h \in Nat /\ s = 2 * h
    BY <1>1, <1>3
  <2> HIDE DEF h
  <2>2. d * h = c * q
    <3>1. d * s = 2 * (d * h)
      BY <1>1, <2>1
    <3>2. d * h \in Nat /\ c * q \in Nat
      BY <1>1, <2>1
    <3> QED
      BY <1>1, <3>1, <3>2
  <2>3. PICK r \in Nat : h = c * r
    <3>1. c \in Nat \ {0} /\ d \in Nat /\ h \in Nat /\ q \in Nat
      BY <1>1, <2>1
    <3> QED
      BY <1>3, <2>2, <3>1, OddFactor, ZenonT(90)
  <2> QED
    BY <1>1, <1>2, <2>1, <2>3
<1>4. CASE d % 2 = 0
  <2>1. PICK h \in Nat : d = 2 * h
    BY <1>1, <1>4
  <2>2. s % 2 = 1
    BY <1>1, <2>1
  <2>3. s * h = c * q
    <3>1. d * s = 2 * (s * h)
      BY <1>1, <2>1
    <3>2. s * h \in Nat /\ c * q \in Nat
      BY <1>1
    <3> QED
      BY <1>1, <3>1, <3>2
  <2>4. PICK r \in Nat : h = c * r
    <3>1. c \in Nat \ {0} /\ s \in Nat /\ h \in Nat /\ q \in Nat
      BY <1>1, <2>1
    <3> QED
      BY <2>2, <2>3, <3>1, OddFactor, ZenonT(90)
  <2> QED
    BY <1>1, <1>2, <2>1, <2>4
<1> QED
  BY <1>1, <1>3, <1>4

\* Numbers with the same remainder differ by a multiple.
LEMMA SameRemainder ==
    ASSUME NEW c \in Nat \ {0}, NEW x \in Nat, NEW y \in Nat, x <= y, x % c = y % c
    PROVE  \E q \in Nat : y - x = c * q
<1> DEFINE a == x \div c
           b == y \div c
           r == x % c
<1>1. a \in Nat /\ b \in Nat /\ r \in Nat /\ x = c * a + r /\ y = c * b + r
  OBVIOUS
<1> HIDE DEF a, b, r
<1>2. y - x = c * (b - a)
  <2>1. c * (b - a) = c * b - c * a /\ c * b \in Nat /\ c * a \in Nat
    BY <1>1
  <2> QED
    BY <1>1, <2>1
<1>3. b - a \in Nat
  <2>1. b - a < 0 => c * (b - a) < 0
    BY <1>1
  <2> QED
    BY <1>1, <1>2, <2>1
<1> QED
  BY <1>2, <1>3

\* With a power of two for its capacity, the walk comes to every slot in its first turn.
LEMMA ProbesCover ==
    ASSUME NEW t, t.capacity \in Nat \ {0}, IsPowerOfTwo(t.capacity), NEW hash \in Nat,
           NEW s \in Slots(t)
    PROVE  \E n \in 0 .. t.capacity - 1 : Probe(t, hash, n) = s
<1> DEFINE c == t.capacity
           Turn == 0 .. c - 1
           f == [n \in Turn |-> Probe(t, hash, n)]
           Third(n) == (n * (n + 1)) \div 2
<1>1. c \in Nat \ {0} /\ s \in Turn /\ IsPowerOfTwo(c)
  BY DEF Slots
<1>2. \A n \in Turn : /\ n \in Nat /\ Third(n) \in Nat /\ 2 * Third(n) = n * (n + 1)
                       /\ Probe(t, hash, n) = (hash + Third(n)) % c
  BY Triangle DEF Probe
<1> HIDE DEF c, Third
<1>3. \A n \in Turn : Probe(t, hash, n) \in Turn
  <2> SUFFICES ASSUME NEW n \in Turn PROVE Probe(t, hash, n) \in Turn
    OBVIOUS
  <2> DEFINE x == hash + Third(n)
  <2>1. x \in Nat /\ Probe(t, hash, n) = x % c
    BY <1>2
  <2> HIDE DEF x
  <2>2. x % c \in 0 .. c - 1
    BY <1>1, <2>1
  <2> QED
    BY <2>1, <2>2
<1>4. ASSUME NEW m \in Turn, NEW n \in Turn, m < n, Probe(t, hash, m) = Probe(t, hash, n)
      PROVE  FALSE
  <2> DEFINE x == Third(m)
             y == Third(n)
  <2>1. /\ m \in Nat /\ n \in Nat /\ n < c /\ x \in Nat /\ y \in Nat
        /\ 2 * x = m * (m + 1) /\ 2 * y = n * (n + 1)
        /\ (hash + x) % c = (hash + y) % c
    BY <1>1, <1>2, <1>4
  <2> HIDE DEF x, y
  <2>2. m * (m + 1) = m * m + m /\ n * (n + 1) = n * n + n /\ m * m \in Nat /\ n * n \in Nat
    BY <2>1
  <2>3. m * m <= n * n
    BY <1>4, <2>1
  <2>4. x <= y
    BY <1>4, <2>1, <2>2, <2>3
  <2>5. PICK q \in Nat : (hash + y) - (hash + x) = c * q
    <3>1. hash + x \in Nat /\ hash + y \in Nat /\ hash + x <= hash + y
      BY <2>1, <2>4
    <3> QED
      BY <1>1, <2>1, <3>1, SameRemainder, ZenonT(40)
  <2>6. (n - m) * (n + m + 1) = n * n + n - (m * m + m)
    BY <2>1
  <2>7. (n - m) * (n + m + 1) = 2 * (c * q)
    <3>1. c * q \in Nat
      BY <1>1
    <3>2. y - x = c * q
      BY <2>1, <2>5, <3>1
    <3> QED
      BY <2>1, <2>2, <2>6, <3>1, <3>2
  <2> QED
    BY <1>1, <1>4, <2>1, <2>7, TurnsDiffer, ZenonT(40)
<1> SUFFICES ASSUME \A n \in Turn : Probe(t, hash, n) # s
             PROVE  FALSE
  BY DEF c
<1>5. IsFiniteSet(Turn) /\ Cardinality(Turn) = c
  <2>1. c - 1 \in Int /\ 0 \in Int /\ 0 <= c - 1 + 1
    BY <1>1
  <2>2. IsFiniteSet(Turn) /\ Cardinality(Turn) = IF 0 > c - 1 THEN 0 ELSE (c - 1) - 0 + 1
    BY <2>1, FS_Interval
  <2> QED
    BY <1>1, <2>2
<1>6. IsFiniteSet(Turn \ {s}) /\ Cardinality(Turn \ {s}) = c - 1
  <2> HIDE DEF Turn
  <2> QED
    BY <1>1, <1>5, FS_RemoveElement
<1>7. f \in [Turn -> Turn \ {s}]
  BY <1>3
<1>8. Cardinality(Turn \ {s}) < Cardinality(Turn)
  BY <1>1, <1>5, <1>6
<1>9. PICK m \in Turn, n \in Turn : m # n /\ f[m] = f[n]
  <2> HIDE DEF f, Turn
  <2> QED
    BY <1>5, <1>6, <1>7, <1>8, FS_PigeonHole
<1>10. m < n \/ n < m
  BY <1>1, <1>9
<1>11. Probe(t, hash, m) = Probe(t, hash, n)
  BY <1>9
<1> QED
  BY <1>4, <1>10, <1>11

\* So it does not go on for ever when there is a slot to stop at.
LEMMA WalkLands ==
    ASSUME NEW t, IsTable(t), IsPowerOfTwo(t.capacity), NEW k \in Key, NEW stops, stops \subseteq Slots(t),
           stops # {}
    PROVE  Landing(t, k, stops) # {}
<1> DEFINE hash == HashOf(k)
           Hits == {n \in Nat : Probe(t, hash, n) \in stops}
<1>1. t.capacity \in Nat \ {0} /\ hash \in Nat
  BY HashOfValid DEF IsTable
<1>2. PICK s \in stops : s \in Slots(t)
  OBVIOUS
<1> HIDE DEF hash
<1>3. PICK n \in 0 .. t.capacity - 1 : Probe(t, hash, n) = s
  BY <1>1, <1>2, ProbesCover
<1>4. n \in Hits /\ n < t.capacity
  BY <1>1, <1>3
<1>5. PICK first \in Hits : \A m \in Hits : first <= m
  <2>1. Hits \subseteq Nat /\ Hits # {}
    BY <1>4
  <2> HIDE DEF Hits
  <2> QED
    BY <2>1, LeastNumber
<1>6. first \in Nat /\ first <= n /\ Probe(t, hash, first) \in stops
  BY <1>4, <1>5
<1>7. first \in 0 .. ProbeCount(t) - 1
  BY <1>1, <1>4, <1>6 DEF ProbeCount
<1>8. \A m \in 0 .. first - 1 : Probe(t, hash, m) \notin stops
  BY <1>5, <1>6
<1> QED
  BY <1>6, <1>7, <1>8 DEF Landing, hash

\* An add goes on for ever only in a full table, a search only without unoccupied slots.
LEMMA LoopsWhenFull ==
    ASSUME NEW t, Good(t), IsPowerOfTwo(t.capacity), NEW k \in Key
    PROVE  /\ Landing(t, k, AddStops(t)) = {} => t.count = t.capacity
           /\ Landing(t, k, GetStops(t, k)) = {} => Unoccupied(t) = {}
           /\ Landing(t, k, RemoveStops(t, k)) = {} => Unoccupied(t) = {}
<1>1. IsTable(t) /\ t.capacity \in Nat \ {0} /\ t.count = Cardinality(Live(t))
  BY DEF Good, IsTable, Counted
<1>2. /\ AddStops(t) \subseteq Slots(t) /\ Unoccupied(t) \subseteq GetStops(t, k)
      /\ GetStops(t, k) \subseteq Slots(t) /\ RemoveStops(t, k) = GetStops(t, k)
  BY RemoveStopsAtKey DEF AddStops, GetStops, LiveOf, Unoccupied, Removed, Live
<1>3. ASSUME AddStops(t) = {} PROVE t.count = t.capacity
  <2>1. \A s \in Slots(t) : s \in Live(t)
    BY <1>1, <1>3, UsedOrNot DEF AddStops
  <2>2. Live(t) = 0 .. t.capacity - 1
    BY <2>1 DEF Live, Slots
  <2>3. t.capacity - 1 \in Int /\ 0 \in Int /\ ~(0 > t.capacity - 1)
    BY <1>1
  <2>4. Cardinality(0 .. t.capacity - 1) = (t.capacity - 1) - 0 + 1
    BY <2>3, FS_Interval
  <2> QED
    BY <1>1, <2>2, <2>4
<1>4. Landing(t, k, AddStops(t)) = {} => AddStops(t) = {}
  BY <1>1, <1>2, WalkLands
<1>5. Landing(t, k, GetStops(t, k)) = {} => GetStops(t, k) = {}
  BY <1>1, <1>2, WalkLands
<1> QED
  BY <1>2, <1>3, <1>4, <1>5

----------------------------------------------------------------------------
(***************************************************************************)
(* The walk turn by turn: what the loop adds to its index, and where the   *)
(* first slot it may stop at is.                                           *)
(***************************************************************************)

\* A multiple of the divisor leaves the remainder as it is.
LEMMA SkipMultiple ==
    ASSUME NEW c \in Nat \ {0}, NEW q \in Nat, NEW z \in Nat
    PROVE  (c * q + z) % c = z % c
<1> DEFINE a == z \div c
           r == z % c
           x == c * q + z
           b == x \div c
           s == x % c
<1>1. a \in Nat /\ r \in 0 .. c - 1 /\ z = c * a + r
  OBVIOUS
<1>2. x \in Nat
  OBVIOUS
<1> HIDE DEF x
<1>3. b \in Nat /\ s \in 0 .. c - 1 /\ x = c * b + s
  BY <1>2
<1> USE DEF x
<1> HIDE DEF a, r, b, s
<1>4. c * b + s = c * q + c * a + r
  BY <1>1, <1>3
<1>5. c * (b - (q + a)) = r - s
  <2>1. c * (b - (q + a)) = c * b - (c * q + c * a)
    BY <1>1, <1>3
  <2>2. c * b \in Nat /\ c * q \in Nat /\ c * a \in Nat
    BY <1>1, <1>3
  <2> QED
    BY <1>1, <1>3, <1>4, <2>1, <2>2
<1>6. b - (q + a) = 0
  <2> DEFINE d == b - (q + a)
  <2>1. d \in Int /\ c * d = r - s
    BY <1>1, <1>3, <1>5
  <2> HIDE DEF d
  <2>2. r - s < c /\ r - s > -c
    BY <1>1, <1>3
  <2>3. ~(d >= 1)
    <3> SUFFICES ASSUME d >= 1 PROVE FALSE
      OBVIOUS
    <3>1. c * d >= c
      BY <2>1
    <3> QED
      BY <2>1, <2>2, <3>1
  <2>4. ~(d <= -1)
    <3> SUFFICES ASSUME d <= -1 PROVE FALSE
      OBVIOUS
    <3>1. c * d <= -c
      BY <2>1
    <3> QED
      BY <2>1, <2>2, <3>1
  <2>5. d = 0
    BY <2>1, <2>3, <2>4
  <2> QED
    BY <2>5 DEF d
<1>7. r = s
  <2>1. c * (b - (q + a)) = 0
    BY <1>6
  <2> QED
    BY <1>1, <1>3, <1>5, <2>1
<1> QED
  BY <1>7 DEF r, s, x

\* Adding remainders and adding numbers comes to the same slot.
LEMMA AddRemainders ==
    ASSUME NEW c \in Nat \ {0}, NEW x \in Nat, NEW y \in Nat
    PROVE  ((x % c) + y) % c = (x + y) % c /\ ((x % c) + (y % c)) % c = (x + y) % c
<1> DEFINE a == x \div c
           r == x % c
           b == y \div c
           s == y % c
<1>1. /\ a \in Nat /\ r \in Nat /\ x = c * a + r
      /\ b \in Nat /\ s \in Nat /\ y = c * b + s
  OBVIOUS
<1> HIDE DEF a, r, b, s
<1>2. (c * a + (r + y)) % c = (r + y) % c
  <2>1. r + y \in Nat
    BY <1>1
  <2> QED
    BY <1>1, <2>1, SkipMultiple, Zenon
<1>3. (c * b + (r + s)) % c = (r + s) % c
  <2>1. r + s \in Nat
    BY <1>1
  <2> QED
    BY <1>1, <2>1, SkipMultiple, Zenon
<1>4. /\ c * a \in Nat /\ c * b \in Nat
      /\ c * a + (r + y) = x + y /\ c * b + (r + s) = r + y
  BY <1>1
<1>5. (r + y) % c = (x + y) % c /\ (r + s) % c = (r + y) % c
  BY <1>2, <1>3, <1>4
<1> QED
  BY <1>5 DEF r, s

\* One turn of the loop goes from a slot of the probe sequence to the next.
LEMMA ProbeNext ==
    ASSUME NEW t, t.capacity \in Nat \ {0}, NEW hash \in Nat, NEW n \in Nat
    PROVE  /\ Probe(t, hash, n) \in Slots(t)
           /\ Probe(t, hash, 0) = hash % t.capacity
           /\ (Probe(t, hash, n) + ((n + 1) % t.capacity)) % t.capacity = Probe(t, hash, n + 1)
<1> DEFINE c == t.capacity
           third == (n * (n + 1)) \div 2
           after == ((n + 1) * (n + 2)) \div 2
<1>1. c \in Nat \ {0} /\ n + 1 \in Nat
  OBVIOUS
<1>2. /\ third \in Nat /\ 2 * third = n * (n + 1)
      /\ after \in Nat /\ 2 * after = (n + 1) * (n + 2)
  <2>1. (n + 1) + 1 = n + 2
    OBVIOUS
  <2> QED
    BY <1>1, <2>1, Triangle
<1>3. Probe(t, hash, n) = (hash + third) % c /\ Probe(t, hash, n + 1) = (hash + after) % c
  <2>1. (n + 1) + 1 = n + 2
    OBVIOUS
  <2> QED
    BY <2>1 DEF Probe
<1>4. Probe(t, hash, 0) = hash % c
  <2>1. (0 * (0 + 1)) \div 2 = 0
    OBVIOUS
  <2>2. hash + 0 = hash
    OBVIOUS
  <2> QED
    BY <2>1, <2>2 DEF Probe
<1> HIDE DEF c, third, after
<1>5. after = third + (n + 1)
  <2>1. (n + 1) * (n + 2) = n * (n + 1) + 2 * (n + 1)
    OBVIOUS
  <2> QED
    BY <1>2, <2>1
<1>6. (((hash + third) % c) + ((n + 1) % c)) % c = ((hash + third) + (n + 1)) % c
  <2>1. hash + third \in Nat
    BY <1>2
  <2> QED
    BY <1>1, <2>1, AddRemainders
<1>7. (hash + third) + (n + 1) = hash + after
  BY <1>2, <1>5
<1>8. (hash + third) % c \in 0 .. c - 1
  <2> DEFINE x == hash + third
  <2>1. x \in Nat
    BY <1>2
  <2> HIDE DEF x
  <2>2. x % c \in 0 .. c - 1
    BY <1>1, <2>1
  <2> QED
    BY <2>2 DEF x
<1> QED
  BY <1>3, <1>4, <1>6, <1>7, <1>8 DEF c, Slots

\* The probe sequence repeats: what it has not met in ProbeCount turns it never meets.
LEMMA ProbeRepeats ==
    ASSUME NEW t, t.capacity \in Nat \ {0}, NEW hash \in Nat, NEW n \in Nat
    PROVE  Probe(t, hash, n + ProbeCount(t)) = Probe(t, hash, n)
<1> DEFINE c == t.capacity
           m == n + 2 * c
           third == (n * (n + 1)) \div 2
           later == (m * (m + 1)) \div 2
           q == 2 * n + 2 * c + 1
<1>1. c \in Nat \ {0} /\ m \in Nat /\ q \in Nat
  OBVIOUS
<1>2. /\ third \in Nat /\ 2 * third = n * (n + 1)
      /\ later \in Nat /\ 2 * later = m * (m + 1)
  <2> HIDE DEF m
  <2> QED
    BY <1>1, Triangle
<1>3. Probe(t, hash, n) = (hash + third) % c /\ Probe(t, hash, m) = (hash + later) % c
  BY DEF Probe
<1>4. m * (m + 1) = n * (n + 1) + 2 * (c * q)
  <2> HIDE DEF c
  <2> QED
    BY <1>1
<1> HIDE DEF third, later, q
<1>5. c * q \in Nat
  <2> HIDE DEF c
  <2> QED
    BY <1>1
<1>6. later = third + c * q
  <2> HIDE DEF c, m
  <2> QED
    BY <1>1, <1>2, <1>4, <1>5
<1>7. (c * q + (hash + third)) % c = (hash + third) % c
  <2>1. hash + third \in Nat
    BY <1>2
  <2> HIDE DEF c
  <2> QED
    BY <1>1, <2>1, SkipMultiple
<1>8. c * q + (hash + third) = hash + later
  <2> HIDE DEF c
  <2> QED
    BY <1>2, <1>5, <1>6
<1> QED
  BY <1>3, <1>7, <1>8 DEF ProbeCount

\* A walk ends at one slot.
LEMMA LandingIsOne ==
    ASSUME NEW t, NEW k, NEW stops, NEW r \in Landing(t, k, stops), NEW s \in Landing(t, k, stops)
    PROVE  r = s
<1>1. PICK m \in 0 .. ProbeCount(t) - 1 :
             /\ Probe(t, HashOf(k), m) = r
             /\ \A l \in 0 .. m - 1 : Probe(t, HashOf(k), l) \notin stops
  BY DEF Landing
<1>2. PICK n \in 0 .. ProbeCount(t) - 1 :
             /\ Probe(t, HashOf(k), n) = s
             /\ \A l \in 0 .. n - 1 : Probe(t, HashOf(k), l) \notin stops
  BY DEF Landing
<1>3. r \in stops /\ s \in stops
  BY DEF Landing
<1>4. m \in Int /\ n \in Int /\ m >= 0 /\ n >= 0
  OBVIOUS
<1>5. ~(m < n)
  BY <1>1, <1>2, <1>3, <1>4
<1>6. ~(n < m)
  BY <1>1, <1>2, <1>3, <1>4
<1> QED BY <1>1, <1>2, <1>4, <1>5, <1>6

\* The first slot met to stop at is where the closed formula says that the walk ends, in
\* whatever turn it is met.
LEMMA LandsHere ==
    ASSUME NEW t, t.capacity \in Nat \ {0}, NEW k \in Key, NEW stops, NEW n \in Nat,
           Probe(t, HashOf(k), n) \in stops,
           \A m \in 0 .. n - 1 : Probe(t, HashOf(k), m) \notin stops
    PROVE  Landing(t, k, stops) = {Probe(t, HashOf(k), n)}
<1> DEFINE hash == HashOf(k)
<1>1. hash \in Nat
  BY HashOfValid
<1> HIDE DEF hash
<1>2. ProbeCount(t) \in Nat \ {0}
  BY DEF ProbeCount
<1>3. n < ProbeCount(t)
  <2> SUFFICES ASSUME ~(n < ProbeCount(t)) PROVE FALSE
    OBVIOUS
  <2> DEFINE m == n - ProbeCount(t)
  <2>1. m \in Nat /\ m \in 0 .. n - 1 /\ m + ProbeCount(t) = n
    BY <1>2
  <2> HIDE DEF m
  <2>2. Probe(t, hash, m) = Probe(t, hash, n)
    BY <1>1, <2>1, ProbeRepeats
  <2> QED
    BY <2>1, <2>2 DEF hash
<1>4. Probe(t, hash, n) \in Landing(t, k, stops)
  <2>1. n \in 0 .. ProbeCount(t) - 1
    BY <1>2, <1>3
  <2> QED
    BY <2>1 DEF Landing, hash
<1> QED
  BY <1>4, LandingIsOne DEF hash

\* A walk that meets a slot to stop at ends.
LEMMA MeetingLands ==
    ASSUME NEW t, t.capacity \in Nat \ {0}, NEW k \in Key, NEW stops, NEW n \in Nat,
           Probe(t, HashOf(k), n) \in stops
    PROVE  Landing(t, k, stops) # {}
<1> DEFINE Hits == {m \in Nat : Probe(t, HashOf(k), m) \in stops}
<1>1. PICK first \in Hits : \A m \in Hits : first <= m
  <2>1. Hits \subseteq Nat /\ Hits # {}
    OBVIOUS
  <2> HIDE DEF Hits
  <2> QED
    BY <2>1, LeastNumber
<1>2. first \in Nat /\ Probe(t, HashOf(k), first) \in stops
  OBVIOUS
<1>3. \A m \in 0 .. first - 1 : Probe(t, HashOf(k), m) \notin stops
  BY <1>1, <1>2
<1>4. Landing(t, k, stops) = {Probe(t, HashOf(k), first)}
  BY <1>2, <1>3, LandsHere
<1> QED
  BY <1>4

\* A live element stops the removal of its key.
LEMMA LiveStopsRemoval ==
    ASSUME NEW t, Good(t), NEW s \in Live(t)
    PROVE  t.elements[s].key \in Key /\ Landing(t, t.elements[s].key, RemoveStops(t, t.elements[s].key)) # {}
<1> DEFINE k == t.elements[s].key
<1>1. t.elements[s].hash = HashOf(k) /\ s \in Slots(t) /\ IsTable(t) /\ t.capacity \in Nat \ {0}
  BY DEF Good, Reachable, Live, IsTable
<1>2. PICK n \in 0 .. ProbeCount(t) - 1 : Probe(t, t.elements[s].hash, n) = s
  BY DEF Good, Reachable
<1>3. k \in Key
  BY <1>1 DEF IsTable, Live, FIRST_VALID, UNOCCUPIED, Element
<1>4. s \in RemoveStops(t, k)
  BY <1>1 DEF RemoveStops, LiveOf
<1>5. n \in Nat /\ Probe(t, HashOf(k), n) \in RemoveStops(t, k)
  BY <1>1, <1>2, <1>4
<1> HIDE DEF k
<1>6. Landing(t, k, RemoveStops(t, k)) # {}
  BY <1>1, <1>3, <1>5, MeetingLands
<1> QED
  BY <1>3, <1>6 DEF k

----------------------------------------------------------------------------
(***************************************************************************)
(* Sums over finite sets.                                                  *)
(***************************************************************************)

Pick(S) == CHOOSE x \in S : TRUE

\* A function that adds up f over the subsets of T, an element at a time.
Adds(g, f, T) ==
    \A S \in SUBSET T : g[S] = IF S = {} THEN 0 ELSE f[Pick(S)] + g[S \ {Pick(S)}]

IsSum(g, f, T) ==
    g = [S \in SUBSET T |-> IF S = {} THEN 0 ELSE f[Pick(S)] + g[S \ {Pick(S)}]]

LEMMA PickIsIn ==
    ASSUME NEW S, S # {}
    PROVE  Pick(S) \in S
BY DEF Pick

LEMMA SubsetSizes ==
    ASSUME NEW T, IsFiniteSet(T), NEW S \in SUBSET T
    PROVE  /\ IsFiniteSet(S) /\ Cardinality(S) \in Nat
           /\ Cardinality(S) <= Cardinality(T)
           /\ Cardinality(S) = 0 <=> S = {}
           /\ \A x \in S : S \ {x} \in SUBSET T /\ Cardinality(S \ {x}) = Cardinality(S) - 1
<1>1. IsFiniteSet(S) /\ Cardinality(S) <= Cardinality(T)
  BY FS_Subset
<1>2. \A x \in S : Cardinality(S \ {x}) = Cardinality(S) - 1
  BY <1>1, FS_RemoveElement
<1> QED BY <1>1, <1>2, FS_CardinalityType, FS_EmptySet

\* There is one.
LEMMA AddsExists ==
    ASSUME NEW T, IsFiniteSet(T), NEW f
    PROVE  \E g : IsSum(g, f, T)
<1> DEFINE Sets(n) == {S \in SUBSET T : Cardinality(S) <= n}
           Sums(n, g) == g = [S \in Sets(n) |->
                                IF S = {} THEN 0 ELSE f[Pick(S)] + g[S \ {Pick(S)}]]
           Done == {n \in Nat : \E g : Sums(n, g)}
<1>1. \A S \in SUBSET T : IsFiniteSet(S) /\ Cardinality(S) \in Nat
  BY FS_Subset, FS_CardinalityType
<1>2. \A S \in SUBSET T : S # {} => /\ S \ {Pick(S)} \in SUBSET T
                                    /\ Cardinality(S \ {Pick(S)}) = Cardinality(S) - 1
                                    /\ Cardinality(S) # 0
  BY PickIsIn, SubsetSizes
<1>3. 0 \in Done
  <2> DEFINE g == [S \in Sets(0) |-> 0]
  <2>1. \A S \in Sets(0) : S = {}
    <3> SUFFICES ASSUME NEW S \in SUBSET T, Cardinality(S) <= 0 PROVE S = {}
      OBVIOUS
    <3> QED BY SubsetSizes
  <2>2. Sums(0, g)
    BY <2>1
  <2> QED BY <2>2
<1>4. ASSUME NEW n \in Nat, n \in Done PROVE n + 1 \in Done
  <2>1. PICK g : Sums(n, g)
    BY <1>4
  <2> DEFINE next(k, S) == IF S = {} THEN 0 ELSE f[Pick(S)] + k[S \ {Pick(S)}]
             h == [S \in Sets(n + 1) |-> next(g, S)]
  <2>2. \A S \in Sets(n) : S \in Sets(n + 1) /\ g[S] = next(g, S)
    <3>1. \A S \in Sets(n) : S \in Sets(n + 1)
      BY <1>1
    <3> QED BY <2>1, <3>1
  <2>3. \A S \in Sets(n) : h[S] = g[S]
    BY <2>2
  <2>4. \A S \in Sets(n + 1) : S # {} => S \ {Pick(S)} \in Sets(n)
    BY <1>1, <1>2
  <2>5. \A S \in Sets(n + 1) : h[S] = next(h, S)
    <3> SUFFICES ASSUME NEW S \in Sets(n + 1) PROVE h[S] = next(h, S)
      OBVIOUS
    <3>1. h[S] = next(g, S)
      OBVIOUS
    <3>2. S # {} => h[S \ {Pick(S)}] = g[S \ {Pick(S)}]
      BY <2>3, <2>4
    <3> HIDE DEF h
    <3> QED BY <3>1, <3>2
  <2>6. Sums(n + 1, h)
    <3>1. h = [S \in Sets(n + 1) |-> h[S]]
      OBVIOUS
    <3> HIDE DEF h, Sets
    <3> QED BY <2>5, <3>1
  <2> HIDE DEF h, Sums
  <2> QED BY <2>6
<1> HIDE DEF Done
<1>5. Cardinality(T) \in Done
  BY <1>1, <1>3, <1>4, AllNumbers
<1>6. PICK g : Sums(Cardinality(T), g)
  BY <1>5 DEF Done
<1>7. Sets(Cardinality(T)) = SUBSET T
  BY <1>1, FS_Subset
<1> QED BY <1>6, <1>7 DEF IsSum

\* The order does not matter: any element can be the first.
LEMMA AddsAny ==
    ASSUME NEW T, IsFiniteSet(T), NEW f, \A x \in T : f[x] \in Nat, NEW g, Adds(g, f, T)
    PROVE  /\ g[{}] = 0
           /\ \A S \in SUBSET T : g[S] \in Nat /\ \A x \in S : g[S] = f[x] + g[S \ {x}]
<1> DEFINE Right(S) == g[S] \in Nat /\ \A x \in S : g[S] = f[x] + g[S \ {x}]
           Done == {n \in Nat : \A S \in SUBSET T : Cardinality(S) <= n => Right(S)}
<1>1. \A S \in SUBSET T : IsFiniteSet(S) /\ Cardinality(S) \in Nat
  BY FS_Subset, FS_CardinalityType
<1>2. g[{}] = 0
  BY DEF Adds
<1>3. 0 \in Done
  <2>1. \A S \in SUBSET T : Cardinality(S) <= 0 => S = {}
    BY <1>1, FS_EmptySet
  <2> QED BY <1>2, <2>1
<1>4. ASSUME NEW n \in Nat, n \in Done PROVE n + 1 \in Done
  <2> SUFFICES ASSUME NEW S \in SUBSET T, Cardinality(S) = n + 1 PROVE Right(S)
    <3>1. ASSUME NEW S \in SUBSET T, Cardinality(S) <= n + 1, Cardinality(S) # n + 1
          PROVE  Right(S)
      <4>1. Cardinality(S) <= n
        BY <1>1, <3>1
      <4> HIDE DEF Right
      <4> QED BY <1>4, <4>1
    <3> HIDE DEF Right
    <3> QED BY <3>1
  <2>1. S # {}
    BY SubsetSizes
  <2>2. \A x \in S : S \ {x} \in SUBSET T /\ Cardinality(S \ {x}) = n
    <3>1. \A x \in S : S \ {x} \in SUBSET T /\ Cardinality(S \ {x}) = Cardinality(S) - 1
      BY SubsetSizes
    <3> QED BY <3>1
  <2>3. \A x \in S : Right(S \ {x})
    BY <1>4, <2>2
  <2> DEFINE c == Pick(S)
  <2>4. c \in S /\ g[S] = f[c] + g[S \ {c}]
    BY <2>1, PickIsIn DEF Adds
  <2> HIDE DEF c
  <2>5. g[S] \in Nat
    BY <2>3, <2>4
  <2>6. ASSUME NEW x \in S, x # c PROVE g[S] = f[x] + g[S \ {x}]
    <3>1. g[S \ {c}] = f[x] + g[(S \ {c}) \ {x}]
      BY <2>3, <2>4, <2>6
    <3>2. g[S \ {x}] = f[c] + g[(S \ {x}) \ {c}]
      BY <2>3, <2>4, <2>6
    <3>3. (S \ {x}) \ {c} = (S \ {c}) \ {x}
      OBVIOUS
    <3>4. g[S \ {x}] \in Nat /\ g[S \ {c}] \in Nat /\ f[x] \in Nat /\ f[c] \in Nat
      BY <2>3, <2>4
    <3>5. g[(S \ {c}) \ {x}] \in Nat
      <4>1. x \in S \ {c} /\ S \ {c} \in SUBSET T
        BY <2>6
      <4>2. Cardinality((S \ {c}) \ {x}) = n - 1 /\ (S \ {c}) \ {x} \in SUBSET T
        <5>1. /\ (S \ {c}) \ {x} \in SUBSET T
              /\ Cardinality((S \ {c}) \ {x}) = Cardinality(S \ {c}) - 1
          <6>1. ASSUME NEW R \in SUBSET T, NEW y \in R
                PROVE  R \ {y} \in SUBSET T /\ Cardinality(R \ {y}) = Cardinality(R) - 1
            BY SubsetSizes
          <6> QED BY <4>1, <6>1
        <5> QED BY <2>2, <2>4, <5>1
      <4>3. n - 1 <= n
        OBVIOUS
      <4> QED BY <1>4, <4>2, <4>3
    <3> DEFINE rest == g[(S \ {c}) \ {x}]
               fc == f[c]
               fx == f[x]
               gc == g[S \ {c}]
               gx == g[S \ {x}]
    <3>6. rest \in Nat /\ fc \in Nat /\ fx \in Nat /\ gc = fx + rest /\ gx = fc + rest
          /\ g[S] = fc + gc
      BY <2>4, <3>1, <3>2, <3>3, <3>4, <3>5
    <3> HIDE DEF rest, fc, fx, gc, gx
    <3>7. g[S] = fx + gx
      BY <3>6
    <3> QED BY <3>7 DEF fx, gx
  <2> QED BY <2>4, <2>5, <2>6
<1> HIDE DEF Done
<1>5. \A n \in Nat : n \in Done
  BY <1>3, <1>4, AllNumbers
<1>6. ASSUME NEW S \in SUBSET T PROVE Right(S)
  <2>1. Cardinality(S) \in Done
    BY <1>1, <1>5
  <2> QED BY <2>1 DEF Done
<1> QED BY <1>2, <1>6

\* Nothing but the elements matters.
LEMMA AddsAlike ==
    ASSUME NEW T, IsFiniteSet(T), NEW f, \A x \in T : f[x] \in Nat, NEW g, Adds(g, f, T),
           NEW U, IsFiniteSet(U), NEW e, \A x \in U : e[x] \in Nat, NEW h, Adds(h, e, U)
    PROVE  \A S \in SUBSET T : (S \in SUBSET U /\ \A x \in S : e[x] = f[x]) => h[S] = g[S]
<1> DEFINE Sets == {S \in SUBSET T : S \in SUBSET U /\ \A x \in S : e[x] = f[x]}
           Done == {n \in Nat : \A S \in Sets : Cardinality(S) = n => h[S] = g[S]}
<1>1. \A S \in Sets : IsFiniteSet(S) /\ Cardinality(S) \in Nat
  BY FS_Subset, FS_CardinalityType
<1>2. 0 \in Done
  <2>1. \A S \in Sets : Cardinality(S) = 0 => S = {}
    BY <1>1, FS_EmptySet
  <2>2. h[{}] = 0 /\ g[{}] = 0
    BY DEF Adds
  <2> QED BY <2>1, <2>2
<1>3. ASSUME NEW n \in Nat, n \in Done PROVE n + 1 \in Done
  <2> SUFFICES ASSUME NEW S \in Sets, Cardinality(S) = n + 1 PROVE h[S] = g[S]
    OBVIOUS
  <2> DEFINE c == Pick(S)
  <2>0. S \in SUBSET T /\ S \in SUBSET U
    OBVIOUS
  <2>1. S # {}
    BY <2>0, SubsetSizes
  <2>2. c \in S /\ g[S] = f[c] + g[S \ {c}] /\ h[S] = e[c] + h[S \ {c}]
    <3>1. c \in S
      BY <2>1, PickIsIn
    <3>2. g[S] = f[c] + g[S \ {c}]
      BY <2>0, <2>1 DEF Adds
    <3>3. h[S] = e[c] + h[S \ {c}]
      BY <2>0, <2>1 DEF Adds
    <3> QED BY <3>1, <3>2, <3>3
  <2> HIDE DEF c
  <2>3. S \ {c} \in Sets /\ Cardinality(S \ {c}) = n
    <3>1. S \ {c} \in Sets
      BY <2>0
    <3>2. Cardinality(S \ {c}) = Cardinality(S) - 1
      BY <2>0, <2>2, SubsetSizes, ZenonT(40)
    <3> QED BY <3>1, <3>2
  <2>4. h[S \ {c}] = g[S \ {c}]
    BY <1>3, <2>3
  <2>5. e[c] = f[c]
    BY <2>2
  <2> QED BY <2>2, <2>4, <2>5
<1> HIDE DEF Done
<1>4. \A n \in Nat : n \in Done
  BY <1>2, <1>3, AllNumbers
<1>5. ASSUME NEW S \in Sets PROVE h[S] = g[S]
  <2>1. Cardinality(S) \in Done
    BY <1>1, <1>4
  <2> QED BY <2>1 DEF Done
<1> QED BY <1>5
====
