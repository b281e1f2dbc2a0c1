---- MODULE Ini_proofs ----
(***************************************************************************)
(* Theorems about Ini: for every text, and every capacity the arrays begin *)
(* with.                                                                   *)
(***************************************************************************)
EXTENDS Ini, SequenceTheorems, NaturalsInduction, WellFoundedInduction, TLAPS

(***************************************************************************)
(* The inductive invariant. Nothing is said of the words a section is made *)
(* of; a list is a sequence of whatever is in it.                          *)
(***************************************************************************)
IsList(s) == s \in Seq(Range(s))

Owned(section) ==
    /\ section = [decl |-> section.decl, name |-> section.name, fields |-> section.fields,
                  capacity |-> section.capacity, content_start |-> section.content_start,
                  content_end |-> section.content_end]
    /\ IsList(section.fields)
    /\ section.capacity \in Nat \ {0}
    /\ Len(section.fields) <= section.capacity

AllOwned(s) == IsList(s) /\ \A section \in Range(s) : Owned(section)

\* Calls are open only while the parser runs.
CallsOpen == stack # << >> => pc \in {"parse", "return"}

Counted == blocks = IF pc \in {"ready", "destroyed"} THEN 0 ELSE 2 + Len(stack) + Len(sections.data)

SectionsFit ==
    /\ sections = [data |-> sections.data, capacity |-> sections.capacity]
    /\ sections.capacity \in Nat \ {0}
    /\ Len(sections.data) <= sections.capacity

IInv ==
    /\ pc \in {"ready", "parse", "return", "parsed", "destroyed"}
    /\ Owned(global)
    /\ AllOwned(stack)
    /\ AllOwned(sections.data)
    /\ SectionsFit
    /\ CallsOpen
    /\ Counted

----------------------------------------------------------------------------
\* Lists.

LEMMA EmptyIsList == IsList(<< >>) /\ Len(<< >>) = 0 /\ Range(<< >>) = {}
<1>1. Len(<< >>) = 0 /\ DOMAIN << >> = {}
  BY SMT
<1>2. Range(<< >>) = {}
  BY <1>1 DEF Range
<1>3. << >> \in Seq({})
  BY EmptySeq
<1> QED BY <1>1, <1>2, <1>3 DEF IsList

LEMMA LenOfList ==
    ASSUME NEW s, IsList(s)
    PROVE  Len(s) \in Nat /\ DOMAIN s = 1 .. Len(s) /\ (s # << >> => Len(s) # 0)
<1>1. Len(s) \in Nat /\ DOMAIN s = 1 .. Len(s)
  BY LenProperties DEF IsList
<1>2. s # << >> => Len(s) \in Nat \ {0}
  BY EmptySeq DEF IsList
<1> QED BY <1>1, <1>2

LEMMA AppendToList ==
    ASSUME NEW s, IsList(s), NEW e
    PROVE  /\ IsList(Append(s, e))
           /\ Len(Append(s, e)) = Len(s) + 1
           /\ Range(Append(s, e)) \subseteq Range(s) \cup {e}
<1> DEFINE T == Range(s) \cup {e}
<1>1. s \in Seq(T) /\ e \in T
  BY SeqMonotonic DEF IsList
<1>2. Append(s, e) \in Seq(T) /\ Len(Append(s, e)) = Len(s) + 1
  BY <1>1, AppendProperties
<1>3. Append(s, e) \in Seq(Range(Append(s, e))) /\ Range(Append(s, e)) \subseteq T
  BY <1>2, SeqOfRange, RangeOfSeq
<1> QED BY <1>2, <1>3 DEF IsList

LEMMA FrontOfList ==
    ASSUME NEW s, IsList(s), s # << >>
    PROVE  /\ IsList(Front(s))
           /\ Len(Front(s)) = Len(s) - 1
           /\ Range(Front(s)) \subseteq Range(s)
           /\ Last(s) \in Range(s)
<1>1. Len(s) \in Nat /\ Len(s) # 0 /\ DOMAIN s = 1 .. Len(s)
  BY LenOfList
<1>2. \A i \in 1 .. Len(s) : s[i] \in Range(s)
  BY <1>1 DEF Range
<1>3. Front(s) \in Seq(Range(s)) /\ Len(Front(s)) = Len(s) - 1
  BY <1>1, <1>2, SubSeqProperties DEF Front
<1>4. IsList(Front(s)) /\ Range(Front(s)) \subseteq Range(s)
  BY <1>3, SeqOfRange, RangeOfSeq DEF IsList
<1>5. Last(s) \in Range(s)
  BY <1>1, <1>2 DEF Last
<1> QED BY <1>3, <1>4, <1>5

LEMMA AppendOwned ==
    ASSUME NEW s, AllOwned(s), NEW section, Owned(section)
    PROVE  AllOwned(Append(s, section)) /\ Len(Append(s, section)) = Len(s) + 1
  BY AppendToList DEF AllOwned

LEMMA FrontOwned ==
    ASSUME NEW s, AllOwned(s), s # << >>
    PROVE  AllOwned(Front(s)) /\ Len(Front(s)) = Len(s) - 1 /\ Owned(Last(s)) /\ Len(s) \in Nat
  BY FrontOfList, LenOfList DEF AllOwned

----------------------------------------------------------------------------
\* Sections.

\* An array that is enlarged when it is full has room for one more element.
LEMMA RoomIsEnough ==
    ASSUME NEW capacity \in Nat \ {0}, NEW count \in Nat, count <= capacity
    PROVE  Room(count, capacity) \in Nat \ {0} /\ count + 1 <= Room(count, capacity)
  BY SMT DEF Room

LEMMA RecordIsOwned ==
    ASSUME NEW decl, NEW name, NEW fields, NEW capacity, NEW start, NEW end,
           IsList(fields), capacity \in Nat \ {0}, Len(fields) <= capacity
    PROVE  Owned([decl |-> decl, name |-> name, fields |-> fields, capacity |-> capacity,
                  content_start |-> start, content_end |-> end])
  BY DEF Owned

\* What two exceptions make of a record.
LEMMA WithFields ==
    ASSUME NEW d, NEW n, NEW f, NEW c, NEW a, NEW z, NEW fields, NEW room, NEW section,
           section = [decl |-> d, name |-> n, fields |-> f, capacity |-> c,
                      content_start |-> a, content_end |-> z]
    PROVE  [section EXCEPT !.fields = fields, !.capacity = room] =
               [decl |-> d, name |-> n, fields |-> fields, capacity |-> room,
                content_start |-> a, content_end |-> z]
<1> DEFINE once == [section EXCEPT !.fields = fields]
<1>1. once = [decl |-> d, name |-> n, fields |-> fields, capacity |-> c,
              content_start |-> a, content_end |-> z]
  OBVIOUS
<1>2. [section EXCEPT !.fields = fields, !.capacity = room] = [once EXCEPT !.capacity = room]
  OBVIOUS
<1> HIDE DEF once
<1>3. [once EXCEPT !.capacity = room] =
        [decl |-> d, name |-> n, fields |-> fields, capacity |-> room,
         content_start |-> a, content_end |-> z]
  BY <1>1
<1> QED BY Zenon, <1>2, <1>3

LEMMA InitialRoom == InitCapacity \in Nat \ {0} /\ Len(<< >>) <= InitCapacity
<1>1. InitCapacity \in Nat \ {0}
  BY Zenon, IniAssumption
<1> QED BY <1>1, EmptyIsList

LEMMA NewIsOwned ==
    ASSUME NEW decl, NEW name
    PROVE  Owned(Section(decl, name))
<1> QED BY EmptyIsList, InitialRoom, RecordIsOwned DEF Section

Moved(section, start, end) == [section EXCEPT !.content_end = end, !.content_start = start]

LEMMA MovedIsOwned ==
    ASSUME NEW section, Owned(section), NEW start, NEW end
    PROVE  Owned(Moved(section, start, end))
<1>1. PICK d, n, f, c, a, z :
        section = [decl |-> d, name |-> n, fields |-> f, capacity |-> c,
                   content_start |-> a, content_end |-> z]
  BY Zenon DEF Owned
<1>2. IsList(f) /\ c \in Nat \ {0} /\ Len(f) <= c
  BY <1>1 DEF Owned
<1> DEFINE once == [section EXCEPT !.content_end = end]
<1>3. once = [decl |-> d, name |-> n, fields |-> f, capacity |-> c,
              content_start |-> a, content_end |-> end]
  BY <1>1
<1>4. Moved(section, start, end) = [once EXCEPT !.content_start = start]
  BY DEF Moved
<1> HIDE DEF once
<1>5. [once EXCEPT !.content_start = start] =
        [decl |-> d, name |-> n, fields |-> f, capacity |-> c,
         content_start |-> start, content_end |-> end]
  BY <1>3
<1>6. Owned([once EXCEPT !.content_start = start])
  BY <1>2, <1>5, RecordIsOwned
<1> QED BY Zenon, <1>4, <1>6

LEMMA EndedIsOwned ==
    ASSUME NEW section, Owned(section), NEW end
    PROVE  Owned(Ended(section, end))
<1> DEFINE start == IF stack # << >> /\ section.fields = << >> THEN end ELSE section.content_start
<1>1. Ended(section, end) = Moved(section, start, end)
  BY Zenon DEF Ended, Moved
<1>2. Owned(Moved(section, start, end))
  BY Zenon, MovedIsOwned
<1> QED BY Zenon, <1>1, <1>2

LEMMA BegunIsOwned ==
    ASSUME NEW section, Owned(section), NEW name
    PROVE  Owned(Begun(section, name))
<1>1. PICK d, n, f, c, a, z :
        section = [decl |-> d, name |-> n, fields |-> f, capacity |-> c,
                   content_start |-> a, content_end |-> z]
  BY Zenon DEF Owned
<1>2. IsList(f) /\ c \in Nat \ {0} /\ Len(f) <= c
  BY <1>1 DEF Owned
<1>3. [section EXCEPT !.content_start = name[1]] =
        [decl |-> d, name |-> n, fields |-> f, capacity |-> c,
         content_start |-> name[1], content_end |-> z]
  BY <1>1
<1>4. Owned([section EXCEPT !.content_start = name[1]])
  BY <1>2, <1>3, RecordIsOwned
<1> QED BY <1>4 DEF Begun

LEMMA WithFieldIsOwned ==
    ASSUME NEW section, Owned(section), NEW name, NEW value
    PROVE  Owned(WithField(section, name, value))
<1>1. PICK d, n, f, c, a, z :
        section = [decl |-> d, name |-> n, fields |-> f, capacity |-> c,
                   content_start |-> a, content_end |-> z]
  BY Zenon DEF Owned
<1>2. IsList(f) /\ c \in Nat \ {0} /\ Len(f) <= c
  BY <1>1 DEF Owned
<1> DEFINE fields == Append(f, [name |-> name, value |-> value])
           room   == Room(Len(f), c)
<1>3. Len(f) \in Nat
  BY <1>2, LenOfList
<1>4. room \in Nat \ {0} /\ Len(f) + 1 <= room
  BY <1>2, <1>3, RoomIsEnough
<1>5. IsList(fields) /\ Len(fields) = Len(f) + 1
  BY <1>2, AppendToList
<1>6. WithField(section, name, value) =
        [decl |-> d, name |-> n, fields |-> fields, capacity |-> room,
         content_start |-> a, content_end |-> z]
  <2>1. section.fields = f /\ section.capacity = c
    BY <1>1
  <2>2. WithField(section, name, value) = [section EXCEPT !.fields = fields, !.capacity = room]
    BY Zenon, <2>1 DEF WithField
  <2> HIDE DEF fields, room
  <2> QED BY Zenon, <1>1, <2>2, WithFields
<1> HIDE DEF fields, room
<1>7. Len(fields) <= room
  BY <1>4, <1>5
<1> QED BY <1>4, <1>5, <1>6, <1>7, RecordIsOwned

----------------------------------------------------------------------------
\* The section that is being parsed.

LEMMA CurrentIsOwned ==
    ASSUME IInv
    PROVE  Owned(Current)
  BY FrontOwned DEF IInv, Current

LEMMA BecomesOwned ==
    ASSUME IInv, NEW section, Owned(section), Becomes(section)
    PROVE  Owned(global') /\ AllOwned(stack') /\ Len(stack') = Len(stack) /\ (stack' # << >> => stack # << >>)
<1>1. CASE stack = << >>
  BY <1>1 DEF IInv, Becomes
<1>2. CASE stack # << >>
  <2>1. AllOwned(Front(stack)) /\ Len(Front(stack)) = Len(stack) - 1 /\ Len(stack) \in Nat
    BY <1>2, FrontOwned DEF IInv
  <2>2. stack' = Append(Front(stack), section) /\ global' = global
    BY <1>2 DEF Becomes
  <2>3. AllOwned(stack') /\ Len(stack') = Len(Front(stack)) + 1
    BY <2>1, <2>2, AppendOwned
  <2> QED BY <1>2, <2>1, <2>2, <2>3 DEF IInv
<1> QED BY <1>1, <1>2

----------------------------------------------------------------------------
LEMMA InvInit == Init => IInv
<1> SUFFICES ASSUME Init PROVE IInv
  OBVIOUS
<1>1. Owned(global)
  BY NewIsOwned DEF Init
<1>2. AllOwned(<< >>)
  BY EmptyIsList DEF AllOwned
<1>3. SectionsFit
  BY InitialRoom DEF Init, SectionsFit
<1>4. AllOwned(stack) /\ AllOwned(sections.data)
  BY <1>2 DEF Init
<1> QED BY <1>1, <1>3, <1>4 DEF Init, IInv, CallsOpen, Counted

\* The parts of IInv that the sections, and no array, decide.
LEMMA SameArray ==
    ASSUME IInv, UNCHANGED sections
    PROVE  SectionsFit' /\ AllOwned(sections.data)' /\ Len(sections.data) \in Nat
<1>1. Len(sections.data) \in Nat
  BY LenOfList DEF IInv, AllOwned
<1> QED BY <1>1 DEF IInv, SectionsFit

LEMMA LenOfStack ==
    ASSUME IInv
    PROVE  Len(stack) \in Nat /\ Len(sections.data) \in Nat /\ (stack = << >> => Len(stack) = 0)
<1>1. Len(stack) \in Nat /\ Len(sections.data) \in Nat
  BY LenOfList DEF IInv, AllOwned
<1> QED BY <1>1, EmptyIsList

LEMMA OneMore == \A n, m \in Nat : (2 + n + m) + 1 = 2 + (n + 1) + m
  BY SMT

LEMMA OneMoved == \A n, m \in Nat : 2 + n + m = 2 + (n - 1) + (m + 1)
  BY SMT

LEMMA InvParseBegin == IInv /\ ParseBegin => IInv'
<1> SUFFICES ASSUME IInv, ParseBegin PROVE IInv'
  OBVIOUS
<1>1. stack = << >> /\ stack' = << >>
  BY DEF IInv, CallsOpen, ParseBegin
<1>2. Owned(global)'
  <2>1. global' = Moved(Section(NoWord, NoWord), 1, 1)
    BY Zenon DEF ParseBegin, Moved
  <2>2. Owned(Section(NoWord, NoWord))
    BY NewIsOwned
  <2>3. Owned(global')
    BY Zenon, <2>1, <2>2, MovedIsOwned
  <2> QED BY <2>3 DEF Owned
<1>3. AllOwned(<< >>)
  BY EmptyIsList DEF AllOwned
<1>4. sections'.data = << >> /\ sections' = [data |-> << >>, capacity |-> InitCapacity]
  BY DEF ParseBegin
<1>5. SectionsFit' /\ AllOwned(sections.data)' /\ AllOwned(stack)'
  BY <1>1, <1>3, <1>4, InitialRoom DEF SectionsFit, AllOwned
<1>6. Counted'
  BY <1>1, <1>4, EmptyIsList DEF IInv, ParseBegin, Counted
<1> QED BY <1>1, <1>2, <1>5, <1>6 DEF IInv, ParseBegin, CallsOpen

LEMMA InvParseEntry == IInv /\ ParseEntry => IInv'
<1> SUFFICES ASSUME IInv, ParseEntry PROVE IInv'
  OBVIOUS
<1> DEFINE name    == Token(index)
           op      == Token(name.next)
           value   == Token(op.next)
           section == Begun(Current, name.at)
           longer  == WithField(section, name.at, value.at)
<1>1. Owned(section) /\ Owned(longer)
  BY CurrentIsOwned, BegunIsOwned, WithFieldIsOwned
<1>2. /\ pc = "parse" /\ pc' \in {"parse", "return"}
      /\ UNCHANGED <<sections, blocks>>
      /\ Becomes(longer) \/ Becomes(section)
  BY DEF ParseEntry, Stops, GoesOn
<1> HIDE DEF section, longer
<1>3. Owned(global') /\ AllOwned(stack') /\ Len(stack') = Len(stack)
  BY <1>1, <1>2, BecomesOwned
<1>4. Owned(global)' /\ AllOwned(stack)'
  BY <1>3 DEF Owned, AllOwned
<1>5. Counted'
  BY <1>2, <1>3 DEF IInv, Counted
<1> QED BY <1>2, <1>4, <1>5, SameArray DEF IInv, CallsOpen

LEMMA InvParseSection == IInv /\ ParseSection => IInv'
<1> SUFFICES ASSUME IInv, ParseSection PROVE IInv'
  OBVIOUS
<1> DEFINE open  == Token(index)
           name  == Token(open.next)
           close == Token(name.next)
           ended == Ended(Current, Before(open.at[1]))
           outer == IF stack = << >> THEN stack ELSE Append(Front(stack), ended)
           found == Section(<<open.at[1], close.at[1]>>, name.at)
<1>1. Owned(ended) /\ Owned(found)
  BY CurrentIsOwned, EndedIsOwned, NewIsOwned
<1>2. /\ pc = "parse"
      /\ UNCHANGED sections
      /\ global' = (IF stack = << >> THEN ended ELSE global)
      /\ \/ stack' = Append(outer, found) /\ blocks' = blocks + 1 /\ pc' = "parse"
         \/ stack' = outer /\ blocks' = blocks /\ pc' = "return"
  BY DEF ParseSection, Stops, GoesOn
<1> HIDE DEF ended, found
<1>3. Owned(global') /\ AllOwned(outer) /\ Len(outer) = Len(stack) /\ Len(stack) \in Nat
  <2>1. CASE stack = << >>
    BY <1>1, <1>2, <2>1, LenOfStack DEF IInv
  <2>2. CASE stack # << >>
    <3>1. AllOwned(Front(stack)) /\ Len(Front(stack)) = Len(stack) - 1 /\ Len(stack) \in Nat
      BY <2>2, FrontOwned DEF IInv
    <3>2. outer = Append(Front(stack), ended) /\ global' = global
      BY <1>2, <2>2
    <3>3. AllOwned(outer) /\ Len(outer) = Len(Front(stack)) + 1
      BY <1>1, <3>1, <3>2, AppendOwned
    <3> QED BY <3>1, <3>2, <3>3 DEF IInv
  <2> QED BY <2>1, <2>2
<1> HIDE DEF outer
<1>4. AllOwned(stack') /\ Counted'
  <2>1. CASE stack' = Append(outer, found) /\ blocks' = blocks + 1 /\ pc' = "parse"
    <3>1. AllOwned(stack') /\ Len(stack') = Len(stack) + 1
      BY <1>1, <1>3, <2>1, AppendOwned
    <3>2. blocks = 2 + Len(stack) + Len(sections.data) /\ Len(sections.data) \in Nat
      BY <1>2, LenOfStack DEF IInv, Counted
    <3>3. blocks' = 2 + Len(stack') + Len(sections'.data)
      <4>1. Len(stack') = Len(stack) + 1 /\ Len(sections'.data) = Len(sections.data)
        BY <1>2, <1>3, <3>1
      <4>2. blocks' = (2 + Len(stack) + Len(sections.data)) + 1
        BY <2>1, <3>2
      <4> QED BY <1>3, <3>2, <4>1, <4>2, OneMore
    <3>4. pc' \notin {"ready", "destroyed"}
      BY <2>1
    <3> QED BY <3>1, <3>3, <3>4 DEF Counted
  <2>2. CASE stack' = outer /\ blocks' = blocks /\ pc' = "return"
    BY <1>2, <1>3, <2>2 DEF IInv, Counted
  <2> QED BY <1>2, <2>1, <2>2
<1>5. Owned(global)' /\ AllOwned(stack)'
  BY <1>3, <1>4 DEF Owned, AllOwned
<1>6. pc' \in {"parse", "return"}
  BY <1>2
<1> QED BY <1>2, <1>4, <1>5, <1>6, SameArray DEF IInv, CallsOpen

LEMMA InvParseEnd == IInv /\ ParseEnd => IInv'
<1> SUFFICES ASSUME IInv, ParseEnd PROVE IInv'
  OBVIOUS
<1>1. /\ pc = "parse" /\ pc' = "return"
      /\ UNCHANGED <<sections, blocks>>
      /\ Becomes(Ended(Current, index'))
  BY DEF ParseEnd
<1>2. Owned(Ended(Current, index'))
  BY CurrentIsOwned, EndedIsOwned
<1>3. Owned(global') /\ AllOwned(stack') /\ Len(stack') = Len(stack)
  BY <1>1, <1>2, BecomesOwned
<1>4. Owned(global)' /\ AllOwned(stack)'
  BY <1>3 DEF Owned, AllOwned
<1>5. Counted'
  BY <1>1, <1>3 DEF IInv, Counted
<1> QED BY <1>1, <1>4, <1>5, SameArray DEF IInv, CallsOpen

\* Of the steps that leave the sections, and who is being parsed, as they are.
LEMMA InvSame ==
    ASSUME IInv, UNCHANGED <<global, stack, sections, blocks>>,
           \/ pc' = pc
           \/ pc = "parse" /\ pc' = "return"
           \/ pc = "return" /\ pc' = "parsed" /\ stack = << >>
    PROVE  IInv'
<1>1. Owned(global)' /\ AllOwned(stack)'
  BY DEF IInv, Owned, AllOwned
<1>2. CallsOpen' /\ Counted'
  BY DEF IInv, CallsOpen, Counted
<1>3. pc' \in {"ready", "parse", "return", "parsed", "destroyed"}
  BY DEF IInv
<1> QED BY <1>1, <1>2, <1>3, SameArray DEF IInv

LEMMA InvSectionReturns == IInv /\ SectionReturns => IInv'
<1> SUFFICES ASSUME IInv, SectionReturns PROVE IInv'
  OBVIOUS
<1>1. /\ pc = "return" /\ pc' = pc /\ stack # << >>
      /\ stack' = Front(stack)
      /\ UNCHANGED <<global, blocks>>
      /\ sections' = [data     |-> sections.data \o <<Last(stack)>>,
                      capacity |-> Room(Len(sections.data), sections.capacity)]
  BY DEF SectionReturns, Kept
<1>2. AllOwned(Front(stack)) /\ Len(Front(stack)) = Len(stack) - 1 /\ Owned(Last(stack)) /\ Len(stack) \in Nat
  BY <1>1, FrontOwned DEF IInv
<1>3. sections.data \o <<Last(stack)>> = Append(sections.data, Last(stack))
  <2> DEFINE T == Range(sections.data) \cup {Last(stack)}
  <2>1. sections.data \in Seq(T) /\ Last(stack) \in T
    BY SeqMonotonic DEF IInv, AllOwned, IsList
  <2> QED BY <2>1, AppendIsConcat
<1>4. /\ AllOwned(Append(sections.data, Last(stack)))
      /\ Len(Append(sections.data, Last(stack))) = Len(sections.data) + 1
  BY <1>2, AppendOwned DEF IInv
<1>5. /\ Room(Len(sections.data), sections.capacity) \in Nat \ {0}
      /\ Len(sections.data) + 1 <= Room(Len(sections.data), sections.capacity)
  BY LenOfStack, RoomIsEnough DEF IInv, SectionsFit
<1>6. sections'.data = Append(sections.data, Last(stack)) /\
      sections'.capacity = Room(Len(sections.data), sections.capacity)
  BY <1>1, <1>3
<1>7. SectionsFit' /\ AllOwned(sections.data)'
  BY <1>1, <1>4, <1>5, <1>6 DEF SectionsFit, AllOwned
<1>8. Counted'
  <2>1. blocks = 2 + Len(stack) + Len(sections.data) /\ Len(sections.data) \in Nat
    BY <1>1, LenOfStack DEF IInv, Counted
  <2>2. Len(sections'.data) = Len(sections.data) + 1 /\ Len(stack') = Len(stack) - 1
    BY <1>1, <1>2, <1>4, <1>6
  <2>3. blocks' = 2 + Len(stack') + Len(sections'.data)
    <3>1. blocks' = 2 + Len(stack) + Len(sections.data)
      BY <1>1, <2>1
    <3> QED BY <1>2, <2>1, <2>2, <3>1, OneMoved
  <2>4. pc' \notin {"ready", "destroyed"}
    BY <1>1
  <2> QED BY <2>3, <2>4 DEF Counted
<1>9. Owned(global)' /\ AllOwned(stack)'
  BY <1>1, <1>2 DEF IInv, Owned, AllOwned
<1> QED BY <1>1, <1>7, <1>8, <1>9 DEF IInv, CallsOpen

LEMMA InvDestroy == IInv /\ Destroy => IInv'
<1> SUFFICES ASSUME IInv, Destroy PROVE IInv'
  OBVIOUS
<1>1. /\ pc = "parsed" /\ pc' = "destroyed"
      /\ UNCHANGED <<global, stack, sections>>
      /\ blocks' = blocks - 2 - Len(sections.data)
  BY DEF Destroy, result
<1>2. stack = << >>
  BY <1>1 DEF IInv, CallsOpen
<1>3. Counted' /\ CallsOpen'
  BY <1>1, <1>2, LenOfStack DEF IInv, Counted, CallsOpen
<1>4. Owned(global)' /\ AllOwned(stack)'
  BY <1>1 DEF IInv, Owned, AllOwned
<1> QED BY <1>1, <1>3, <1>4, SameArray DEF IInv

LEMMA InvNext == IInv /\ [Next]_vars => IInv'
<1> SUFFICES ASSUME IInv, [Next]_vars PROVE IInv'
  OBVIOUS
<1>1. CASE ParseBegin
  BY <1>1, InvParseBegin
<1>2. CASE ParseEntry
  BY <1>2, InvParseEntry
<1>3. CASE ParseSection
  BY <1>3, InvParseSection
<1>4. CASE ParseEnd
  BY <1>4, InvParseEnd
<1>5. CASE ParseUnknown
  BY <1>5, InvSame DEF ParseUnknown, Stops
<1>6. CASE SectionReturns
  BY <1>6, InvSectionReturns
<1>7. CASE GlobalReturns
  BY <1>7, InvSame DEF GlobalReturns, result
<1>8. CASE Destroy
  BY <1>8, InvDestroy
<1>9. ASSUME NEW name, NEW section,
             GetGlobalEntryValue(name) \/ GetEntryValue(section, name) \/ GetField(section, name)
      PROVE  IInv'
  <2>1. UNCHANGED <<pc, global, stack, sections, blocks>>
    BY <1>9 DEF GetGlobalEntryValue, GetEntryValue, GetField, result
  <2> QED BY <2>1, InvSame
<1>10. CASE UNCHANGED vars
  BY <1>10, InvSame DEF vars, result
<1> QED BY <1>1, <1>2, <1>3, <1>4, <1>5, <1>6, <1>7, <1>8, <1>9, <1>10 DEF Next

----------------------------------------------------------------------------
THEOREM Invariance == Spec => []IInv
<1> QED BY InvInit, InvNext, PTL DEF Spec

\* Whatever the text, and at whichever character the parser gives up: every block is in the
\* result or belongs to a call that is open, so that cut_ini_destroy_parsed_data leaves none,
\* and no array is written past its capacity.
THEOREM OwnsBlocks == Spec => []BlocksAreOwned
<1>1. IInv => BlocksAreOwned
  BY DEF IInv, BlocksAreOwned, SectionsFit, Counted, AllOwned, Owned
<1> QED BY <1>1, Invariance, PTL
----------------------------------------------------------------------------
(***************************************************************************)
(* The tokenizer: it goes on, and no token reaches past the text.          *)
(***************************************************************************)
LEMMA LeastNumber ==
    ASSUME NEW S, S \subseteq Nat, S # {}
    PROVE  \E x \in S : \A y \in S : x <= y
<1> DEFINE Below == {ss \in Nat \X Nat : ss[1] < ss[2]}
<1>1. IsWellFoundedOn(Below, Nat)
  BY NatLessThanWellFounded DEF OpToRel
<1> HIDE DEF Below
<1>2. PICK x \in S : \A y \in S : ~(<<y, x>> \in Below)
  BY <1>1, WFMin
<1>3. ASSUME NEW y \in S
      PROVE  x <= y
  <2>1. x \in Nat /\ y \in Nat
    OBVIOUS
  <2>2. y < x => <<y, x>> \in Below
    BY <2>1 DEF Below
  <2> QED BY <1>2, <2>1, <2>2
<1> QED BY <1>3

LEMMA AllNumbers ==
    ASSUME NEW S, 0 \in S, \A n \in Nat : n \in S => n + 1 \in S
    PROVE  Nat \subseteq S
<1> SUFFICES ASSUME Nat \ S # {}
             PROVE  FALSE
  OBVIOUS
<1>1. PICK x \in Nat \ S : \A y \in Nat \ S : x <= y
  BY LeastNumber
<1>2. x # 0 /\ x - 1 \in Nat
  BY <1>1
<1>3. x - 1 \notin Nat \ S
  BY <1>1, <1>2
<1> QED BY <1>1, <1>2, <1>3

\* Positions of a text of that length, and the one behind it; where a walk over them goes from each.
Places(length) == 1 .. length + 1

IsHop(hop, length) == \A n \in 1 .. length : hop[n] \in n .. length + 1

Walk(k, hop, length, n) == IF n > length \/ hop[n] = n THEN n ELSE k[hop[n]]

IsWalk(f, hop, length) == f = [n \in Places(length) |-> Walk(f, hop, length, n)]

Lands(f, length) == \A n \in Places(length) : f[n] \in n .. length + 1

LEMMA WalkExists ==
    ASSUME NEW length \in Nat, NEW hop, IsHop(hop, length)
    PROVE  \E f : IsWalk(f, hop, length)
<1> DEFINE From(m) == {n \in Places(length) : n >= length + 1 - m}
           Walks(m, f) == f = [n \in From(m) |-> Walk(f, hop, length, n)]
           Done == {m \in Nat : \E f : Walks(m, f)}
<1>1. 0 \in Done
  <2> DEFINE f == [n \in From(0) |-> n]
  <2>1. \A n \in From(0) : f[n] = Walk(f, hop, length, n)
    <3>1. \A n \in From(0) : n > length /\ f[n] = n
      BY DEF Places
    <3> HIDE DEF f, From
    <3> QED BY <3>1 DEF Walk
  <2>2. f = [n \in From(0) |-> f[n]]
    OBVIOUS
  <2> HIDE DEF f, From
  <2>3. Walks(0, f)
    BY <2>1, <2>2
  <2> QED BY <2>3
<1>2. ASSUME NEW m \in Nat, m \in Done PROVE m + 1 \in Done
  <2>1. PICK f : Walks(m, f)
    BY <1>2
  <2> DEFINE g == [n \in From(m + 1) |-> Walk(f, hop, length, n)]
  <2>2. \A n \in From(m) : n \in From(m + 1)
    BY DEF Places
  <2>3. \A n \in From(m) : f[n] = Walk(f, hop, length, n)
    BY Zenon, <2>1
  <2>4. \A n \in From(m) : g[n] = f[n]
    BY <2>2, <2>3
  <2>5. \A n \in From(m + 1) : n > length \/ hop[n] = n \/ hop[n] \in From(m)
    BY DEF IsHop, Places
  <2>6. \A n \in From(m + 1) : g[n] = Walk(g, hop, length, n)
    <3> SUFFICES ASSUME NEW n \in From(m + 1) PROVE g[n] = Walk(g, hop, length, n)
      OBVIOUS
    <3>1. g[n] = Walk(f, hop, length, n)
      OBVIOUS
    <3>2. hop[n] \in From(m) => g[hop[n]] = f[hop[n]]
      BY <2>4
    <3> HIDE DEF g, From
    <3> QED BY Zenon, <2>5, <3>1, <3>2 DEF Walk
  <2>7. g = [n \in From(m + 1) |-> g[n]]
    OBVIOUS
  <2> HIDE DEF g, From
  <2>8. Walks(m + 1, g)
    BY <2>6, <2>7
  <2> HIDE DEF Walks
  <2> QED BY <2>8
<1> HIDE DEF Done
<1>3. length + 1 \in Done
  BY <1>1, <1>2, AllNumbers
<1>4. PICK f : Walks(length + 1, f)
  BY <1>3 DEF Done
<1>5. From(length + 1) = Places(length)
  BY DEF Places
<1> HIDE DEF From
<1> QED BY <1>4, <1>5 DEF IsWalk

LEMMA WalkLands ==
    ASSUME NEW length \in Nat, NEW hop, IsHop(hop, length), NEW f, IsWalk(f, hop, length)
    PROVE  Lands(f, length)
<1> DEFINE From(m) == {n \in Places(length) : n >= length + 1 - m}
           Done == {m \in Nat : \A n \in From(m) : f[n] \in n .. length + 1}
<1>1. \A n \in Places(length) : f[n] = Walk(f, hop, length, n)
  BY Zenon DEF IsWalk
<1>2. 0 \in Done
  BY <1>1 DEF Walk, Places
<1>3. ASSUME NEW m \in Nat, m \in Done PROVE m + 1 \in Done
  <2>1. \A n \in From(m) : f[n] \in n .. length + 1
    BY <1>3
  <2>2. \A n \in From(m + 1) : n \in Places(length) /\ n \in Int /\ n <= length + 1
    BY DEF Places
  <2>3. \A n \in From(m + 1) :
           n > length \/ hop[n] = n \/ (hop[n] \in From(m) /\ hop[n] \in n .. length + 1)
    BY DEF IsHop, Places
  <2> SUFFICES ASSUME NEW n \in From(m + 1) PROVE f[n] \in n .. length + 1
    BY <1>3
  <2> HIDE DEF From
  <2>4. f[n] = Walk(f, hop, length, n)
    BY <1>1, <2>2
  <2> QED BY <2>1, <2>2, <2>3, <2>4 DEF Walk
<1> HIDE DEF Done
<1>4. length + 1 \in Done
  BY <1>2, <1>3, AllNumbers
<1> QED BY <1>4 DEF Done, Lands, Places

LEMMA LengthIsNatural ==
    ASSUME text \in Seq(Character)
    PROVE  Len(text) \in Nat
BY LenProperties

LEMMA CommentEnds ==
    ASSUME text \in Seq(Character), NEW n \in 1 .. Len(text), text[n] # "\n"
    PROVE  AfterComment(n) \in n + 1 .. Len(text) + 1
<1> DEFINE ends == {m \in n .. Len(text) : text[m] = "\n"}
<1>1. Len(text) \in Nat
  BY LengthIsNatural
<1>2. CASE ends = {}
  <2>1. AfterComment(n) = Len(text) + 1
    BY Zenon, <1>2 DEF AfterComment
  <2> QED BY <1>1, <2>1
<1>3. CASE ends # {}
  <2>1. AfterComment(n) = 1 + Min(ends)
    BY Zenon, <1>3 DEF AfterComment
  <2>2. ends \subseteq Nat /\ \A m \in ends : m \in n + 1 .. Len(text)
    <3>1. \A m \in ends : m \in n .. Len(text) /\ text[m] = "\n"
      OBVIOUS
    <3> QED BY <1>1, <3>1
  <2> HIDE DEF ends
  <2>3. \E x \in ends : \A y \in ends : x <= y
    BY <1>3, <2>2, LeastNumber
  <2>4. Min(ends) \in ends
    BY Zenon, <2>3 DEF Min
  <2>5. Min(ends) \in n + 1 .. Len(text)
    BY <2>2, <2>4
  <2> QED BY <1>1, <2>1, <2>5
<1> QED BY <1>2, <1>3

\* Where one turn of TokenStart goes; a character that is not skipped keeps it where it is.
Hops ==
    [n \in 1 .. Len(text) |->
        IF text[n] \in Blank \cup {"\n"} THEN n + 1
        ELSE IF text[n] = ";" THEN AfterComment(n) ELSE n]

StartsIn(k, n) ==
    IF n > Len(text) THEN n
    ELSE IF text[n] \in Blank \cup {"\n"} THEN k[n + 1]
    ELSE IF text[n] = ";" THEN k[AfterComment(n)]
    ELSE n

IsStart(f) == f = [n \in 1 .. Len(text) + 1 |-> StartsIn(f, n)]

LEMMA StartsExist ==
    ASSUME text \in Seq(Character)
    PROVE  (\E f : IsStart(f)) /\ (\A f : IsStart(f) => Lands(f, Len(text)))
<1> DEFINE Gap(n) == text[n] \in Blank \cup {"\n"}
           Comment(n) == text[n] = ";"
<1>1. Len(text) \in Nat
  BY LengthIsNatural
<1>2. \A n \in 1 .. Len(text) : Comment(n) => AfterComment(n) \in n + 1 .. Len(text) + 1
  <2> SUFFICES ASSUME NEW n \in 1 .. Len(text), text[n] = ";"
               PROVE  AfterComment(n) \in n + 1 .. Len(text) + 1
    BY Zenon
  <2>1. text[n] # "\n"
    BY Zenon
  <2> QED BY Zenon, <2>1, CommentEnds
<1>3. \A n \in 1 .. Len(text) :
        Hops[n] = IF Gap(n) THEN n + 1 ELSE IF Comment(n) THEN AfterComment(n) ELSE n
  BY Zenon DEF Hops
<1>4. \A f : \A n : StartsIn(f, n) = IF n > Len(text) THEN n ELSE IF Gap(n) THEN f[n + 1]
                                     ELSE IF Comment(n) THEN f[AfterComment(n)] ELSE n
  BY Zenon DEF StartsIn
<1> HIDE DEF Gap, Comment
<1>5. IsHop(Hops, Len(text))
  <2>1. \A n \in 1 .. Len(text) : Hops[n] \in n .. Len(text) + 1
    BY <1>1, <1>2, <1>3
  <2> QED BY Zenon, <2>1 DEF IsHop
<1>6. \A f : \A n \in 1 .. Len(text) + 1 : StartsIn(f, n) = Walk(f, Hops, Len(text), n)
  <2> SUFFICES ASSUME NEW f, NEW n \in 1 .. Len(text) + 1
               PROVE  StartsIn(f, n) = Walk(f, Hops, Len(text), n)
    BY Zenon
  <2>1. CASE n > Len(text)
    BY <1>4, <2>1 DEF Walk
  <2>2. CASE ~(n > Len(text))
    <3>1. n \in 1 .. Len(text) /\ n + 1 # n
      BY <1>1, <2>2
    <3>2. Comment(n) => AfterComment(n) # n
      BY <1>1, <1>2, <3>1
    <3> QED BY <1>3, <1>4, <2>2, <3>1, <3>2 DEF Walk
  <2> QED BY Zenon, <2>1, <2>2
<1>7. \A f : IsStart(f) <=> IsWalk(f, Hops, Len(text))
  <2> SUFFICES ASSUME NEW f PROVE IsStart(f) <=> IsWalk(f, Hops, Len(text))
    OBVIOUS
  <2>1. [n \in 1 .. Len(text) + 1 |-> StartsIn(f, n)]
          = [n \in 1 .. Len(text) + 1 |-> Walk(f, Hops, Len(text), n)]
    BY <1>6
  <2> QED BY Zenon, <2>1 DEF IsStart, IsWalk, Places
<1>8. \E f : IsWalk(f, Hops, Len(text))
  BY <1>1, <1>5, WalkExists
<1>9. \A f : IsWalk(f, Hops, Len(text)) => Lands(f, Len(text))
  BY <1>1, <1>5, WalkLands
<1> QED BY Zenon, <1>7, <1>8, <1>9

LEMMA StartIsIn ==
    ASSUME text \in Seq(Character), NEW i \in 1 .. Len(text) + 1
    PROVE  TokenStart(i) \in i .. Len(text) + 1
<1> DEFINE f == CHOOSE f : IsStart(f)
<1>1. IsStart(f)
  BY Zenon, StartsExist
<1>2. Lands(f, Len(text))
  BY Zenon, <1>1, StartsExist
<1>3. TokenStart(i) = f[i]
  BY Zenon DEF TokenStart, IsStart, StartsIn
<1> HIDE DEF f
<1> QED BY Zenon, <1>2, <1>3 DEF Lands, Places

LEMMA EndIsIn ==
    ASSUME text \in Seq(Character), NEW start \in 1 .. Len(text), TokenKind(start) = "name"
    PROVE  TokenEnd(start) \in start .. Len(text)
<1> DEFINE Stop == {n \in start .. Len(text) : n < Len(text) => text[n + 1] \notin InName}
           IsEnd(n) == /\ \A m \in start .. n : text[m] \in InName
                       /\ n < Len(text) => text[n + 1] \notin InName
<1>1. Len(text) \in Nat
  BY LengthIsNatural
<1>2. text[start] \in InName
  <2>1. ~(start > Len(text))
    BY <1>1
  <2> QED BY Zenon, <2>1 DEF TokenKind
<1>3. Len(text) \in Stop /\ Stop \subseteq Nat
  BY <1>1
<1>4. PICK x \in Stop : \A y \in Stop : x <= y
  <2> HIDE DEF Stop
  <2> QED BY <1>3, LeastNumber
<1>5. \A m \in start .. x : text[m] \in InName
  <2> SUFFICES ASSUME NEW m \in start .. x, m # start PROVE text[m] \in InName
    BY <1>2
  <2>1. m - 1 \in start .. Len(text) /\ ~(x <= m - 1) /\ m - 1 < Len(text) /\ (m - 1) + 1 = m
    BY <1>1, <1>4
  <2>2. m - 1 \notin Stop
    BY <1>4, <2>1
  <2> QED BY <2>1, <2>2
<1>6. IsEnd(x) /\ x \in start .. Len(text)
  BY <1>4, <1>5
<1>7. TokenEnd(start) = CHOOSE n \in start .. Len(text) : IsEnd(n)
  BY Zenon DEF TokenEnd
<1> HIDE DEF IsEnd
<1> QED BY Zenon, <1>6, <1>7

\* What the parser relies on.
IsToken(t, i) ==
    /\ t.at[1] \in i .. Len(text) + 1
    /\ t.at[2] \in Int
    /\ t.next \in i .. Len(text) + 1
    /\ t.kind = "end" => t.next = Len(text) + 1
    /\ t.kind \in {"separator", "op", "name"} => t.at[1] <= t.at[2] /\ t.at[2] < t.next

LEMMA TokenIsToken ==
    ASSUME text \in Seq(Character), NEW i \in 1 .. Len(text) + 1
    PROVE  IsToken(Token(i), i)
<1> DEFINE start == TokenStart(i)
           kind  == TokenKind(start)
           end   == TokenEnd(start)
           t     == [kind |-> kind, at |-> <<start, end>>,
                     next |-> IF kind \in {"end", "unknown"} THEN start ELSE end + 1]
<1>1. Token(i) = t
  BY Zenon DEF Token
<1>2. start \in i .. Len(text) + 1 /\ Len(text) \in Nat
  BY LengthIsNatural, StartIsIn
<1>3. start > Len(text) <=> kind = "end"
  <2>1. start > Len(text) => kind = "end"
    BY Zenon DEF TokenKind
  <2>2. ~(start > Len(text)) => kind # "end"
    BY Zenon DEF TokenKind
  <2> QED BY <2>1, <2>2
<1>4. end \in start .. Len(text) + 1 /\ (kind # "end" => end <= Len(text))
  <2>1. CASE kind = "name"
    <3>1. start \in 1 .. Len(text)
      BY <1>2, <1>3, <2>1
    <3>2. end \in start .. Len(text)
      BY Zenon, <2>1, <3>1, EndIsIn
    <3> QED BY <1>2, <3>2
  <2>2. CASE kind # "name"
    <3>1. end = start
      BY Zenon, <2>2 DEF TokenEnd
    <3> HIDE DEF end
    <3> QED BY <1>2, <1>3, <3>1
  <2> QED BY <2>1, <2>2
<1> HIDE DEF start, kind, end
<1>5. IsToken(t, i)
  BY <1>2, <1>3, <1>4 DEF IsToken
<1> HIDE DEF t
<1> QED BY Zenon, <1>1, <1>5

----------------------------------------------------------------------------
(***************************************************************************)
(* Whose the content is, while the calls are open and while they return.   *)
(***************************************************************************)

\* The sections in the order of the text: those that are open, then those in the array, backwards.
SectionAt(open, array, n) ==
    IF n <= Len(open) THEN open[n] ELSE array[Len(open) + Len(array) + 1 - n]

Begins(section) ==
    section.fields # << >> => section.content_start = section.fields[1].name[1]

\* A section that has been read: its content ends at end.
Closed(section, end) ==
    /\ Begins(section)
    /\ section.decl[1] \in Int /\ section.decl[2] \in Int /\ section.content_start \in Int
    /\ section.decl[2] <= section.content_start
    /\ section.content_start <= end
    /\ section.content_end = end
    /\ \A m \in DOMAIN section.fields :
          section.fields[m].value[2] \in Int /\ section.fields[m].value[2] <= end

\* The section that is being read has nothing at next or behind it.
Open(section, next) ==
    /\ Begins(section)
    /\ section.decl[1] \in Int /\ section.decl[2] \in 1 .. next - 1
    /\ section.fields # << >> => section.content_start \in section.decl[2] .. next - 1
    /\ \A m \in DOMAIN section.fields :
          section.fields[m].value[2] \in Int /\ section.fields[m].value[2] < next

AllClosed(open, array, upto, length) ==
    \A n \in 1 .. upto :
        Closed(SectionAt(open, array, n),
               IF n = Len(open) + Len(array) THEN length + 1
                                             ELSE SectionAt(open, array, n + 1).decl[1] - 1)

Apart ==
    /\ text \in Seq(Character)
    /\ ~error /\ pc = "parse" =>
          /\ index \in 1 .. Len(text) + 1
          /\ sections.data = << >>
          /\ AllClosed(stack, << >>, Len(stack) - 1, Len(text))
          /\ stack # << >> => Open(stack[Len(stack)], index)
    /\ ~error /\ pc \in {"return", "parsed"} =>
          AllClosed(stack, sections.data, Len(stack) + Len(sections.data), Len(text))

\* One section.

LEMMA NewIsOpen ==
    ASSUME NEW name, NEW next \in Int, NEW first \in Int, NEW last \in 1 .. next - 1
    PROVE  Open(Section(<<first, last>>, name), next)
<1> DEFINE section == Section(<<first, last>>, name)
<1>1. section.decl = <<first, last>> /\ section.fields = << >>
  BY DEF Section
<1>2. DOMAIN << >> = {}
  BY SMT
<1> HIDE DEF section
<1>3. section.decl[1] = first /\ section.decl[2] = last
  BY <1>1
<1>4. \A m \in DOMAIN section.fields : FALSE
  BY Zenon, <1>1, <1>2
<1>5. Begins(section) /\ (section.fields # << >> => section.content_start \in section.decl[2] .. next - 1)
  BY Zenon, <1>1 DEF Begins
<1>6. Open(section, next)
  BY <1>3, <1>4, <1>5 DEF Open
<1> QED BY Zenon, <1>6 DEF section

LEMMA OpenIsClosed ==
    ASSUME stack # << >>, NEW section, Owned(section), NEW next \in Int, Open(section, next),
           NEW end \in Int, next <= end + 1
    PROVE  Closed(Ended(section, end), end) /\ Ended(section, end).decl = section.decl
<1> DEFINE start == IF section.fields = << >> THEN end ELSE section.content_start
<1>1. PICK d, n, f, c, a, z :
        section = [decl |-> d, name |-> n, fields |-> f, capacity |-> c,
                   content_start |-> a, content_end |-> z]
  BY Zenon DEF Owned
<1>2. section.decl = d /\ section.fields = f /\ section.content_start = a
  BY <1>1
<1>3. Ended(section, end) = [section EXCEPT !.content_end = end, !.content_start = start]
  BY Zenon DEF Ended
<1> HIDE DEF start
<1>4. [section EXCEPT !.content_end = end, !.content_start = start] =
        [decl |-> d, name |-> n, fields |-> f, capacity |-> c,
         content_start |-> start, content_end |-> end]
  <2> DEFINE once == [section EXCEPT !.content_end = end]
  <2>1. once = [decl |-> d, name |-> n, fields |-> f, capacity |-> c,
                content_start |-> a, content_end |-> end]
    BY <1>1
  <2>2. [section EXCEPT !.content_end = end, !.content_start = start]
          = [once EXCEPT !.content_start = start]
    OBVIOUS
  <2> HIDE DEF once
  <2>3. [once EXCEPT !.content_start = start] =
          [decl |-> d, name |-> n, fields |-> f, capacity |-> c,
           content_start |-> start, content_end |-> end]
    BY <2>1
  <2> QED BY Zenon, <2>2, <2>3
<1> DEFINE e == Ended(section, end)
<1>5. e.decl = d /\ e.fields = f /\ e.content_start = start /\ e.content_end = end
  BY <1>3, <1>4
<1> HIDE DEF e
<1>6. Begins(section) /\ d[1] \in Int /\ d[2] \in 1 .. next - 1
      /\ (f # << >> => a \in d[2] .. next - 1)
      /\ \A m \in DOMAIN f : f[m].value[2] \in Int /\ f[m].value[2] < next
  BY <1>2 DEF Open
<1>7. start \in Int /\ d[2] <= start /\ start <= end /\ (f # << >> => start = a)
  <2>1. CASE f = << >>
    <3>1. start = end
      BY <1>2, <2>1 DEF start
    <3> QED BY <1>6, <2>1, <3>1
  <2>2. CASE f # << >>
    <3>1. start = a
      BY <1>2, <2>2 DEF start
    <3> QED BY <1>6, <2>2, <3>1
  <2> QED BY <2>1, <2>2
<1>8. Begins(e)
  BY <1>2, <1>5, <1>6, <1>7 DEF Begins
<1>9. Closed(e, end)
  BY <1>5, <1>6, <1>7, <1>8 DEF Closed
<1>10. e.decl = section.decl
  BY <1>2, <1>5
<1> QED BY <1>9, <1>10 DEF e

\* The words of a field that is read from i on and up to next.
ReadFrom(i, name, value, next) ==
    i \in Int /\ next \in Int /\ name[1] \in i .. next - 1 /\ value[2] \in Int /\ value[2] < next

LEMMA FieldKeepsOpen ==
    ASSUME stack # << >>, NEW section, Owned(section), NEW i, Open(section, i),
           NEW name, NEW value, NEW next, ReadFrom(i, name, value, next)
    PROVE  /\ Open(WithField(Begun(section, name), name, value), next)
           /\ WithField(Begun(section, name), name, value).decl = section.decl
<1> DEFINE field == [name |-> name, value |-> value]
           begun == Begun(section, name)
           start == IF section.fields = << >> THEN name[1] ELSE section.content_start
<1>0. /\ i \in Int /\ next \in Int /\ name[1] \in Int /\ i <= name[1] /\ name[1] < next
      /\ value[2] \in Int /\ value[2] < next
  BY DEF ReadFrom
<1>1. PICK d, n, f, c, a, z :
        section = [decl |-> d, name |-> n, fields |-> f, capacity |-> c,
                   content_start |-> a, content_end |-> z]
  BY Zenon DEF Owned
<1>2. section.decl = d /\ section.fields = f /\ section.content_start = a
  BY <1>1
<1>3. begun = [decl |-> d, name |-> n, fields |-> f, capacity |-> c,
               content_start |-> start, content_end |-> z]
  <2>1. CASE f = << >>
    <3>1. begun = [section EXCEPT !.content_start = name[1]] /\ start = name[1]
      BY Zenon, <1>2, <2>1 DEF Begun
    <3> HIDE DEF begun, start
    <3> QED BY <1>1, <3>1
  <2>2. CASE f # << >>
    <3>1. begun = section /\ start = a
      BY Zenon, <1>2, <2>2 DEF Begun
    <3> HIDE DEF begun, start
    <3> QED BY <1>1, <3>1
  <2> QED BY <2>1, <2>2
<1> DEFINE longer == WithField(begun, name, value)
           fields == Append(f, field)
           room   == Room(Len(f), c)
<1>4. longer = [decl |-> d, name |-> n, fields |-> fields, capacity |-> room,
                content_start |-> start, content_end |-> z]
  <2> HIDE DEF begun, start
  <2>1. begun.fields = f /\ begun.capacity = c
    BY <1>3
  <2>2. longer = [begun EXCEPT !.fields = fields, !.capacity = room]
    BY Zenon, <2>1 DEF WithField
  <2> HIDE DEF longer, fields, room
  <2> QED BY Zenon, <1>3, <2>2, WithFields
<1> HIDE DEF begun, longer, room
<1>5. longer.decl = d /\ longer.fields = fields /\ longer.content_start = start
  <2> HIDE DEF fields, start
  <2> QED BY <1>4
<1>6. Begins(section) /\ d[1] \in Int /\ d[2] \in 1 .. i - 1
      /\ (f # << >> => a \in d[2] .. i - 1)
      /\ \A m \in DOMAIN f : f[m].value[2] \in Int /\ f[m].value[2] < i
  BY <1>2 DEF Open
<1>7. /\ Len(f) \in Nat /\ DOMAIN f = 1 .. Len(f)
      /\ f = << >> => Len(f) = 0
      /\ f # << >> => Len(f) # 0
  BY <1>2, LenOfList, EmptyIsList DEF Owned
<1>8. /\ DOMAIN fields = 1 .. Len(f) + 1
      /\ \A m \in 1 .. Len(f) : fields[m] = f[m]
      /\ fields[Len(f) + 1] = field
  <2> DEFINE T == Range(f) \cup {field}
  <2>1. f \in Seq(T) /\ field \in T
    BY <1>2, SeqMonotonic DEF Owned, IsList
  <2> HIDE DEF T
  <2>2. fields \in Seq(T) /\ Len(fields) = Len(f) + 1
    BY <2>1, AppendProperties
  <2> QED BY <1>7, <2>1, <2>2, AppendProperties, LenProperties
<1> HIDE DEF fields
<1>9. start \in d[2] .. next - 1 /\ start = fields[1].name[1]
  <2>1. CASE f = << >>
    <3>1. start = name[1]
      BY <1>2, <2>1
    <3>2. fields[1] = field
      BY <1>7, <1>8, <2>1
    <3> QED BY <1>0, <1>6, <3>1, <3>2
  <2>2. CASE f # << >>
    <3>1. start = a
      BY <1>2, <2>2
    <3>2. fields[1] = f[1] /\ a = f[1].name[1]
      BY <1>2, <1>6, <1>7, <1>8, <2>2 DEF Begins
    <3> QED BY <1>0, <1>6, <2>2, <3>1, <3>2
  <2> QED BY <2>1, <2>2
<1>10. \A m \in DOMAIN fields : fields[m].value[2] \in Int /\ fields[m].value[2] < next
  <2> SUFFICES ASSUME NEW m \in 1 .. Len(f) + 1
               PROVE  fields[m].value[2] \in Int /\ fields[m].value[2] < next
    BY <1>8
  <2>1. CASE m = Len(f) + 1
    <3>1. fields[m].value = value
      BY <1>8, <2>1
    <3> QED BY <1>0, <3>1
  <2>2. CASE m # Len(f) + 1
    <3>1. m \in DOMAIN f /\ fields[m] = f[m]
      BY <1>7, <1>8, <2>2
    <3> QED BY <1>0, <1>6, <3>1
  <2> QED BY <2>1, <2>2
<1> HIDE DEF start
<1>11. d[2] \in 1 .. next - 1
  BY <1>0, <1>6
<1>12. Open(longer, next)
  BY <1>5, <1>6, <1>9, <1>10, <1>11 DEF Open, Begins
<1> QED BY <1>2, <1>5, <1>12 DEF longer, begun

\* Lists of sections.

LEMMA LastReplaced ==
    ASSUME NEW s, IsList(s), s # << >>, NEW e
    PROVE  /\ Len(Append(Front(s), e)) = Len(s)
           /\ \A n \in 1 .. Len(s) - 1 : Append(Front(s), e)[n] = s[n]
           /\ Append(Front(s), e)[Len(s)] = e
           /\ Append(Front(s), e) # << >>
<1> DEFINE T == Range(s) \cup {e}
           t == Append(Front(s), e)
<1>1. Len(s) \in Nat /\ Len(s) # 0 /\ DOMAIN s = 1 .. Len(s)
  BY LenOfList
<1>2. s \in Seq(T) /\ e \in T
  BY SeqMonotonic DEF IsList
<1>3. \A i \in 1 .. Len(s) : s[i] \in T
  BY <1>1, <1>2, ElementOfSeq
<1> HIDE DEF T
<1>4. /\ Front(s) \in Seq(T) /\ Len(Front(s)) = Len(s) - 1
      /\ \A n \in 1 .. Len(s) - 1 : Front(s)[n] = s[n]
  BY <1>1, <1>3, SubSeqProperties DEF Front
<1>5. /\ t \in Seq(T) /\ Len(t) = Len(Front(s)) + 1
      /\ \A n \in 1 .. Len(Front(s)) : t[n] = Front(s)[n]
      /\ t[Len(Front(s)) + 1] = e
  BY <1>2, <1>4, AppendProperties
<1> HIDE DEF t
<1>6. Len(t) = Len(s) /\ (\A n \in 1 .. Len(s) - 1 : t[n] = s[n]) /\ t[Len(s)] = e
  BY <1>1, <1>4, <1>5
<1>7. t # << >>
  BY <1>1, <1>6, EmptyIsList
<1> QED BY <1>6, <1>7 DEF t

LEMMA OneAppended ==
    ASSUME NEW s, IsList(s), NEW e
    PROVE  /\ Len(Append(s, e)) = Len(s) + 1
           /\ \A n \in 1 .. Len(s) : Append(s, e)[n] = s[n]
           /\ Append(s, e)[Len(s) + 1] = e
           /\ Append(s, e) # << >>
<1> DEFINE T == Range(s) \cup {e}
<1>1. s \in Seq(T) /\ e \in T
  BY SeqMonotonic DEF IsList
<1> HIDE DEF T
<1> QED BY <1>1, AppendProperties

\* The section before the last is closed as before when the last is replaced by one that is
\* declared at the same place.
LEMMA ClosedBeforeLast ==
    ASSUME NEW s, IsList(s), s # << >>, NEW length, AllClosed(s, << >>, Len(s) - 1, length),
           NEW e, e.decl = s[Len(s)].decl
    PROVE  AllClosed(Append(Front(s), e), << >>, Len(s) - 1, length)
<1> DEFINE t == Append(Front(s), e)
<1>1. Len(s) \in Nat /\ Len(s) # 0
  BY LenOfList
<1>2. Len(t) = Len(s) /\ (\A n \in 1 .. Len(s) - 1 : t[n] = s[n]) /\ t[Len(s)] = e /\ Len(<< >>) = 0
  BY LastReplaced, EmptyIsList
<1> HIDE DEF t
<1> SUFFICES ASSUME NEW n \in 1 .. Len(s) - 1
             PROVE  Closed(SectionAt(t, << >>, n),
                           IF n = Len(t) + Len(<< >>) THEN length + 1
                                                      ELSE SectionAt(t, << >>, n + 1).decl[1] - 1)
  BY <1>2 DEF AllClosed, t
<1>3. n # Len(t) + Len(<< >>) /\ n # Len(s) + Len(<< >>)
  BY <1>1, <1>2
<1>4. SectionAt(t, << >>, n) = SectionAt(s, << >>, n)
  BY <1>1, <1>2 DEF SectionAt
<1>5. SectionAt(t, << >>, n + 1).decl = SectionAt(s, << >>, n + 1).decl
  <2>1. SectionAt(t, << >>, n + 1) = t[n + 1] /\ SectionAt(s, << >>, n + 1) = s[n + 1]
    BY <1>1, <1>2 DEF SectionAt
  <2>2. CASE n + 1 = Len(s)
    BY <1>2, <2>1, <2>2
  <2>3. CASE n + 1 # Len(s)
    <3>1. t[n + 1] = s[n + 1]
      BY <1>1, <1>2, <2>3
    <3> QED BY <2>1, <3>1
  <2> QED BY <2>2, <2>3
<1>6. Closed(SectionAt(s, << >>, n), SectionAt(s, << >>, n + 1).decl[1] - 1)
  BY Zenon, <1>3 DEF AllClosed
<1> QED BY Zenon, <1>3, <1>4, <1>5, <1>6

\* A section that is closed at the end of the text is the last.
LEMMA LastIsClosed ==
    ASSUME NEW s, IsList(s), s # << >>, NEW length, AllClosed(s, << >>, Len(s) - 1, length),
           Closed(s[Len(s)], length + 1)
    PROVE  AllClosed(s, << >>, Len(s) + Len(<< >>), length)
<1>1. Len(s) \in Nat /\ Len(s) # 0 /\ Len(<< >>) = 0
  BY LenOfList, EmptyIsList
<1> SUFFICES ASSUME NEW n \in 1 .. Len(s)
             PROVE  Closed(SectionAt(s, << >>, n),
                           IF n = Len(s) + Len(<< >>) THEN length + 1
                                                      ELSE SectionAt(s, << >>, n + 1).decl[1] - 1)
  BY <1>1 DEF AllClosed
<1>2. CASE n = Len(s)
  <2>1. SectionAt(s, << >>, n) = s[Len(s)] /\ n = Len(s) + Len(<< >>)
    BY <1>1, <1>2 DEF SectionAt
  <2> QED BY Zenon, <2>1
<1>3. CASE n # Len(s)
  <2>1. n \in 1 .. Len(s) - 1
    BY <1>1, <1>3
  <2> QED BY Zenon, <2>1 DEF AllClosed
<1> QED BY <1>2, <1>3

\* A declaration closes the section before it.
LEMMA NextIsDeclared ==
    ASSUME NEW s, IsList(s), NEW length, AllClosed(s, << >>, Len(s) - 1, length), NEW e,
           s # << >> => Closed(s[Len(s)], e.decl[1] - 1)
    PROVE  AllClosed(Append(s, e), << >>, Len(s), length)
<1> DEFINE t == Append(s, e)
<1>1. Len(s) \in Nat /\ (s # << >> => Len(s) # 0) /\ (s = << >> => Len(s) = 0) /\ Len(<< >>) = 0
  BY LenOfList, EmptyIsList
<1>2. Len(t) = Len(s) + 1 /\ (\A n \in 1 .. Len(s) : t[n] = s[n]) /\ t[Len(s) + 1] = e
  BY OneAppended
<1> HIDE DEF t
<1> SUFFICES ASSUME NEW n \in 1 .. Len(s)
             PROVE  Closed(SectionAt(t, << >>, n),
                           IF n = Len(t) + Len(<< >>) THEN length + 1
                                                      ELSE SectionAt(t, << >>, n + 1).decl[1] - 1)
  BY DEF AllClosed, t
<1>3. n # Len(t) + Len(<< >>)
  BY <1>1, <1>2
<1>4. SectionAt(t, << >>, n) = s[n] /\ SectionAt(t, << >>, n + 1) = t[n + 1]
  BY <1>1, <1>2 DEF SectionAt
<1>5. CASE n = Len(s)
  <2>1. t[n + 1] = e /\ s # << >>
    BY <1>1, <1>2, <1>5
  <2> QED BY Zenon, <1>3, <1>4, <1>5, <2>1
<1>6. CASE n # Len(s)
  <2>1. n \in 1 .. Len(s) - 1 /\ n # Len(s) + Len(<< >>)
    BY <1>1, <1>6
  <2>2. SectionAt(s, << >>, n) = s[n] /\ SectionAt(s, << >>, n + 1) = t[n + 1]
    <3>1. SectionAt(s, << >>, n) = s[n] /\ SectionAt(s, << >>, n + 1) = s[n + 1]
      BY <1>1, <2>1 DEF SectionAt
    <3>2. t[n + 1] = s[n + 1]
      BY <1>1, <1>2, <2>1
    <3> QED BY <3>1, <3>2
  <2>3. Closed(SectionAt(s, << >>, n), SectionAt(s, << >>, n + 1).decl[1] - 1)
    BY Zenon, <2>1 DEF AllClosed
  <2> QED BY Zenon, <1>3, <1>4, <2>2, <2>3
<1> QED BY <1>5, <1>6

\* A call that returns leaves every section where it is in the text.
LEMMA ReturnKeepsPlaces ==
    ASSUME NEW open, IsList(open), open # << >>, NEW array, IsList(array)
    PROVE  /\ Len(Front(open)) + Len(Append(array, Last(open))) = Len(open) + Len(array)
           /\ \A n \in 1 .. Len(open) + Len(array) :
                 SectionAt(Front(open), Append(array, Last(open)), n) = SectionAt(open, array, n)
<1> DEFINE s == Front(open)
           a == Append(array, Last(open))
           count == Len(open) + Len(array)
<1>1. Len(open) \in Nat /\ Len(open) # 0 /\ Len(array) \in Nat /\ DOMAIN open = 1 .. Len(open)
  BY LenOfList
<1>2. Len(s) = Len(open) - 1 /\ \A n \in 1 .. Len(open) - 1 : s[n] = open[n]
  <2>1. \A i \in 1 .. Len(open) : open[i] \in Range(open)
    BY <1>1 DEF Range
  <2> QED BY <1>1, <2>1, SubSeqProperties DEF Front
<1>3. Len(a) = Len(array) + 1 /\ (\A n \in 1 .. Len(array) : a[n] = array[n])
      /\ a[Len(array) + 1] = open[Len(open)]
  BY OneAppended DEF Last
<1> HIDE DEF s, a
<1>4. Len(s) + Len(a) = count
  BY <1>1, <1>2, <1>3
<1>5. \A n \in 1 .. count : SectionAt(s, a, n) = SectionAt(open, array, n)
  <2> SUFFICES ASSUME NEW n \in 1 .. count PROVE SectionAt(s, a, n) = SectionAt(open, array, n)
    OBVIOUS
  <2>1. CASE n < Len(open)
    BY <1>1, <1>2, <2>1 DEF SectionAt
  <2>2. CASE n = Len(open)
    <3>1. SectionAt(open, array, n) = open[Len(open)]
      BY <1>1, <2>2 DEF SectionAt
    <3>2. SectionAt(s, a, n) = a[Len(s) + Len(a) + 1 - n]
      BY <1>1, <1>2, <2>2 DEF SectionAt
    <3>3. Len(s) + Len(a) + 1 - n = Len(array) + 1
      BY <1>1, <1>2, <1>3, <2>2
    <3> QED BY Zenon, <1>3, <3>1, <3>2, <3>3
  <2>3. CASE n > Len(open)
    <3>1. SectionAt(open, array, n) = array[Len(open) + Len(array) + 1 - n]
      BY <1>1, <2>3 DEF SectionAt
    <3>2. SectionAt(s, a, n) = a[Len(s) + Len(a) + 1 - n]
      BY <1>1, <1>2, <2>3 DEF SectionAt
    <3>3. Len(s) + Len(a) + 1 - n = Len(open) + Len(array) + 1 - n
          /\ Len(open) + Len(array) + 1 - n \in 1 .. Len(array)
      BY <1>1, <1>2, <1>3, <2>3
    <3>4. a[Len(open) + Len(array) + 1 - n] = array[Len(open) + Len(array) + 1 - n]
      BY Zenon, <1>3, <3>3
    <3>5. a[Len(s) + Len(a) + 1 - n] = a[Len(open) + Len(array) + 1 - n]
      BY Zenon, <3>3
    <3> QED BY Zenon, <3>1, <3>2, <3>4, <3>5
  <2>4. n < Len(open) \/ n = Len(open) \/ n > Len(open)
    <3>1. n \in Int /\ Len(open) \in Int
      BY <1>1
    <3>2. \A x, y \in Int : x < y \/ x = y \/ x > y
      BY SMT
    <3> QED BY Zenon, <3>1, <3>2
  <2> QED BY Zenon, <2>1, <2>2, <2>3, <2>4
<1> HIDE DEF count
<1> QED BY Zenon, <1>4, <1>5 DEF s, a, count

LEMMA ReturnKeepsOrder ==
    ASSUME NEW open, IsList(open), open # << >>, NEW array, IsList(array), NEW length,
           AllClosed(open, array, Len(open) + Len(array), length)
    PROVE  AllClosed(Front(open), Append(array, Last(open)),
                     Len(Front(open)) + Len(Append(array, Last(open))), length)
<1> DEFINE s == Front(open)
           a == Append(array, Last(open))
           count == Len(open) + Len(array)
<1>1. Len(open) \in Nat /\ Len(array) \in Nat
  BY LenOfList
<1> HIDE DEF s, a
<1>4. Len(s) + Len(a) = count
  BY ReturnKeepsPlaces DEF s, a
<1>5. \A n \in 1 .. count : SectionAt(s, a, n) = SectionAt(open, array, n)
  BY Zenon, ReturnKeepsPlaces DEF s, a
<1> SUFFICES ASSUME NEW n \in 1 .. count
             PROVE  Closed(SectionAt(s, a, n),
                           IF n = Len(s) + Len(a) THEN length + 1
                                                  ELSE SectionAt(s, a, n + 1).decl[1] - 1)
  BY <1>4 DEF AllClosed, s, a
<1>6. Closed(SectionAt(open, array, n),
             IF n = count THEN length + 1 ELSE SectionAt(open, array, n + 1).decl[1] - 1)
  BY Zenon DEF AllClosed
<1>7. n # count => n + 1 \in 1 .. count
  BY <1>1
<1> HIDE DEF count
<1> QED BY Zenon, <1>4, <1>5, <1>6, <1>7

----------------------------------------------------------------------------
LEMMA ApartInit == Init => Apart
<1> SUFFICES ASSUME Init PROVE Apart
  OBVIOUS
<1>1. text \in Seq(Character) /\ pc \notin {"parse", "return", "parsed"}
  <2>1. text \in Seq(Character)
    BY Zenon, IniAssumption DEF Init
  <2>2. pc = "ready"
    BY Zenon DEF Init
  <2> QED BY <2>1, <2>2
<1> QED BY <1>1 DEF Apart

\* Of the steps that fail, and of those that begin or end outside the parser.
LEMMA ApartOutside ==
    ASSUME Apart, UNCHANGED text,
           \/ error'
           \/ pc' \notin {"parse", "return", "parsed"}
           \/ UNCHANGED <<index, pc, error, stack, sections>>
    PROVE  Apart'
<1>1. CASE error' \/ pc' \notin {"parse", "return", "parsed"}
  BY <1>1 DEF Apart
<1>2. CASE UNCHANGED <<index, pc, error, stack, sections>>
  BY <1>2 DEF Apart
<1> QED BY <1>1, <1>2

LEMMA ApartParseBegin == IInv /\ Apart /\ ParseBegin => Apart'
<1> SUFFICES ASSUME IInv, Apart, ParseBegin PROVE Apart'
  OBVIOUS
<1>1. stack = << >> /\ stack' = << >>
  BY DEF IInv, CallsOpen, ParseBegin
<1>2. text' = text /\ index' = 1 /\ pc' = "parse" /\ sections'.data = << >>
  BY DEF ParseBegin
<1>3. index' \in 1 .. Len(text') + 1
  <2>1. Len(text) \in Nat
    BY LengthIsNatural DEF Apart
  <2> QED BY <1>2, <2>1
<1>4. AllClosed(stack', << >>, Len(stack') - 1, Len(text'))
  <2>1. Len(stack') = 0
    BY <1>1, EmptyIsList
  <2> QED BY <2>1 DEF AllClosed
<1>5. text' \in Seq(Character)
  BY <1>2 DEF Apart
<1> QED BY <1>1, <1>2, <1>3, <1>4, <1>5 DEF Apart

\* What a step of the parser that does not fail begins with.
LEMMA Parsing ==
    ASSUME IInv, Apart, pc = "parse", ~error
    PROVE  /\ text \in Seq(Character) /\ Len(text) \in Nat
           /\ index \in 1 .. Len(text) + 1
           /\ sections.data = << >>
           /\ IsList(stack)
           /\ AllClosed(stack, << >>, Len(stack) - 1, Len(text))
           /\ stack # << >> => /\ Owned(Current) /\ Open(Current, index)
                               /\ Current = stack[Len(stack)]
<1>1. stack # << >> => Current = stack[Len(stack)]
  BY DEF Current, Last
<1> QED BY <1>1, CurrentIsOwned, LengthIsNatural DEF Apart, IInv, AllOwned

\* The section that is being parsed is replaced by one that is open, or that ends with the text.
LEMMA ApartBecomes ==
    ASSUME IInv, Apart, pc = "parse", ~error, NEW section, Becomes(section),
           UNCHANGED <<text, sections>>, index' \in 1 .. Len(text) + 1,
           stack # << >> => section.decl = Current.decl,
           \/ pc' = "parse" /\ (stack # << >> => Open(section, index'))
           \/ pc' = "return" /\ (stack # << >> => Closed(section, Len(text) + 1))
    PROVE  Apart'
<1>1. /\ text \in Seq(Character)
      /\ sections.data = << >>
      /\ IsList(stack)
      /\ AllClosed(stack, << >>, Len(stack) - 1, Len(text))
      /\ stack # << >> => Current = stack[Len(stack)]
  BY Zenon, Parsing
<1>2. CASE stack = << >>
  <2>1. stack' = << >> /\ Len(<< >>) = 0
    BY <1>2, EmptyIsList DEF Becomes
  <2>2. AllClosed(stack', << >>, Len(stack') - 1, Len(text)) /\ AllClosed(stack', << >>, Len(stack') + Len(<< >>), Len(text))
    BY <2>1 DEF AllClosed
  <2> QED BY <1>1, <2>1, <2>2 DEF Apart
<1>3. CASE stack # << >>
  <2>1. stack' = Append(Front(stack), section)
    BY <1>3 DEF Becomes
  <2>2. Len(stack') = Len(stack) /\ stack'[Len(stack)] = section /\ stack' # << >>
    BY Zenon, <1>1, <1>3, <2>1, LastReplaced
  <2>3. AllClosed(stack', << >>, Len(stack') - 1, Len(text))
    <3>1. section.decl = stack[Len(stack)].decl
      BY Zenon, <1>1, <1>3
    <3>2. AllClosed(Append(Front(stack), section), << >>, Len(stack) - 1, Len(text))
      BY Zenon, <1>1, <1>3, <3>1, ClosedBeforeLast
    <3> QED BY Zenon, <2>1, <2>2, <3>2
  <2>4. CASE pc' = "parse" /\ Open(section, index')
    BY <1>1, <2>2, <2>3, <2>4 DEF Apart
  <2>5. CASE pc' = "return" /\ Closed(section, Len(text) + 1)
    <3>1. IsList(stack')
      <4>1. IsList(Front(stack))
        BY <1>1, <1>3, FrontOfList
      <4> QED BY <2>1, <4>1, AppendToList
    <3>2. Closed(stack'[Len(stack')], Len(text) + 1)
      BY Zenon, <2>2, <2>5
    <3>3. AllClosed(stack', << >>, Len(stack') + Len(<< >>), Len(text))
      BY Zenon, <2>2, <2>3, <3>1, <3>2, LastIsClosed
    <3> QED BY <1>1, <2>5, <3>3 DEF Apart
  <2> QED BY <1>3, <2>4, <2>5
<1> QED BY <1>2, <1>3

LEMMA ApartParseEntry == IInv /\ Apart /\ ParseEntry => Apart'
<1> SUFFICES ASSUME IInv, Apart, ParseEntry PROVE Apart'
  OBVIOUS
<1> DEFINE name    == Token(index)
           op      == Token(name.next)
           value   == Token(op.next)
           section == WithField(Begun(Current, name.at), name.at, value.at)
<1>1. /\ pc = "parse" /\ name.kind = "name"
      /\ index' = (IF op.kind = "op" THEN value.next ELSE op.next)
      /\ UNCHANGED <<text, sections>>
      /\ \/ op.kind = "op" /\ value.kind = "name" /\ Becomes(section) /\ error' = error /\ pc' = pc
         \/ error' = TRUE
  BY DEF ParseEntry, Stops, GoesOn
<1>2. CASE error'
  BY <1>1, <1>2, ApartOutside
<1>3. CASE op.kind = "op" /\ value.kind = "name" /\ Becomes(section) /\ error' = error /\ pc' = pc /\ ~error
  <2>1. /\ text \in Seq(Character) /\ Len(text) \in Nat /\ index \in 1 .. Len(text) + 1
        /\ stack # << >> => Owned(Current) /\ Open(Current, index)
    BY Zenon, <1>1, <1>3, Parsing
  <2>2. IsToken(name, index)
    BY Zenon, <2>1, TokenIsToken
  <2> HIDE DEF name
  <2>3. name.next \in 1 .. Len(text) + 1 /\ name.at[1] \in index .. name.next - 1
    BY <1>1, <2>1, <2>2 DEF IsToken
  <2>4. IsToken(op, name.next)
    BY Zenon, <2>1, <2>3, TokenIsToken
  <2> HIDE DEF op
  <2>5. op.next \in 1 .. Len(text) + 1 /\ name.next <= op.next
    BY <2>1, <2>3, <2>4 DEF IsToken
  <2>6. IsToken(value, op.next)
    BY Zenon, <2>1, <2>5, TokenIsToken
  <2> HIDE DEF value, section
  <2>7. /\ index' = value.next /\ index' \in 1 .. Len(text) + 1 /\ op.next <= index'
        /\ value.at[2] \in Int /\ value.at[2] < index'
    BY <1>1, <1>3, <2>1, <2>5, <2>6 DEF IsToken
  <2>8. stack # << >> => Open(section, index') /\ section.decl = Current.decl
    <3> SUFFICES ASSUME stack # << >> PROVE Open(section, index') /\ section.decl = Current.decl
      OBVIOUS
    <3>1. /\ index \in Int /\ index' \in Int
          /\ name.at[1] \in index .. index' - 1
      BY <2>1, <2>3, <2>5, <2>7
    <3>2. ReadFrom(index, name.at, value.at, index')
      BY Zenon, <2>7, <3>1 DEF ReadFrom
    <3>3. Owned(Current) /\ Open(Current, index)
      BY Zenon, <2>1
    <3> DEFINE longer(at, to) == WithField(Begun(Current, at), at, to)
    <3>4. Open(longer(name.at, value.at), index') /\ longer(name.at, value.at).decl = Current.decl
      BY <3>2, <3>3, FieldKeepsOpen
    <3> QED BY Zenon, <3>4 DEF section
  <2>9. pc' = "parse"
    BY <1>1, <1>3
  <2> QED BY Zenon, <1>1, <1>3, <2>7, <2>8, <2>9, ApartBecomes
<1> QED BY <1>1, <1>2, <1>3

LEMMA ApartParseEnd == IInv /\ Apart /\ ParseEnd => Apart'
<1> SUFFICES ASSUME IInv, Apart, ParseEnd PROVE Apart'
  OBVIOUS
<1>1. /\ pc = "parse" /\ pc' = "return" /\ Token(index).kind = "end"
      /\ index' = Token(index).next
      /\ UNCHANGED <<text, sections, error>>
      /\ Becomes(Ended(Current, index'))
  BY DEF ParseEnd
<1>2. CASE error
  BY <1>1, <1>2, ApartOutside
<1>3. CASE ~error
  <2>1. /\ text \in Seq(Character) /\ Len(text) \in Nat /\ index \in 1 .. Len(text) + 1
        /\ stack # << >> => Owned(Current) /\ Open(Current, index)
    BY Zenon, <1>1, <1>3, Parsing
  <2>2. IsToken(Token(index), index)
    BY Zenon, <2>1, TokenIsToken
  <2>3. index' = Len(text) + 1 /\ index' \in Int /\ index \in Int /\ index <= index' + 1
        /\ index' \in 1 .. Len(text) + 1
    BY <1>1, <2>1, <2>2 DEF IsToken
  <2>4. stack # << >> => /\ Closed(Ended(Current, index'), index')
                         /\ Ended(Current, index').decl = Current.decl
    BY Zenon, <2>1, <2>3, OpenIsClosed
  <2> QED BY Zenon, <1>1, <1>3, <2>3, <2>4, ApartBecomes
<1> QED BY <1>2, <1>3

LEMMA ApartParseSection == IInv /\ Apart /\ ParseSection => Apart'
<1> SUFFICES ASSUME IInv, Apart, ParseSection PROVE Apart'
  OBVIOUS
<1> DEFINE open  == Token(index)
           name  == Token(open.next)
           close == Token(name.next)
           end   == Before(open.at[1])
           ended == Ended(Current, end)
           outer == IF stack = << >> THEN stack ELSE Append(Front(stack), ended)
           found == Section(<<open.at[1], close.at[1]>>, name.at)
<1>1. pc = "parse" /\ open.kind = "separator" /\ UNCHANGED <<text, sections>>
  BY Zenon DEF ParseSection
<1>2. \/ error' = TRUE
      \/ /\ Is(open, "[") /\ name.kind = "name" /\ close.kind = "separator"
         /\ index' = close.next
         /\ stack' = Append(outer, found) /\ error' = error /\ pc' = "parse"
  <2> DEFINE shut == Is(open, "]")
             begins == Is(open, "[") /\ name.kind = "name" /\ close.kind = "separator" /\ Is(close, "]")
  <2>1. Is(open, "[") => ~shut
    BY DEF Is
  <2>2. index' = (IF shut THEN open.next ELSE IF name.kind = "name" THEN close.next ELSE name.next)
    BY Zenon DEF ParseSection
  <2>3. IF begins THEN stack' = Append(outer, found) /\ error' = error /\ pc' = pc ELSE error' = TRUE
    BY Zenon DEF ParseSection, GoesOn, Stops
  <2> HIDE DEF shut, outer, found
  <2> QED BY <1>1, <2>1, <2>2, <2>3
<1>3. CASE error'
  BY <1>1, <1>3, ApartOutside
<1>4. CASE /\ ~error' /\ Is(open, "[") /\ name.kind = "name" /\ close.kind = "separator"
           /\ index' = close.next
           /\ stack' = Append(outer, found) /\ error' = error /\ pc' = "parse"
  <2>1. /\ text \in Seq(Character) /\ Len(text) \in Nat /\ index \in 1 .. Len(text) + 1
        /\ sections.data = << >>
        /\ IsList(stack)
        /\ AllClosed(stack, << >>, Len(stack) - 1, Len(text))
        /\ stack # << >> => Owned(Current) /\ Open(Current, index) /\ Current = stack[Len(stack)]
    BY Zenon, <1>1, <1>4, Parsing
  <2>2. IsToken(open, index)
    BY Zenon, <2>1, TokenIsToken
  <2> HIDE DEF open
  <2>3. open.next \in 1 .. Len(text) + 1 /\ open.at[1] \in index .. open.next - 1
    BY <1>1, <2>1, <2>2 DEF IsToken
  <2>4. IsToken(name, open.next)
    BY Zenon, <2>1, <2>3, TokenIsToken
  <2> HIDE DEF name
  <2>5. name.next \in 1 .. Len(text) + 1
    BY <2>1, <2>3, <2>4 DEF IsToken
  <2>6. IsToken(close, name.next)
    BY Zenon, <2>1, <2>5, TokenIsToken
  <2> HIDE DEF close
  <2>7. index' \in 1 .. Len(text) + 1 /\ close.at[1] \in 1 .. index' - 1
    BY <1>4, <2>1, <2>5, <2>6 DEF IsToken
  <2>8. index' \in Int /\ open.at[1] \in Int
    BY <2>1, <2>3, <2>7
  <2>9. Open(found, index') /\ found.decl[1] = open.at[1]
    <3>1. found.decl = <<open.at[1], close.at[1]>>
      BY DEF Section
    <3>2. Open(found, index')
      BY Zenon, <2>7, <2>8, NewIsOpen
    <3> HIDE DEF found
    <3> QED BY <3>1, <3>2
  <2>10. stack # << >> => /\ end = open.at[1] - 1
                          /\ Closed(ended, open.at[1] - 1)
                          /\ ended.decl = Current.decl
    <3> SUFFICES ASSUME stack # << >>
                 PROVE  /\ end = open.at[1] - 1
                        /\ Closed(ended, open.at[1] - 1) /\ ended.decl = Current.decl
      OBVIOUS
    <3>1. Owned(Current) /\ Open(Current, index)
      BY Zenon, <2>1
    <3>2. index > 1
      BY <2>1, <3>1 DEF Open
    <3>3. end = open.at[1] - 1 /\ end \in Int /\ index <= end + 1 /\ index \in Int
      BY <2>1, <2>3, <3>2 DEF Before
    <3> HIDE DEF end
    <3>4. Closed(ended, end) /\ ended.decl = Current.decl
      BY Zenon, <3>1, <3>3, OpenIsClosed
    <3> HIDE DEF ended
    <3> QED BY Zenon, <3>3, <3>4
  <2> HIDE DEF found, ended, end
  <2>11. /\ IsList(outer)
         /\ AllClosed(outer, << >>, Len(outer) - 1, Len(text))
         /\ outer # << >> => Closed(outer[Len(outer)], found.decl[1] - 1)
    <3>1. CASE stack = << >>
      BY Zenon, <2>1, <3>1
    <3>2. CASE stack # << >>
      <4>1. outer = Append(Front(stack), ended)
        BY Zenon, <3>2
      <4>2. IsList(outer)
        <5>1. IsList(Front(stack))
          BY Zenon, <2>1, <3>2, FrontOfList
        <5> QED BY Zenon, <4>1, <5>1, AppendToList
      <4>3. Len(outer) = Len(stack) /\ outer[Len(stack)] = ended
        BY Zenon, <2>1, <3>2, <4>1, LastReplaced
      <4>4. ended.decl = stack[Len(stack)].decl
        BY Zenon, <2>1, <2>10, <3>2
      <4>5. AllClosed(outer, << >>, Len(stack) - 1, Len(text))
        BY Zenon, <2>1, <3>2, <4>1, <4>4, ClosedBeforeLast
      <4>6. Closed(outer[Len(outer)], found.decl[1] - 1)
        BY Zenon, <2>9, <2>10, <3>2, <4>3
      <4> QED BY Zenon, <4>2, <4>3, <4>5, <4>6
    <3> QED BY Zenon, <3>1, <3>2
  <2> HIDE DEF outer
  <2>12. AllClosed(stack', << >>, Len(outer), Len(text))
    BY Zenon, <1>4, <2>11, NextIsDeclared
  <2>13. Len(stack') = Len(outer) + 1 /\ stack'[Len(outer) + 1] = found /\ Len(outer) \in Nat
    <3>1. Len(outer) \in Nat
      BY Zenon, <2>11, LenOfList
    <3> QED BY Zenon, <1>4, <2>11, <3>1, OneAppended
  <2>14. AllClosed(stack', << >>, Len(stack') - 1, Len(text)) /\ Open(stack'[Len(stack')], index')
    <3>1. Len(stack') - 1 = Len(outer)
      BY <2>13
    <3> QED BY Zenon, <2>9, <2>12, <2>13, <3>1
  <2> QED BY <1>1, <1>4, <2>1, <2>7, <2>14 DEF Apart
<1> QED BY Zenon, <1>2, <1>3, <1>4

LEMMA ApartSectionReturns == IInv /\ Apart /\ SectionReturns => Apart'
<1> SUFFICES ASSUME IInv, Apart, SectionReturns PROVE Apart'
  OBVIOUS
<1>1. /\ pc = "return" /\ pc' = pc /\ stack # << >>
      /\ stack' = Front(stack)
      /\ UNCHANGED <<text, error>>
      /\ sections'.data = sections.data \o <<Last(stack)>>
  BY DEF SectionReturns, Kept
<1>2. IsList(stack) /\ IsList(sections.data)
  BY DEF IInv, AllOwned
<1>3. sections'.data = Append(sections.data, Last(stack))
  <2> DEFINE T == Range(sections.data) \cup {Last(stack)}
  <2>1. sections.data \in Seq(T) /\ Last(stack) \in T
    BY <1>2, SeqMonotonic DEF IsList
  <2> QED BY <1>1, <2>1, AppendIsConcat
<1>4. CASE error'
  BY <1>1, <1>4, ApartOutside
<1>5. CASE ~error'
  <2>1. AllClosed(stack, sections.data, Len(stack) + Len(sections.data), Len(text))
    BY <1>1, <1>5 DEF Apart
  <2>2. AllClosed(Front(stack), Append(sections.data, Last(stack)),
                  Len(Front(stack)) + Len(Append(sections.data, Last(stack))), Len(text))
    BY Zenon, <1>1, <1>2, <2>1, ReturnKeepsOrder
  <2>3. AllClosed(stack', sections'.data, Len(stack') + Len(sections'.data), Len(text'))
    BY Zenon, <1>1, <1>3, <2>2
  <2> QED BY <1>1, <2>3 DEF Apart
<1> QED BY <1>4, <1>5

LEMMA ApartGlobalReturns == Apart /\ GlobalReturns => Apart'
<1> SUFFICES ASSUME Apart, GlobalReturns PROVE Apart'
  OBVIOUS
<1>1. pc = "return" /\ pc' = "parsed" /\ UNCHANGED <<text, stack, sections, error>>
  BY DEF GlobalReturns, result
<1> QED BY <1>1 DEF Apart

LEMMA ApartNext == IInv /\ Apart /\ [Next]_vars => Apart'
<1> SUFFICES ASSUME IInv, Apart, [Next]_vars PROVE Apart'
  OBVIOUS
<1>1. CASE ParseBegin
  BY <1>1, ApartParseBegin
<1>2. CASE ParseEntry
  BY <1>2, ApartParseEntry
<1>3. CASE ParseSection
  BY <1>3, ApartParseSection
<1>4. CASE ParseEnd
  BY <1>4, ApartParseEnd
<1>5. CASE ParseUnknown
  <2>1. error' /\ text' = text
    BY <1>5 DEF ParseUnknown, Stops
  <2> QED BY <2>1, ApartOutside
<1>6. CASE SectionReturns
  BY <1>6, ApartSectionReturns
<1>7. CASE GlobalReturns
  BY <1>7, ApartGlobalReturns
<1>8. CASE Destroy
  <2>1. pc' = "destroyed" /\ text' = text
    BY <1>8 DEF Destroy
  <2> QED BY <2>1, ApartOutside
<1>9. ASSUME NEW name, NEW section,
             GetGlobalEntryValue(name) \/ GetEntryValue(section, name) \/ GetField(section, name)
      PROVE  Apart'
  <2>1. UNCHANGED <<text, index, pc, error, stack, sections>>
    BY <1>9 DEF GetGlobalEntryValue, GetEntryValue, GetField, result
  <2> QED BY <2>1, ApartOutside
<1>10. CASE UNCHANGED vars
  BY <1>10, ApartOutside DEF vars, result
<1> QED BY <1>1, <1>2, <1>3, <1>4, <1>5, <1>6, <1>7, <1>8, <1>9, <1>10 DEF Next

LEMMA ApartIsRight == IInv /\ Apart => ContentsAreApart
<1> SUFFICES ASSUME IInv, Apart, pc = "parsed", ~error PROVE ContentsAreApart
  BY DEF ContentsAreApart
<1> DEFINE array == sections.data
           all   == Reverse(array)
<1>1. stack = << >> /\ Len(<< >>) = 0
  BY EmptyIsList DEF IInv, CallsOpen
<1>2. Len(array) \in Nat
  BY LenOfStack
<1>3. DOMAIN all = 1 .. Len(array) /\ \A n \in 1 .. Len(array) : all[n] = array[Len(array) + 1 - n]
  <2>1. all = [n \in 1 .. Len(array) |-> array[(Len(array) - n) + 1]]
    BY Zenon DEF Reverse
  <2>2. \A n \in 1 .. Len(array) : (Len(array) - n) + 1 = Len(array) + 1 - n
    BY <1>2
  <2> HIDE DEF all
  <2> QED BY <2>1, <2>2
<1>4. Len(all) = Len(array)
  <2>1. all = [n \in 1 .. Len(array) |-> array[(Len(array) - n) + 1]]
    BY Zenon DEF Reverse
  <2> HIDE DEF array
  <2> QED BY <1>2, <2>1
<1>5. AllClosed(<< >>, array, Len(array), Len(text))
  <2>1. AllClosed(stack, array, Len(stack) + Len(array), Len(text))
    BY Zenon DEF Apart
  <2>2. Len(stack) + Len(array) = Len(array)
    BY <1>1, <1>2
  <2> QED BY Zenon, <1>1, <2>1, <2>2
<1> HIDE DEF array, all
<1>6. \A n \in 1 .. Len(array) : SectionAt(<< >>, array, n) = all[n]
  BY <1>1, <1>2, <1>3 DEF SectionAt
<1>7. ASSUME NEW n \in DOMAIN all
      PROVE  Closed(all[n], IF n = Len(all) THEN Len(text) + 1 ELSE all[n + 1].decl[1] - 1)
  <2>1. n \in 1 .. Len(array) /\ (n # Len(array) => n + 1 \in 1 .. Len(array))
    BY <1>2, <1>3
  <2>2. Len(<< >>) + Len(array) = Len(array)
    BY <1>1, <1>2
  <2>3. Closed(SectionAt(<< >>, array, n),
               IF n = Len(<< >>) + Len(array) THEN Len(text) + 1
                                               ELSE SectionAt(<< >>, array, n + 1).decl[1] - 1)
    BY Zenon, <1>5, <2>1 DEF AllClosed
  <2> QED BY Zenon, <1>4, <1>6, <2>1, <2>2, <2>3
<1>8. ASSUME NEW n \in DOMAIN all
      PROVE  /\ all[n].fields # << >> => all[n].content_start = all[n].fields[1].name[1]
             /\ all[n].decl[2] <= all[n].content_start
             /\ all[n].content_start <= all[n].content_end
             /\ all[n].content_end = IF n = Len(all) THEN Len(text) + 1 ELSE all[n + 1].decl[1] - 1
             /\ \A m \in DOMAIN all[n].fields : all[n].fields[m].value[2] <= all[n].content_end
  <2> DEFINE end == IF n = Len(all) THEN Len(text) + 1 ELSE all[n + 1].decl[1] - 1
  <2>1. Closed(all[n], end)
    BY Zenon, <1>7
  <2> HIDE DEF end
  <2>2. all[n].content_end = end
    BY Zenon, <2>1 DEF Closed
  <2> QED BY Zenon, <2>1, <2>2 DEF Closed, Begins, end
<1> QED BY Zenon, <1>8 DEF ContentsAreApart, all, array

\* Whatever the text: when the parser reports no error, the content of a section begins with its
\* first field and ends before the next declaration or with the text, though the calls that read
\* the sections are nested and return, and put them into the array, from the last to the first.
THEOREM KeepsContentsApart == Spec => []ContentsAreApart
<1>1. Init => IInv /\ Apart
  BY InvInit, ApartInit
<1>2. (IInv /\ Apart) /\ [Next]_vars => (IInv /\ Apart)'
  BY InvNext, ApartNext
<1>3. IInv /\ Apart => ContentsAreApart
  BY ApartIsRight
<1> QED BY <1>1, <1>2, <1>3, PTL DEF Spec

----------------------------------------------------------------------------
(***************************************************************************)
(* What is at a place of the text.                                         *)
(***************************************************************************)
BlankAt(n)  == text[n] \in Blank
NewAt(n)    == text[n] = "\n"
NoteAt(n)   == text[n] = ";"
NameAt(n)   == text[n] \in InName
LetterAt(n) == text[n] \in Letter
OpenAt(n)   == text[n] = "["
ShutAt(n)   == text[n] = "]"
OpAt(n)     == text[n] = "="
TabAt(n)    == text[n] = "\t"

LEMMA LettersApart ==
    /\ " " \notin Letter /\ "\t" \notin Letter /\ "\n" \notin Letter /\ ";" \notin Letter
    /\ "[" \notin Letter /\ "]" \notin Letter /\ "=" \notin Letter
  BY Zenon, IniAssumption DEF Blank

LEMMA CharactersApart ==
    ASSUME NEW n
    PROVE  /\ LetterAt(n) => NameAt(n) /\ ~BlankAt(n) /\ ~NewAt(n) /\ ~NoteAt(n)
           /\ OpenAt(n) => ~NameAt(n) /\ ~BlankAt(n) /\ ~NewAt(n) /\ ~NoteAt(n) /\ ~ShutAt(n)
           /\ ShutAt(n) => ~NameAt(n) /\ ~BlankAt(n) /\ ~NewAt(n) /\ ~NoteAt(n) /\ ~OpenAt(n)
           /\ OpAt(n) => ~NameAt(n) /\ ~BlankAt(n) /\ ~NewAt(n) /\ ~NoteAt(n) /\ ~OpenAt(n) /\ ~ShutAt(n)
           /\ TabAt(n) => BlankAt(n) /\ ~NameAt(n)
           /\ NewAt(n) => ~NameAt(n) /\ ~BlankAt(n) /\ ~NoteAt(n)
           /\ NoteAt(n) => NameAt(n) /\ ~BlankAt(n) /\ ~NewAt(n)
<1>1. LetterAt(n) => NameAt(n) /\ ~BlankAt(n) /\ ~NewAt(n) /\ ~NoteAt(n)
  BY Zenon, LettersApart DEF LetterAt, NameAt, BlankAt, NewAt, NoteAt, InName, Blank
<1>2. OpenAt(n) => ~NameAt(n) /\ ~BlankAt(n) /\ ~NewAt(n) /\ ~NoteAt(n) /\ ~ShutAt(n)
  BY Zenon, LettersApart DEF OpenAt, ShutAt, NameAt, BlankAt, NewAt, NoteAt, InName, Blank
<1>3. ShutAt(n) => ~NameAt(n) /\ ~BlankAt(n) /\ ~NewAt(n) /\ ~NoteAt(n) /\ ~OpenAt(n)
  BY Zenon, LettersApart DEF OpenAt, ShutAt, NameAt, BlankAt, NewAt, NoteAt, InName, Blank
<1>4. OpAt(n) => ~NameAt(n) /\ ~BlankAt(n) /\ ~NewAt(n) /\ ~NoteAt(n) /\ ~OpenAt(n) /\ ~ShutAt(n)
  BY Zenon, LettersApart DEF OpAt, OpenAt, ShutAt, NameAt, BlankAt, NewAt, NoteAt, InName, Blank
<1>5. TabAt(n) => BlankAt(n) /\ ~NameAt(n)
  BY Zenon, LettersApart DEF TabAt, NameAt, BlankAt, InName, Blank
<1>6. NewAt(n) => ~NameAt(n) /\ ~BlankAt(n) /\ ~NoteAt(n)
  BY Zenon, LettersApart DEF NameAt, BlankAt, NewAt, NoteAt, InName, Blank
<1>7. NoteAt(n) => NameAt(n) /\ ~BlankAt(n) /\ ~NewAt(n)
  BY Zenon, LettersApart DEF NameAt, BlankAt, NewAt, NoteAt, InName, Blank
<1> QED BY Zenon, <1>1, <1>2, <1>3, <1>4, <1>5, <1>6, <1>7

\* One turn of TokenStart.
LEMMA StartTurn ==
    ASSUME text \in Seq(Character), NEW i \in 1 .. Len(text) + 1
    PROVE  TokenStart(i) = IF i > Len(text) THEN i
                           ELSE IF BlankAt(i) \/ NewAt(i) THEN TokenStart(i + 1)
                           ELSE IF NoteAt(i) THEN TokenStart(AfterComment(i)) ELSE i
<1> DEFINE f == CHOOSE f : IsStart(f)
<1>1. IsStart(f)
  BY Zenon, StartsExist
<1>2. \A n : TokenStart(n) = f[n]
  BY Zenon DEF TokenStart, IsStart, StartsIn
<1> HIDE DEF f
<1>3. f[i] = StartsIn(f, i)
  BY Zenon, <1>1 DEF IsStart
<1>4. text[i] \in Blank \cup {"\n"} <=> BlankAt(i) \/ NewAt(i)
  BY Zenon DEF BlankAt, NewAt
<1>5. text[i] = ";" <=> NoteAt(i)
  BY Zenon DEF NoteAt
<1> QED BY Zenon, <1>2, <1>3, <1>4, <1>5 DEF StartsIn

\* Where the text goes on behind a place; nothing does behind its end.
StartFrom(i) == IF i > Len(text) THEN Len(text) + 1 ELSE TokenStart(i)

LEMMA StartFromIs ==
    ASSUME text \in Seq(Character), NEW i \in 1 .. Len(text) + 1
    PROVE  StartFrom(i) = TokenStart(i)
<1>1. Len(text) \in Nat
  BY LengthIsNatural
<1>2. TokenStart(i) \in i .. Len(text) + 1
  BY StartIsIn
<1> QED BY <1>1, <1>2 DEF StartFrom

LEMMA BlanksAreSkipped ==
    ASSUME text \in Seq(Character), NEW i \in 1 .. Len(text) + 1, NEW n \in i .. Len(text) + 1,
           \A m \in i .. n - 1 : BlankAt(m)
    PROVE  TokenStart(i) = TokenStart(n)
<1>1. Len(text) \in Nat
  BY LengthIsNatural
<1> DEFINE Done == {k \in Nat : i + k <= n => TokenStart(i) = TokenStart(i + k)}
<1>2. 0 \in Done
  <2>1. i + 0 = i
    OBVIOUS
  <2> QED BY <2>1
<1>3. ASSUME NEW k \in Nat, k \in Done PROVE k + 1 \in Done
  <2> SUFFICES ASSUME i + (k + 1) <= n PROVE TokenStart(i) = TokenStart(i + (k + 1))
    OBVIOUS
  <2>1. /\ i + k \in 1 .. Len(text) + 1 /\ ~(i + k > Len(text)) /\ i + k <= n
        /\ i + k \in i .. n - 1 /\ (i + k) + 1 = i + (k + 1)
    BY <1>1
  <2>2. TokenStart(i + k) = TokenStart((i + k) + 1)
    BY Zenon, <2>1, StartTurn
  <2>3. TokenStart(i) = TokenStart(i + k)
    BY <1>3, <2>1
  <2> QED BY <2>1, <2>2, <2>3
<1> HIDE DEF Done
<1>4. n - i \in Done
  BY <1>2, <1>3, AllNumbers
<1>5. i + (n - i) = n /\ i + (n - i) <= n
  BY <1>1
<1> QED BY <1>4, <1>5 DEF Done

----------------------------------------------------------------------------
(***************************************************************************)
(* Lines: from a place on and up to, without, the next.                    *)
(***************************************************************************)
IsLine(i, end) ==
    /\ i \in 1 .. Len(text) + 1 /\ end \in i .. Len(text) + 1
    /\ \A m \in i .. end - 1 : ~NewAt(m)
    /\ end <= Len(text) => NewAt(end)

LEMMA NoteGoesOn ==
    ASSUME text \in Seq(Character), NEW i, NEW end, IsLine(i, end), NEW n \in i .. end - 1, NoteAt(n)
    PROVE  TokenStart(n) = StartFrom(end + 1)
<1> DEFINE ends == {m \in n .. Len(text) : text[m] = "\n"}
<1>1. /\ Len(text) \in Nat /\ n \in 1 .. Len(text) /\ end \in n + 1 .. Len(text) + 1 /\ ~(n > Len(text))
      /\ n \in 1 .. Len(text) + 1
  BY LengthIsNatural DEF IsLine
<1>2. \A m : m \in ends <=> m \in n .. Len(text) /\ NewAt(m)
  BY Zenon DEF NewAt
<1>3. AfterComment(n) = IF ends = {} THEN Len(text) + 1 ELSE 1 + Min(ends)
  BY Zenon DEF AfterComment
<1>4. TokenStart(n) = TokenStart(AfterComment(n))
  BY Zenon, <1>1, StartTurn, CharactersApart
<1> HIDE DEF ends
<1>5. \A m \in ends : end <= m
  BY <1>1, <1>2 DEF IsLine
<1>6. CASE end > Len(text)
  <2>1. ends = {}
    BY <1>1, <1>2, <1>5, <1>6
  <2>2. AfterComment(n) = Len(text) + 1 /\ Len(text) + 1 \in 1 .. Len(text) + 1 /\ Len(text) + 1 > Len(text)
    BY <1>1, <1>3, <2>1
  <2>3. TokenStart(Len(text) + 1) = Len(text) + 1
    BY Zenon, <2>2, StartTurn
  <2>4. end + 1 > Len(text)
    BY <1>1, <1>6
  <2> QED BY Zenon, <1>4, <2>2, <2>3, <2>4 DEF StartFrom
<1>7. CASE ~(end > Len(text))
  <2>1. end \in ends /\ end \in Nat
    BY <1>1, <1>2, <1>7 DEF IsLine
  <2>2. Min(ends) = end
    <3>1. Min(ends) \in ends /\ \A m \in ends : Min(ends) <= m
      BY Zenon, <1>5, <2>1 DEF Min
    <3>2. Min(ends) \in Nat /\ Min(ends) <= end /\ end <= Min(ends)
      BY <1>1, <1>2, <1>5, <2>1, <3>1
    <3> QED BY <2>1, <3>2
  <2>3. AfterComment(n) = end + 1 /\ end + 1 \in 1 .. Len(text) + 1
    BY <1>1, <1>3, <1>7, <2>1, <2>2
  <2> QED BY Zenon, <1>4, <2>3, StartFromIs
<1> QED BY Zenon, <1>6, <1>7

\* A rest is skipped.
LEMMA RestIsSkipped ==
    ASSUME text \in Seq(Character), NEW i, NEW end, IsLine(i, end), NEW n \in i .. end,
           IsRest(n, end - 1)
    PROVE  TokenStart(n) = StartFrom(end + 1)
<1>1. /\ Len(text) \in Nat /\ end \in 1 .. Len(text) + 1 /\ n \in 1 .. Len(text) + 1
      /\ n \in Int /\ end \in Int /\ i \in Int
  BY LengthIsNatural DEF IsLine
<1>2. PICK k \in n .. (end - 1) + 1 : (\A m \in n .. k - 1 : BlankAt(m)) /\ (k <= end - 1 => NoteAt(k))
  BY Zenon DEF IsRest, IsBlank, BlankAt, NoteAt
<1>3. k \in n .. end /\ k \in n .. Len(text) + 1 /\ k \in 1 .. Len(text) + 1
  BY <1>1, <1>2
<1>4. TokenStart(n) = TokenStart(k)
  BY Zenon, <1>1, <1>2, <1>3, BlanksAreSkipped
<1>5. CASE k # end
  <2>1. k \in i .. end - 1 /\ k <= end - 1
    BY <1>1, <1>3, <1>5
  <2> QED BY Zenon, <1>2, <1>4, <2>1, NoteGoesOn
<1>6. CASE k = end
  <2>1. CASE end > Len(text)
    <3>1. end + 1 > Len(text) /\ end = Len(text) + 1
      BY <1>1, <2>1
    <3>2. TokenStart(end) = end
      BY Zenon, <1>1, <2>1, StartTurn
    <3> QED BY Zenon, <1>4, <1>6, <3>1, <3>2 DEF StartFrom
  <2>2. CASE ~(end > Len(text))
    <3>1. NewAt(end) /\ end + 1 \in 1 .. Len(text) + 1
      BY <1>1, <2>2 DEF IsLine
    <3>2. TokenStart(end) = TokenStart(end + 1)
      BY Zenon, <1>1, <2>2, <3>1, StartTurn
    <3> QED BY Zenon, <1>4, <1>6, <3>1, <3>2, StartFromIs
  <2> QED BY Zenon, <2>1, <2>2
<1> QED BY Zenon, <1>5, <1>6

----------------------------------------------------------------------------
\* A sign is a token of its own.
LEMMA SignIsToken ==
    ASSUME text \in Seq(Character), NEW i \in 1 .. Len(text) + 1, NEW n \in i .. Len(text),
           \A m \in i .. n - 1 : BlankAt(m), OpenAt(n) \/ ShutAt(n) \/ OpAt(n)
    PROVE  Token(i) = [kind |-> IF OpAt(n) THEN "op" ELSE "separator", at |-> <<n, n>>, next |-> n + 1]
<1>1. Len(text) \in Nat /\ n \in 1 .. Len(text) + 1 /\ ~(n > Len(text)) /\ n \in i .. Len(text) + 1
  BY LengthIsNatural
<1>2. TokenStart(n) = n
  BY Zenon, <1>1, StartTurn, CharactersApart
<1>3. TokenStart(i) = n
  BY Zenon, <1>1, <1>2, BlanksAreSkipped
<1>4. TokenKind(n) = IF OpAt(n) THEN "op" ELSE "separator"
  <2>1. text[n] \in {"[", "]"} <=> OpenAt(n) \/ ShutAt(n)
    BY Zenon DEF OpenAt, ShutAt
  <2>2. text[n] = "=" <=> OpAt(n)
    BY Zenon DEF OpAt
  <2> QED BY Zenon, <1>1, <2>1, <2>2, CharactersApart DEF TokenKind
<1>5. TokenKind(n) # "name" /\ TokenKind(n) # "end" /\ TokenKind(n) # "unknown"
  BY Zenon, <1>4
<1>6. TokenEnd(n) = n
  BY Zenon, <1>5 DEF TokenEnd
<1> QED BY Zenon, <1>3, <1>4, <1>5, <1>6 DEF Token

\* A word is a name up to where no character of a name is.
LEMMA WordIsToken ==
    ASSUME text \in Seq(Character), NEW i \in 1 .. Len(text) + 1, NEW n \in i .. Len(text),
           NEW end \in n .. Len(text),
           \A m \in i .. n - 1 : BlankAt(m), LetterAt(n), \A m \in n .. end : NameAt(m),
           end < Len(text) => ~NameAt(end + 1)
    PROVE  Token(i) = [kind |-> "name", at |-> <<n, end>>, next |-> end + 1]
<1>1. Len(text) \in Nat /\ n \in 1 .. Len(text) + 1 /\ ~(n > Len(text)) /\ n \in i .. Len(text) + 1
  BY LengthIsNatural
<1>2. TokenStart(n) = n
  BY Zenon, <1>1, StartTurn, CharactersApart
<1>3. TokenStart(i) = n
  BY Zenon, <1>1, <1>2, BlanksAreSkipped
<1>4. TokenKind(n) = "name"
  <2>1. text[n] \in {"[", "]"} <=> OpenAt(n) \/ ShutAt(n)
    BY Zenon DEF OpenAt, ShutAt
  <2>2. text[n] = "=" <=> OpAt(n)
    BY Zenon DEF OpAt
  <2>3. text[n] \in InName <=> NameAt(n)
    BY Zenon DEF NameAt
  <2> QED BY Zenon, <1>1, <2>1, <2>2, <2>3, CharactersApart DEF TokenKind
<1> DEFINE IsEnd(x) == /\ \A m \in n .. x : NameAt(m)
                       /\ x < Len(text) => ~NameAt(x + 1)
<1>5. TokenEnd(n) = CHOOSE x \in n .. Len(text) : IsEnd(x)
  BY Zenon, <1>4 DEF TokenEnd, NameAt
<1>6. \A x \in n .. Len(text) : IsEnd(x) => x = end
  <2> SUFFICES ASSUME NEW x \in n .. Len(text), IsEnd(x) PROVE x = end
    OBVIOUS
  <2>1. CASE x < end
    <3>1. x + 1 \in n .. end /\ x < Len(text)
      BY <1>1, <2>1
    <3> QED BY Zenon, <3>1
  <2>2. CASE end < x
    <3>1. end + 1 \in n .. x /\ end < Len(text)
      BY <1>1, <2>2
    <3> QED BY Zenon, <3>1
  <2> QED BY <1>1, <2>1, <2>2
<1>7. IsEnd(end)
  OBVIOUS
<1> HIDE DEF IsEnd
<1>8. TokenEnd(n) = end
  BY Zenon, <1>5, <1>6, <1>7
<1>9. TokenKind(n) # "end" /\ TokenKind(n) # "unknown"
  BY Zenon, <1>4
<1> QED BY Zenon, <1>3, <1>4, <1>8, <1>9 DEF Token

----------------------------------------------------------------------------
\* The words of a line, and what they stand between.
IsWordIn(w, i, j) ==
    /\ w = <<w[1], w[2]>>
    /\ w[1] \in i .. j /\ w[2] \in w[1] .. j
    /\ LetterAt(w[1])
    /\ \A n \in w[1] .. w[2] : NameAt(n)

Blanks(i, j) == \A n \in i .. j : BlankAt(n)

Gap(i, j) == Blanks(i, j) /\ (i <= j => TabAt(i))

\* w is declared, and the value v given to w, by the line from i up to end.
IsDeclaration(i, end, open, w, shut) ==
    /\ IsWordIn(w, i, end - 1) /\ open \in i .. w[1] - 1 /\ shut \in w[2] + 1 .. end - 1
    /\ Blanks(i, open - 1) /\ OpenAt(open) /\ Blanks(open + 1, w[1] - 1)
    /\ ShutAt(shut) /\ Gap(w[2] + 1, shut - 1)
    /\ IsRest(shut + 1, end - 1)

IsAssignment(i, end, w, op, v) ==
    /\ IsWordIn(w, i, end - 1) /\ IsWordIn(v, i, end - 1) /\ op \in w[2] + 1 .. v[1] - 1
    /\ Blanks(i, w[1] - 1) /\ OpAt(op) /\ Gap(w[2] + 1, op - 1) /\ Blanks(op + 1, v[1] - 1)
    /\ v[2] < end - 1 => TabAt(v[2] + 1)
    /\ IsRest(v[2] + 1, end - 1)

LEMMA WordsAreWords ==
    ASSUME NEW i \in Int, NEW j \in Int, NEW w
    PROVE  w \in WordsIn(i, j) <=> IsWordIn(w, i, j)
<1>1. w \in WordsIn(i, j) => IsWordIn(w, i, j)
  <2> SUFFICES ASSUME w \in WordsIn(i, j) PROVE IsWordIn(w, i, j)
    OBVIOUS
  <2>1. /\ w \in (i .. j) \X (i .. j) /\ w[1] <= w[2] /\ LetterAt(w[1])
        /\ \A n \in w[1] .. w[2] : NameAt(n)
    BY Zenon DEF WordsIn, LetterAt, NameAt
  <2>2. w = <<w[1], w[2]>> /\ w[1] \in i .. j /\ w[2] \in w[1] .. j
    BY <2>1
  <2> QED BY Zenon, <2>1, <2>2 DEF IsWordIn
<1>2. IsWordIn(w, i, j) => w \in WordsIn(i, j)
  <2> SUFFICES ASSUME IsWordIn(w, i, j) PROVE w \in WordsIn(i, j)
    OBVIOUS
  <2>1. w = <<w[1], w[2]>> /\ w[1] \in i .. j /\ w[2] \in w[1] .. j
    BY Zenon DEF IsWordIn
  <2>2. w \in (i .. j) \X (i .. j) /\ w[1] <= w[2]
    <3>1. <<w[1], w[2]>> \in (i .. j) \X (i .. j) /\ w[1] <= w[2]
      BY <2>1
    <3> QED BY Zenon, <2>1, <3>1
  <2> QED BY Zenon, <2>2 DEF WordsIn, LetterAt, NameAt, IsWordIn
<1> QED BY Zenon, <1>1, <1>2

LEMMA DeclaredAre ==
    ASSUME NEW i \in Int, NEW end \in Int, NEW name
    PROVE  name \in DeclaredIn(i, end - 1) <=>
               \E w, open, shut : IsDeclaration(i, end, open, w, shut) /\ name = Word(w)
<1>0. end - 1 \in Int
  OBVIOUS
<1>1. name \in DeclaredIn(i, end - 1) <=>
        \E w \in WordsIn(i, end - 1) : /\ name = Word(w)
                                       /\ \E open \in i .. w[1] - 1, shut \in w[2] + 1 .. end - 1 :
                                             /\ Blanks(i, open - 1) /\ OpenAt(open) /\ Blanks(open + 1, w[1] - 1)
                                             /\ ShutAt(shut) /\ Gap(w[2] + 1, shut - 1)
                                             /\ IsRest(shut + 1, end - 1)
  BY Zenon DEF DeclaredIn, EndsAt, IsGap, IsBlank, Blanks, Gap, BlankAt, TabAt, OpenAt, ShutAt
<1>2. \A w : w \in WordsIn(i, end - 1) <=> IsWordIn(w, i, end - 1)
  BY Zenon, <1>0, WordsAreWords
<1> QED BY Zenon, <1>1, <1>2 DEF IsDeclaration

\* The line says this entry.
IsEntry(entry, i, end) ==
    \E w, op, v : IsAssignment(i, end, w, op, v) /\ entry = [name |-> Word(w), value |-> Word(v)]

LEMMA EntriesAre ==
    ASSUME NEW i \in Int, NEW end \in Int, NEW entry
    PROVE  entry \in EntriesIn(i, end - 1) <=> IsEntry(entry, i, end)
<1>0. end - 1 \in Int
  OBVIOUS
<1> DEFINE AreEntry(w, v) ==
        /\ Blanks(i, w[1] - 1)
        /\ \E op \in w[2] + 1 .. v[1] - 1 : OpAt(op) /\ Gap(w[2] + 1, op - 1) /\ Blanks(op + 1, v[1] - 1)
        /\ v[2] < end - 1 => TabAt(v[2] + 1)
        /\ IsRest(v[2] + 1, end - 1)
<1>1. entry \in EntriesIn(i, end - 1) <=>
        \E e \in WordsIn(i, end - 1) \X WordsIn(i, end - 1) :
            AreEntry(e[1], e[2]) /\ entry = [name |-> Word(e[1]), value |-> Word(e[2])]
  BY Zenon DEF EntriesIn, EndsAt, IsGap, IsBlank, Blanks, Gap, BlankAt, TabAt, OpAt
<1>2. \A w : w \in WordsIn(i, end - 1) <=> IsWordIn(w, i, end - 1)
  BY Zenon, <1>0, WordsAreWords
<1> HIDE DEF AreEntry
<1> DEFINE Words == WordsIn(i, end - 1)
           Says(w, v) == AreEntry(w, v) /\ entry = [name |-> Word(w), value |-> Word(v)]
<1>3. (\E e \in Words \X Words : Says(e[1], e[2])) <=> (\E w, v \in Words : Says(w, v))
  <2> HIDE DEF Words, Says
  <2>1. ASSUME NEW e \in Words \X Words, Says(e[1], e[2]) PROVE \E w, v \in Words : Says(w, v)
    <3>1. e[1] \in Words /\ e[2] \in Words
      OBVIOUS
    <3> QED BY Zenon, <2>1, <3>1
  <2>2. ASSUME NEW w \in Words, NEW v \in Words, Says(w, v) PROVE \E e \in Words \X Words : Says(e[1], e[2])
    <3>1. <<w, v>> \in Words \X Words /\ <<w, v>>[1] = w /\ <<w, v>>[2] = v
      OBVIOUS
    <3> QED BY Zenon, <2>2, <3>1
  <2> QED BY Zenon, <2>1, <2>2
<1>4. entry \in EntriesIn(i, end - 1) <=> (\E w, v \in Words : Says(w, v))
  BY Zenon, <1>1, <1>3
<1> QED BY Zenon, <1>2, <1>4 DEF IsAssignment, IsEntry, AreEntry

----------------------------------------------------------------------------
(***************************************************************************)
(* What the tokenizer makes of a line. after is where the text goes on.    *)
(***************************************************************************)
\* The tokens from i on are those of a declaration.
Declares(i, after) ==
    LET open == Token(i)
        name == Token(open.next)
        shut == Token(name.next)
    IN  /\ open.kind = "separator" /\ OpenAt(open.at[1])
        /\ name.kind = "name"
        /\ shut.kind = "separator" /\ ShutAt(shut.at[1])
        /\ shut.next \in 1 .. Len(text) + 1 /\ TokenStart(shut.next) = after

\* The tokens from i on are those of an entry.
Assigns(i, after) ==
    LET name  == Token(i)
        op    == Token(name.next)
        value == Token(op.next)
    IN  /\ name.kind = "name"
        /\ op.kind = "op"
        /\ value.kind = "name"
        /\ value.next \in 1 .. Len(text) + 1 /\ TokenStart(value.next) = after

NameDeclared(i) == Token(Token(i).next).at
NameAssigned(i) == Token(i).at
ValueAssigned(i) == Token(Token(Token(i).next).next).at

LEMMA WordEnds ==
    ASSUME text \in Seq(Character), NEW i, NEW end, IsLine(i, end), NEW w, IsWordIn(w, i, end - 1),
           w[2] = end - 1 \/ ShutAt(w[2] + 1) \/ TabAt(w[2] + 1) \/ OpAt(w[2] + 1),
           NEW from \in i .. w[1], Blanks(from, w[1] - 1)
    PROVE  Token(from) = [kind |-> "name", at |-> w, next |-> w[2] + 1]
<1>1. /\ Len(text) \in Nat /\ i \in 1 .. Len(text) + 1 /\ end \in i .. Len(text) + 1
      /\ i \in Int /\ end \in Int
      /\ end <= Len(text) => NewAt(end)
  BY LengthIsNatural DEF IsLine
<1>2. w = <<w[1], w[2]>> /\ w[1] \in i .. end - 1 /\ w[2] \in w[1] .. end - 1 /\ LetterAt(w[1])
      /\ \A n \in w[1] .. w[2] : NameAt(n)
  BY Zenon DEF IsWordIn
<1> DEFINE a == w[1]
           z == w[2]
<1> HIDE DEF a, z
<1>3. a \in i .. end - 1 /\ z \in a .. end - 1 /\ from \in i .. a
  BY Zenon, <1>2 DEF a, z
<1>4. from \in 1 .. Len(text) + 1 /\ a \in from .. Len(text) /\ z \in a .. Len(text)
  BY <1>1, <1>3
<1>5. z < Len(text) => ~NameAt(z + 1)
  <2>1. CASE z = end - 1
    <3>1. z < Len(text) => z + 1 = end /\ end <= Len(text)
      BY <1>1, <1>3, <2>1
    <3> QED BY Zenon, <1>1, <3>1, CharactersApart
  <2>2. CASE z # end - 1
    BY Zenon, <2>2, CharactersApart DEF z
  <2> QED BY Zenon, <2>1, <2>2
<1>6. \A m \in from .. a - 1 : BlankAt(m)
  BY Zenon DEF Blanks, a
<1>7. LetterAt(a) /\ \A m \in a .. z : NameAt(m)
  BY Zenon, <1>2 DEF a, z
<1>8. Token(from) = [kind |-> "name", at |-> <<a, z>>, next |-> z + 1]
  BY Zenon, <1>4, <1>5, <1>6, <1>7, WordIsToken
<1> QED BY Zenon, <1>2, <1>8 DEF a, z

LEMMA DeclarationIs ==
    ASSUME text \in Seq(Character), NEW i, NEW end, IsLine(i, end),
           NEW open, NEW w, NEW shut, IsDeclaration(i, end, open, w, shut)
    PROVE  Declares(i, StartFrom(end + 1)) /\ NameDeclared(i) = w
<1>1. /\ Len(text) \in Nat /\ i \in 1 .. Len(text) + 1 /\ end \in i .. Len(text) + 1
      /\ i \in Int /\ end \in Int
  BY LengthIsNatural DEF IsLine
<1> DEFINE a == w[1]
           z == w[2]
<1> HIDE DEF a, z
<1>2. /\ a \in i .. end - 1 /\ z \in a .. end - 1
      /\ open \in i .. a - 1 /\ shut \in z + 1 .. end - 1
  BY Zenon DEF a, z, IsDeclaration, IsWordIn
<1>3. /\ open \in i .. Len(text) /\ open + 1 \in i .. a
      /\ shut \in 1 .. Len(text) /\ z + 1 \in 1 .. Len(text) + 1 /\ shut \in z + 1 .. Len(text)
      /\ shut + 1 \in i .. end /\ shut + 1 \in 1 .. Len(text) + 1
  BY <1>1, <1>2
<1>4. Token(i) = [kind |-> "separator", at |-> <<open, open>>, next |-> open + 1]
  <2>1. OpenAt(open) /\ \A m \in i .. open - 1 : BlankAt(m)
    BY Zenon DEF IsDeclaration, Blanks
  <2>2. ~OpAt(open)
    BY Zenon, <2>1, CharactersApart
  <2> QED BY Zenon, <1>1, <1>3, <2>1, <2>2, SignIsToken
<1>5. Token(open + 1) = [kind |-> "name", at |-> w, next |-> z + 1]
  <2>1. z = end - 1 \/ ShutAt(z + 1) \/ TabAt(z + 1)
    <3>1. CASE shut = z + 1
      BY Zenon, <3>1 DEF IsDeclaration
    <3>2. CASE shut # z + 1
      <4>1. z + 1 <= shut - 1
        BY <1>1, <1>2, <3>2
      <4> QED BY Zenon, <4>1 DEF IsDeclaration, Gap, z
    <3> QED BY Zenon, <3>1, <3>2
  <2>2. Blanks(open + 1, w[1] - 1) /\ IsWordIn(w, i, end - 1)
    BY Zenon DEF IsDeclaration
  <2> QED BY Zenon, <1>3, <2>1, <2>2, WordEnds DEF a, z
<1>6. Token(z + 1) = [kind |-> "separator", at |-> <<shut, shut>>, next |-> shut + 1]
  <2>1. ShutAt(shut) /\ \A m \in z + 1 .. shut - 1 : BlankAt(m)
    BY Zenon DEF IsDeclaration, Gap, Blanks, z
  <2>2. ~OpAt(shut)
    BY Zenon, <2>1, CharactersApart
  <2> QED BY Zenon, <1>3, <2>1, <2>2, SignIsToken
<1>7. TokenStart(shut + 1) = StartFrom(end + 1)
  <2>1. IsRest(shut + 1, end - 1)
    BY Zenon DEF IsDeclaration
  <2> QED BY Zenon, <1>3, <2>1, RestIsSkipped
<1>8. OpenAt(open) /\ ShutAt(shut)
  BY Zenon DEF IsDeclaration
<1> DEFINE t == Token(i)
           n == Token(open + 1)
           s == Token(z + 1)
<1>9. /\ t.kind = "separator" /\ t.at[1] = open /\ t.next = open + 1
      /\ n.kind = "name" /\ n.at = w /\ n.next = z + 1
      /\ s.kind = "separator" /\ s.at[1] = shut /\ s.next = shut + 1
  <2> HIDE DEF t, n, s
  <2>1. t.kind = "separator" /\ t.at[1] = open /\ t.next = open + 1
    BY <1>4 DEF t
  <2>2. n.kind = "name" /\ n.at = w /\ n.next = z + 1
    BY <1>5 DEF n
  <2>3. s.kind = "separator" /\ s.at[1] = shut /\ s.next = shut + 1
    BY <1>6 DEF s
  <2> QED BY Zenon, <2>1, <2>2, <2>3
<1> QED BY Zenon, <1>3, <1>7, <1>8, <1>9 DEF Declares, NameDeclared

LEMMA AssignmentIs ==
    ASSUME text \in Seq(Character), NEW i, NEW end, IsLine(i, end),
           NEW w, NEW op, NEW v, IsAssignment(i, end, w, op, v)
    PROVE  Assigns(i, StartFrom(end + 1)) /\ NameAssigned(i) = w /\ ValueAssigned(i) = v
<1>1. /\ Len(text) \in Nat /\ i \in 1 .. Len(text) + 1 /\ end \in i .. Len(text) + 1
      /\ i \in Int /\ end \in Int
  BY LengthIsNatural DEF IsLine
<1> DEFINE a == w[1]
           z == w[2]
           c == v[1]
           e == v[2]
<1> HIDE DEF a, z, c, e
<1>2. /\ a \in i .. end - 1 /\ z \in a .. end - 1 /\ c \in i .. end - 1 /\ e \in c .. end - 1
      /\ op \in z + 1 .. c - 1
  BY Zenon DEF a, z, c, e, IsAssignment, IsWordIn
<1>3. /\ i \in i .. a /\ z + 1 \in 1 .. Len(text) + 1 /\ op \in z + 1 .. Len(text)
      /\ op + 1 \in i .. c /\ e + 1 \in i .. end /\ e + 1 \in 1 .. Len(text) + 1
  BY <1>1, <1>2
<1>4. Token(i) = [kind |-> "name", at |-> w, next |-> z + 1]
  <2>1. OpAt(z + 1) \/ TabAt(z + 1)
    <3>1. CASE op = z + 1
      BY Zenon, <3>1 DEF IsAssignment
    <3>2. CASE op # z + 1
      <4>1. z + 1 <= op - 1
        BY <1>1, <1>2, <3>2
      <4> QED BY Zenon, <4>1 DEF IsAssignment, Gap, z
    <3> QED BY Zenon, <3>1, <3>2
  <2>2. Blanks(i, w[1] - 1) /\ IsWordIn(w, i, end - 1)
    BY Zenon DEF IsAssignment
  <2> QED BY Zenon, <1>3, <2>1, <2>2, WordEnds DEF a, z
<1>5. Token(z + 1) = [kind |-> "op", at |-> <<op, op>>, next |-> op + 1]
  <2>1. OpAt(op) /\ \A m \in z + 1 .. op - 1 : BlankAt(m)
    BY Zenon DEF IsAssignment, Gap, Blanks, z
  <2> QED BY Zenon, <1>3, <2>1, SignIsToken
<1>6. Token(op + 1) = [kind |-> "name", at |-> v, next |-> e + 1]
  <2>1. e = end - 1 \/ TabAt(e + 1)
    <3>1. CASE e < end - 1
      BY Zenon, <3>1 DEF IsAssignment, e
    <3>2. CASE ~(e < end - 1)
      BY <1>1, <1>2, <3>2
    <3> QED BY Zenon, <3>1, <3>2
  <2>2. Blanks(op + 1, v[1] - 1) /\ IsWordIn(v, i, end - 1)
    BY Zenon DEF IsAssignment
  <2> QED BY Zenon, <1>3, <2>1, <2>2, WordEnds DEF c, e
<1>7. TokenStart(e + 1) = StartFrom(end + 1)
  <2>1. IsRest(e + 1, end - 1)
    BY Zenon DEF IsAssignment, e
  <2> QED BY Zenon, <1>3, <2>1, RestIsSkipped
<1> DEFINE t == Token(i)
           s == Token(z + 1)
           n == Token(op + 1)
<1>9. /\ t.kind = "name" /\ t.at = w /\ t.next = z + 1
      /\ s.kind = "op" /\ s.next = op + 1
      /\ n.kind = "name" /\ n.at = v /\ n.next = e + 1
  <2> HIDE DEF t, n, s
  <2>1. t.kind = "name" /\ t.at = w /\ t.next = z + 1
    BY <1>4 DEF t
  <2>2. n.kind = "name" /\ n.at = v /\ n.next = e + 1
    BY <1>6 DEF n
  <2>3. s.kind = "op" /\ s.next = op + 1
    BY <1>5 DEF s
  <2> QED BY Zenon, <2>1, <2>2, <2>3
<1> QED BY Zenon, <1>3, <1>7, <1>9 DEF Assigns, NameAssigned, ValueAssigned

----------------------------------------------------------------------------
(***************************************************************************)
(* What the lines up to a place say.                                       *)
(***************************************************************************)
ReadTo(f, n) ==
    IF n = 0 THEN Nothing
    ELSE IF n <= Len(text) /\ ~NewAt(n) THEN f[n - 1]
    ELSE ReadLine(f[n - 1], n)

\* The function Lines is made of, under a name.
IsReading(f) == f = [n \in 0 .. Len(text) + 1 |-> ReadTo(f, n)]

Reading == CHOOSE f : IsReading(f)

LEMMA ReadingExists ==
    ASSUME Len(text) \in Nat
    PROVE  \E f : IsReading(f)
<1> DEFINE Reads(m, f) == f = [n \in 0 .. m |-> ReadTo(f, n)]
           Done == {m \in Nat : \E f : Reads(m, f)}
<1>1. 0 \in Done
  <2> DEFINE f == [n \in 0 .. 0 |-> Nothing]
  <2>1. \A n \in 0 .. 0 : f[n] = ReadTo(f, n)
    <3>1. \A n \in 0 .. 0 : n = 0 /\ f[n] = Nothing
      OBVIOUS
    <3> HIDE DEF f
    <3> QED BY Zenon, <3>1 DEF ReadTo
  <2>2. f = [n \in 0 .. 0 |-> f[n]]
    OBVIOUS
  <2> HIDE DEF f
  <2>3. Reads(0, f)
    BY <2>1, <2>2
  <2> QED BY <2>3
<1>2. ASSUME NEW m \in Nat, m \in Done PROVE m + 1 \in Done
  <2>1. PICK f : Reads(m, f)
    BY <1>2
  <2> DEFINE g == [n \in 0 .. m + 1 |-> ReadTo(f, n)]
  <2>2. \A n \in 0 .. m : f[n] = ReadTo(f, n)
    BY Zenon, <2>1
  <2>3. \A n \in 0 .. m : g[n] = f[n]
    <3>1. \A n \in 0 .. m : n \in 0 .. m + 1
      OBVIOUS
    <3> QED BY Zenon, <2>2, <3>1
  <2>4. \A n \in 0 .. m + 1 : g[n] = ReadTo(g, n)
    <3> SUFFICES ASSUME NEW n \in 0 .. m + 1 PROVE g[n] = ReadTo(g, n)
      OBVIOUS
    <3>1. g[n] = ReadTo(f, n)
      OBVIOUS
    <3>2. n # 0 => n - 1 \in 0 .. m
      OBVIOUS
    <3>3. n # 0 => g[n - 1] = f[n - 1]
      BY Zenon, <2>3, <3>2
    <3> HIDE DEF g
    <3> QED BY Zenon, <3>1, <3>3 DEF ReadTo
  <2>5. g = [n \in 0 .. m + 1 |-> g[n]]
    OBVIOUS
  <2> HIDE DEF g
  <2>6. Reads(m + 1, g)
    BY Zenon, <2>4, <2>5
  <2> HIDE DEF Reads
  <2> QED BY <2>6
<1> HIDE DEF Done
<1>3. Len(text) + 1 \in Done
  BY <1>1, <1>2, AllNumbers
<1> QED BY <1>3 DEF Done, IsReading

LEMMA ReadingGoesOn ==
    ASSUME Len(text) \in Nat
    PROVE  /\ Lines = Reading[Len(text) + 1]
           /\ Reading[0] = Nothing
           /\ \A n \in 1 .. Len(text) + 1 :
                 Reading[n] = IF n <= Len(text) /\ ~NewAt(n) THEN Reading[n - 1]
                              ELSE ReadLine(Reading[n - 1], n)
<1>1. IsReading(Reading)
  BY Zenon, ReadingExists DEF Reading
<1>2. Lines = Reading[Len(text) + 1]
  BY Zenon DEF Lines, Reading, IsReading, ReadTo, NewAt
<1>3. 0 \in 0 .. Len(text) + 1
  OBVIOUS
<1>4. Reading[0] = Nothing
  BY Zenon, <1>1, <1>3 DEF IsReading, ReadTo
<1>5. ASSUME NEW n \in 1 .. Len(text) + 1
      PROVE  Reading[n] = IF n <= Len(text) /\ ~NewAt(n) THEN Reading[n - 1]
                          ELSE ReadLine(Reading[n - 1], n)
  <2>1. n \in 0 .. Len(text) + 1 /\ n # 0
    OBVIOUS
  <2>2. Reading[n] = ReadTo(Reading, n)
    BY Zenon, <1>1, <2>1 DEF IsReading
  <2> QED BY Zenon, <2>1, <2>2 DEF ReadTo
<1> QED BY Zenon, <1>2, <1>4, <1>5

\* Sections as the lines have them.
Told(s) ==
    /\ IsList(s) /\ s # << >>
    /\ \A section \in Range(s) :
          section = [name |-> section.name, fields |-> section.fields] /\ IsList(section.fields)

\* What is known behind a line.
IsReport(r) ==
    /\ r = [from |-> r.from, regular |-> r.regular, sections |-> r.sections]
    /\ r.regular \in BOOLEAN
    /\ Told(r.sections)

\* One section, or one entry of the last section, more.
WithSection(s, name) == Append(s, [name |-> name, fields |-> << >>])

WithEntry(s, name, value) ==
    Append(Front(s), [name   |-> Last(s).name,
                      fields |-> Append(Last(s).fields, [name |-> name, value |-> value])])

LEMMA SectionIsTold ==
    ASSUME NEW s, Told(s), NEW name
    PROVE  Told(WithSection(s, name))
<1> DEFINE e == [name |-> name, fields |-> << >>]
<1>1. e = [name |-> e.name, fields |-> e.fields] /\ e.fields = << >>
  OBVIOUS
<1>2. IsList(e.fields)
  BY Zenon, <1>1, EmptyIsList
<1> HIDE DEF e
<1>3. IsList(s)
  BY Zenon DEF Told
<1>4. IsList(Append(s, e)) /\ Range(Append(s, e)) \subseteq Range(s) \cup {e}
  BY Zenon, <1>3, AppendToList
<1>5. Append(s, e) # << >>
  BY Zenon, <1>3, OneAppended
<1>6. Told(Append(s, e))
  BY <1>1, <1>2, <1>4, <1>5 DEF Told
<1> QED BY Zenon, <1>6 DEF WithSection, e

LEMMA EntryIsTold ==
    ASSUME NEW s, Told(s), NEW name, NEW value
    PROVE  Told(WithEntry(s, name, value))
<1> DEFINE f == Append(Last(s).fields, [name |-> name, value |-> value])
           e == [name |-> Last(s).name, fields |-> f]
<1>1. e = [name |-> e.name, fields |-> e.fields] /\ e.fields = f
  OBVIOUS
<1>2. IsList(s) /\ s # << >>
  BY Zenon DEF Told
<1>3. /\ IsList(Front(s)) /\ Range(Front(s)) \subseteq Range(s)
      /\ Last(s) \in Range(s)
  BY Zenon, <1>2, FrontOfList
<1>4. IsList(f)
  <2>1. IsList(Last(s).fields)
    BY Zenon, <1>3 DEF Told
  <2> QED BY Zenon, <2>1, AppendToList
<1>5. IsList(e.fields)
  BY Zenon, <1>1, <1>4
<1> HIDE DEF e
<1>6. IsList(Append(Front(s), e)) /\ Range(Append(Front(s), e)) \subseteq Range(Front(s)) \cup {e}
  BY Zenon, <1>3, AppendToList
<1>7. Append(Front(s), e) # << >>
  BY Zenon, <1>2, LastReplaced
<1> HIDE DEF f
<1>8. Told(Append(Front(s), e))
  BY <1>1, <1>3, <1>5, <1>6, <1>7 DEF Told
<1> QED BY Zenon, <1>8 DEF WithEntry, e, f

\* What a line adds to a report, by the tokens that are there.
Adds(r, q, after) ==
    \/ /\ q.regular /\ q.sections = r.sections
       /\ TokenStart(r.from) = after
    \/ /\ q.regular /\ Declares(r.from, after)
       /\ q.sections = WithSection(r.sections, Word(NameDeclared(r.from)))
    \/ /\ q.regular /\ Assigns(r.from, after)
       /\ q.sections = WithEntry(r.sections, Word(NameAssigned(r.from)), Word(ValueAssigned(r.from)))
    \/ ~q.regular /\ q.sections = r.sections

LEMMA LineAdds ==
    ASSUME text \in Seq(Character), NEW r, IsReport(r), r.regular, NEW end, IsLine(r.from, end)
    PROVE  /\ IsReport(ReadLine(r, end))
           /\ ReadLine(r, end).regular => ReadLine(r, end).from = end + 1
           /\ Adds(r, ReadLine(r, end), StartFrom(end + 1))
<1> DEFINE i == r.from
           declared == DeclaredIn(i, end - 1)
           entries == EntriesIn(i, end - 1)
           going(all) == [from |-> end + 1, regular |-> TRUE, sections |-> all]
           after == StartFrom(end + 1)
           q == ReadLine(r, end)
           name == CHOOSE n \in declared : TRUE
           entry == CHOOSE e \in entries : TRUE
<1>0. i \in Int /\ end \in Int /\ end - 1 \in Int /\ i \in i .. end /\ Told(r.sections)
  BY LengthIsNatural DEF IsLine, IsReport
<1>1. q = IF IsRest(i, end - 1) THEN going(r.sections)
          ELSE IF declared # {} THEN going(Append(r.sections, [name |-> name, fields |-> << >>]))
          ELSE IF entries # {} THEN
              going(Append(Front(r.sections), [name   |-> Last(r.sections).name,
                                               fields |-> Append(Last(r.sections).fields, entry)]))
          ELSE [r EXCEPT !.regular = FALSE]
  BY Zenon DEF ReadLine
<1>2. \A all : Told(all) => /\ IsReport(going(all)) /\ going(all).regular /\ going(all).from = end + 1
                            /\ going(all).sections = all
  BY DEF IsReport
<1> HIDE DEF q, going
<1>3. CASE IsRest(i, end - 1)
  <2>1. q = going(r.sections)
    BY Zenon, <1>1, <1>3
  <2>2. TokenStart(i) = after
    BY Zenon, <1>0, <1>3, RestIsSkipped
  <2> QED BY Zenon, <1>0, <1>2, <2>1, <2>2 DEF Adds, q
<1>4. CASE ~IsRest(i, end - 1) /\ declared # {}
  <2>1. q = going(Append(r.sections, [name |-> name, fields |-> << >>]))
    BY Zenon, <1>1, <1>4
  <2>2. name \in declared
    BY Zenon, <1>4
  <2> HIDE DEF name
  <2>3. PICK w, open, shut : IsDeclaration(i, end, open, w, shut) /\ name = Word(w)
    <3> HIDE DEF i
    <3>1. name \in DeclaredIn(i, end - 1) <=>
            \E w, open, shut : IsDeclaration(i, end, open, w, shut) /\ name = Word(w)
      BY <1>0, DeclaredAre
    <3> QED BY Zenon, <2>2, <3>1
  <2>4. Declares(i, after) /\ NameDeclared(i) = w
    BY Zenon, <2>3, DeclarationIs
  <2>5. q = going(WithSection(r.sections, Word(NameDeclared(i))))
    BY Zenon, <2>1, <2>3, <2>4 DEF WithSection
  <2>6. Told(WithSection(r.sections, Word(NameDeclared(i))))
    BY Zenon, <1>0, SectionIsTold
  <2> QED BY Zenon, <1>2, <2>4, <2>5, <2>6 DEF Adds, q
<1>5. CASE ~IsRest(i, end - 1) /\ ~(declared # {}) /\ entries # {}
  <2>1. q = going(Append(Front(r.sections), [name   |-> Last(r.sections).name,
                                               fields |-> Append(Last(r.sections).fields, entry)]))
    BY Zenon, <1>1, <1>5
  <2>2. entry \in entries
    BY Zenon, <1>5
  <2> HIDE DEF entry
  <2>3. PICK w, op, v : IsAssignment(i, end, w, op, v) /\ entry = [name |-> Word(w), value |-> Word(v)]
    <3> HIDE DEF i
    <3>1. IsEntry(entry, i, end)
      BY Zenon, <1>0, <2>2, EntriesAre
    <3> QED BY Zenon, <3>1 DEF IsEntry
  <2>4. Assigns(i, after) /\ NameAssigned(i) = w /\ ValueAssigned(i) = v
    BY Zenon, <2>3, AssignmentIs
  <2>5. q = going(WithEntry(r.sections, Word(NameAssigned(i)), Word(ValueAssigned(i))))
    BY Zenon, <2>1, <2>3, <2>4 DEF WithEntry
  <2>6. Told(WithEntry(r.sections, Word(NameAssigned(i)), Word(ValueAssigned(i))))
    BY Zenon, <1>0, EntryIsTold
  <2> QED BY Zenon, <1>2, <2>4, <2>5, <2>6 DEF Adds, q
<1>6. CASE ~IsRest(i, end - 1) /\ ~(declared # {}) /\ ~(entries # {})
  <2>1. q = [r EXCEPT !.regular = FALSE]
    BY Zenon, <1>1, <1>6
  <2>2. q = [from |-> r.from, regular |-> FALSE, sections |-> r.sections]
    <3>1. r = [from |-> r.from, regular |-> r.regular, sections |-> r.sections]
      BY DEF IsReport
    <3> QED BY <2>1, <3>1
  <2>3. q.regular = FALSE /\ q.sections = r.sections /\ q.from = r.from
    BY <2>2
  <2>4. IsReport(q)
    BY <1>0, <2>2, <2>3 DEF IsReport
  <2> QED BY Zenon, <2>3, <2>4 DEF Adds, q
<1> QED BY Zenon, <1>3, <1>4, <1>5, <1>6

----------------------------------------------------------------------------
\* The line that has begun at a place has not ended.
LineHasBegun(n) ==
    /\ IsReport(Reading[n])
    /\ Reading[n].regular =>
          /\ Reading[n].from \in 1 .. n + 1
          /\ \A m \in Reading[n].from .. n : m <= Len(text) /\ ~NewAt(m)

LEMMA NothingIsReport == IsReport(Nothing) /\ Nothing.regular /\ Nothing.from = 1
<1> DEFINE e == [name |-> << >>, fields |-> << >>]
           s == <<e>>
<1>1. e = [name |-> e.name, fields |-> e.fields] /\ e.fields = << >>
  OBVIOUS
<1>2. IsList(e.fields)
  BY Zenon, <1>1, EmptyIsList
<1> HIDE DEF e
<1>3. s # << >> /\ Range(s) = {e} /\ s \in Seq({e})
  BY DEF Range
<1>4. Told(s)
  BY <1>1, <1>2, <1>3 DEF Told, IsList
<1>5. Nothing = [from |-> 1, regular |-> TRUE, sections |-> s]
  BY Zenon DEF Nothing, e
<1> HIDE DEF s
<1> QED BY <1>4, <1>5 DEF IsReport

LEMMA LineBegun ==
    ASSUME text \in Seq(Character), NEW n \in 0 .. Len(text), LineHasBegun(n), Reading[n].regular,
           n + 1 > Len(text) \/ NewAt(n + 1)
    PROVE  /\ IsLine(Reading[n].from, n + 1)
           /\ Reading[n + 1] = ReadLine(Reading[n], n + 1)
<1>1. Len(text) \in Nat /\ n + 1 \in 1 .. Len(text) + 1 /\ (n + 1) - 1 = n
  BY LengthIsNatural
<1>2. Reading[n + 1] = ReadLine(Reading[n], n + 1)
  <2>1. ~(n + 1 <= Len(text) /\ ~NewAt(n + 1))
    BY <1>1
  <2> QED BY Zenon, <1>1, <2>1, ReadingGoesOn
<1> DEFINE i == Reading[n].from
<1>3. i \in 1 .. n + 1 /\ \A m \in i .. n : ~NewAt(m)
  BY Zenon DEF LineHasBegun
<1> HIDE DEF i
<1>4. i \in 1 .. Len(text) + 1 /\ n + 1 \in i .. Len(text) + 1 /\ (n + 1 <= Len(text) => NewAt(n + 1))
  BY <1>1, <1>3
<1>5. IsLine(i, n + 1)
  BY Zenon, <1>1, <1>3, <1>4 DEF IsLine
<1> QED BY Zenon, <1>2, <1>5 DEF i

LEMMA AllBegun ==
    ASSUME text \in Seq(Character), NEW n \in 0 .. Len(text) + 1
    PROVE  LineHasBegun(n)
<1>1. Len(text) \in Nat
  BY LengthIsNatural
<1> DEFINE Done == {k \in Nat : k <= Len(text) + 1 => LineHasBegun(k)}
<1>2. 0 \in Done
  <2>1. Reading[0] = Nothing
    BY Zenon, <1>1, ReadingGoesOn
  <2>2. IsReport(Reading[0]) /\ Reading[0].from = 1
    BY Zenon, <2>1, NothingIsReport
  <2>3. LineHasBegun(0)
    BY <2>2 DEF LineHasBegun
  <2> QED BY <2>3
<1>3. ASSUME NEW k \in Nat, k \in Done PROVE k + 1 \in Done
  <2> SUFFICES ASSUME k + 1 <= Len(text) + 1 PROVE LineHasBegun(k + 1)
    OBVIOUS
  <2>1. k \in 0 .. Len(text) /\ k + 1 \in 1 .. Len(text) + 1 /\ (k + 1) - 1 = k
    BY <1>1
  <2>2. LineHasBegun(k)
    BY <1>1, <1>3, <2>1
  <2>3. CASE k + 1 <= Len(text) /\ ~NewAt(k + 1)
    <3>1. Reading[k + 1] = Reading[k]
      BY Zenon, <1>1, <2>1, <2>3, ReadingGoesOn
    <3> DEFINE i == Reading[k].from
    <3>2. /\ IsReport(Reading[k])
          /\ Reading[k].regular => i \in 1 .. k + 1 /\ \A m \in i .. k : m <= Len(text) /\ ~NewAt(m)
      BY Zenon, <2>2 DEF LineHasBegun
    <3> HIDE DEF i
    <3>3. Reading[k].regular => i \in 1 .. (k + 1) + 1 /\ \A m \in i .. k + 1 : m <= Len(text) /\ ~NewAt(m)
      <4> SUFFICES ASSUME Reading[k].regular
                   PROVE  i \in 1 .. (k + 1) + 1 /\ \A m \in i .. k + 1 : m <= Len(text) /\ ~NewAt(m)
        OBVIOUS
      <4>1. i \in 1 .. k + 1
        BY <3>2
      <4>2. \A m \in i .. k + 1 : m \in i .. k \/ m = k + 1
        BY <4>1
      <4> QED BY <2>3, <3>2, <4>1, <4>2
    <3> QED BY Zenon, <3>1, <3>2, <3>3 DEF LineHasBegun, i
  <2>4. CASE ~(k + 1 <= Len(text) /\ ~NewAt(k + 1))
    <3>1. CASE ~Reading[k].regular
      <4>1. Reading[k + 1] = Reading[k]
        BY Zenon, <1>1, <2>1, <2>4, <3>1, ReadingGoesOn DEF ReadLine
      <4> QED BY Zenon, <2>2, <3>1, <4>1 DEF LineHasBegun
    <3>2. CASE Reading[k].regular
      <4>1. k + 1 > Len(text) \/ NewAt(k + 1)
        BY <1>1, <2>4
      <4>2. IsLine(Reading[k].from, k + 1) /\ Reading[k + 1] = ReadLine(Reading[k], k + 1)
        BY Zenon, <2>1, <2>2, <3>2, <4>1, LineBegun
      <4>3. IsReport(Reading[k])
        BY Zenon, <2>2 DEF LineHasBegun
      <4>4. /\ IsReport(Reading[k + 1])
            /\ Reading[k + 1].regular => Reading[k + 1].from = (k + 1) + 1
        BY Zenon, <3>2, <4>2, <4>3, LineAdds
      <4>5. (k + 1) + 1 \in 1 .. (k + 1) + 1 /\ \A m \in (k + 1) + 1 .. k + 1 : FALSE
        BY <1>1
      <4> QED BY Zenon, <4>4, <4>5 DEF LineHasBegun
    <3> QED BY Zenon, <3>1, <3>2
  <2> QED BY Zenon, <2>3, <2>4
<1>4. n \in Nat /\ n <= Len(text) + 1
  BY <1>1
<1> HIDE DEF Done
<1>5. n \in Done
  BY <1>2, <1>3, <1>4, AllNumbers
<1> QED BY <1>4, <1>5 DEF Done

\* Behind an irregular line nothing is read.
LEMMA IrregularStays ==
    ASSUME text \in Seq(Character), NEW n \in 0 .. Len(text) + 1, ~Reading[n].regular
    PROVE  Lines = Reading[n]
<1>1. Len(text) \in Nat
  BY LengthIsNatural
<1> DEFINE Done == {k \in Nat : n + k <= Len(text) + 1 => Reading[n + k] = Reading[n]}
<1>2. 0 \in Done
  <2>1. n + 0 = n
    OBVIOUS
  <2> QED BY <2>1
<1>3. ASSUME NEW k \in Nat, k \in Done PROVE k + 1 \in Done
  <2> SUFFICES ASSUME n + (k + 1) <= Len(text) + 1 PROVE Reading[n + (k + 1)] = Reading[n]
    OBVIOUS
  <2> DEFINE m == n + (k + 1)
  <2>1. m \in 1 .. Len(text) + 1 /\ m - 1 = n + k /\ n + k <= Len(text) + 1
    BY <1>1
  <2>2. Reading[n + k] = Reading[n]
    BY <1>3, <2>1
  <2> HIDE DEF m
  <2>3. Reading[m] = Reading[n + k] \/ Reading[m] = ReadLine(Reading[n + k], m)
    <3>1. Reading[m] = IF m <= Len(text) /\ ~NewAt(m) THEN Reading[m - 1] ELSE ReadLine(Reading[m - 1], m)
      BY Zenon, <1>1, <2>1, ReadingGoesOn
    <3> QED BY Zenon, <2>1, <3>1
  <2>4. Reading[m] = Reading[n]
    BY Zenon, <2>2, <2>3 DEF ReadLine
  <2> QED BY <2>4 DEF m
<1> HIDE DEF Done
<1>4. (Len(text) + 1) - n \in Nat
  BY <1>1
<1>5. (Len(text) + 1) - n \in Done
  BY <1>2, <1>3, <1>4, AllNumbers
<1>6. n + ((Len(text) + 1) - n) = Len(text) + 1 /\ n + ((Len(text) + 1) - n) <= Len(text) + 1
  BY <1>1
<1>7. Reading[Len(text) + 1] = Reading[n]
  BY <1>5, <1>6 DEF Done
<1> QED BY Zenon, <1>1, <1>7, ReadingGoesOn

----------------------------------------------------------------------------
\* The lines up to some place say this, and the text goes on at start.
Reached(said, start) ==
    \E n \in 0 .. Len(text) + 1 :
        Reading[n].regular /\ Reading[n].sections = said /\ StartFrom(Reading[n].from) = start

\* So the next tokens are those of a line that the reading goes on with.
Ahead(said, i) ==
    \/ TokenStart(i) = Len(text) + 1 /\ Lines.regular /\ Lines.sections = said
    \/ \E after : Declares(i, after) /\ Reached(WithSection(said, Word(NameDeclared(i))), after)
    \/ \E after : /\ Assigns(i, after)
                  /\ Reached(WithEntry(said, Word(NameAssigned(i)), Word(ValueAssigned(i))), after)
    \/ ~Lines.regular /\ Lines.sections = said

LEMMA SameTokens ==
    ASSUME NEW i, NEW j, TokenStart(i) = TokenStart(j)
    PROVE  Token(i) = Token(j)
  BY Zenon DEF Token

LEMMA ReachedIsAhead ==
    ASSUME text \in Seq(Character), NEW i \in 1 .. Len(text) + 1, NEW said, Reached(said, TokenStart(i))
    PROVE  Ahead(said, i)
<1>1. Len(text) \in Nat
  BY LengthIsNatural
<1> DEFINE Here(n) == /\ Reading[n].regular /\ Reading[n].sections = said
                      /\ StartFrom(Reading[n].from) = TokenStart(i)
           Left == {k \in Nat : k <= Len(text) + 1 /\ Here((Len(text) + 1) - k)}
<1>2. Left # {}
  <2>1. PICK n \in 0 .. Len(text) + 1 : Here(n)
    BY Zenon DEF Reached
  <2> HIDE DEF Here
  <2>2. (Len(text) + 1) - n \in Nat /\ (Len(text) + 1) - ((Len(text) + 1) - n) = n
        /\ (Len(text) + 1) - n <= Len(text) + 1
    BY <1>1
  <2> QED BY <2>1, <2>2
<1>3. PICK k \in Left : \A x \in Left : k <= x
  <2>1. Left \subseteq Nat
    OBVIOUS
  <2> HIDE DEF Left
  <2> QED BY <1>2, <2>1, LeastNumber
<1> DEFINE n == (Len(text) + 1) - k
<1>4. n \in 0 .. Len(text) + 1 /\ Here(n)
  <2> HIDE DEF Here
  <2> QED BY <1>1, <1>3
<1>5. \A m \in 0 .. Len(text) + 1 : Here(m) => m <= n
  <2> HIDE DEF Here
  <2> SUFFICES ASSUME NEW m \in 0 .. Len(text) + 1, Here(m) PROVE m <= n
    OBVIOUS
  <2>1. (Len(text) + 1) - m \in Nat /\ (Len(text) + 1) - m <= Len(text) + 1
        /\ (Len(text) + 1) - ((Len(text) + 1) - m) = m
    BY <1>1
  <2>2. (Len(text) + 1) - m \in Left
    BY <2>1
  <2>3. k <= (Len(text) + 1) - m
    BY <1>3, <2>2
  <2> QED BY <1>1, <1>3, <2>3
<1> HIDE DEF n, Here, Left
<1>6. Reading[n].regular /\ Reading[n].sections = said /\ StartFrom(Reading[n].from) = TokenStart(i)
  BY Zenon, <1>4 DEF Here
<1>7. LineHasBegun(n)
  BY Zenon, <1>4, AllBegun
<1>8. CASE n = Len(text) + 1
  <2>1. Lines = Reading[n]
    BY Zenon, <1>1, <1>8, ReadingGoesOn
  <2>2. Reading[n].from > Len(text)
    <3> DEFINE from == Reading[n].from
    <3>1. from \in 1 .. n + 1 /\ \A m \in from .. n : m <= Len(text)
      BY Zenon, <1>6, <1>7 DEF LineHasBegun
    <3> HIDE DEF from
    <3>2. from > Len(text)
      BY <1>1, <1>8, <3>1
    <3> QED BY <3>2 DEF from
  <2>3. StartFrom(Reading[n].from) = Len(text) + 1
    BY Zenon, <2>2 DEF StartFrom
  <2> QED BY Zenon, <1>6, <2>1, <2>3 DEF Ahead
<1>9. CASE n # Len(text) + 1
  <2>1. n \in 0 .. Len(text) /\ n + 1 \in 1 .. Len(text) + 1 /\ (n + 1) - 1 = n
        /\ n + 1 \in 0 .. Len(text) + 1 /\ ~(n + 1 <= n)
    BY <1>1, <1>4, <1>9
  <2>2. ~Here(n + 1)
    BY Zenon, <1>5, <2>1
  <2>3. CASE n + 1 <= Len(text) /\ ~NewAt(n + 1)
    <3>1. Reading[n + 1] = Reading[n]
      BY Zenon, <1>1, <2>1, <2>3, ReadingGoesOn
    <3> QED BY Zenon, <1>4, <2>2, <3>1 DEF Here
  <2>4. CASE ~(n + 1 <= Len(text) /\ ~NewAt(n + 1))
    <3>0. n + 1 > Len(text) \/ NewAt(n + 1)
      BY <1>1, <2>1, <2>4
    <3> DEFINE r == Reading[n]
               q == Reading[n + 1]
               after == StartFrom((n + 1) + 1)
    <3>1. IsLine(r.from, n + 1) /\ q = ReadLine(r, n + 1)
      BY Zenon, <1>6, <1>7, <2>1, <3>0, LineBegun
    <3>2. IsReport(r)
      BY Zenon, <1>7 DEF LineHasBegun
    <3>3. (q.regular => q.from = (n + 1) + 1) /\ Adds(r, q, after)
      BY Zenon, <1>6, <3>1, <3>2, LineAdds
    <3>4. r.from \in 1 .. Len(text) + 1
      BY Zenon, <3>1 DEF IsLine
    <3>5. TokenStart(r.from) = TokenStart(i)
      BY Zenon, <1>6, <3>4, StartFromIs
    <3>6. Token(r.from) = Token(i)
      BY Zenon, <3>5, SameTokens
    <3>7. \A to : /\ Declares(r.from, to) => Declares(i, to)
                  /\ Assigns(r.from, to) => Assigns(i, to)
      BY Zenon, <3>6 DEF Declares, Assigns
    <3>8. /\ NameDeclared(r.from) = NameDeclared(i)
          /\ NameAssigned(r.from) = NameAssigned(i)
          /\ ValueAssigned(r.from) = ValueAssigned(i)
      BY Zenon, <3>6 DEF NameDeclared, NameAssigned, ValueAssigned
    <3>9. \A all : q.regular /\ q.sections = all => Reached(all, after)
      BY Zenon, <2>1, <3>3 DEF Reached
    <3>10. r.sections = said
      BY Zenon, <1>6
    <3> HIDE DEF r
    <3>11. CASE q.regular /\ q.sections = r.sections /\ TokenStart(r.from) = after
      BY Zenon, <1>6, <2>2, <3>3, <3>5, <3>10, <3>11 DEF Here
    <3>12. CASE ~q.regular /\ q.sections = r.sections
      <4>1. Lines = q
        BY Zenon, <2>1, <3>12, IrregularStays
      <4> QED BY Zenon, <3>10, <3>12, <4>1 DEF Ahead
    <3> HIDE DEF q, after
    <3>13. CASE /\ q.regular /\ Declares(r.from, after)
                /\ q.sections = WithSection(r.sections, Word(NameDeclared(r.from)))
      BY Zenon, <3>7, <3>8, <3>9, <3>10, <3>13 DEF Ahead
    <3>14. CASE /\ q.regular /\ Assigns(r.from, after)
                /\ q.sections = WithEntry(r.sections, Word(NameAssigned(r.from)), Word(ValueAssigned(r.from)))
      BY Zenon, <3>7, <3>8, <3>9, <3>10, <3>14 DEF Ahead
    <3> QED BY Zenon, <3>3, <3>11, <3>12, <3>13, <3>14 DEF Adds
  <2> QED BY Zenon, <2>3, <2>4
<1> QED BY Zenon, <1>8, <1>9

----------------------------------------------------------------------------
(***************************************************************************)
(* A step leaves what the lines say as it is, because it leaves the text.  *)
(***************************************************************************)
LEMMA SameWords ==
    ASSUME UNCHANGED text
    PROVE  \A w : Word(w)' = Word(w)
  BY Zenon DEF Word

LEMMA SamePieces ==
    ASSUME UNCHANGED text
    PROVE  \A i, j : /\ IsBlank(i, j)' <=> IsBlank(i, j)
                     /\ IsGap(i, j)' <=> IsGap(i, j)
                     /\ IsRest(i, j)' <=> IsRest(i, j)
                     /\ WordsIn(i, j)' = WordsIn(i, j)
<1>1. \A i, j : IsBlank(i, j)' <=> IsBlank(i, j)
  BY Zenon DEF IsBlank
<1>2. \A i, j : IsGap(i, j)' <=> IsGap(i, j)
  BY Zenon, <1>1 DEF IsGap
<1>3. \A i, j : IsRest(i, j)' <=> IsRest(i, j)
  BY Zenon, <1>1 DEF IsRest
<1>4. \A i, j : WordsIn(i, j)' = WordsIn(i, j)
  BY Zenon DEF WordsIn
<1> QED BY Zenon, <1>1, <1>2, <1>3, <1>4

LEMMA SameDeclared ==
    ASSUME UNCHANGED text
    PROVE  \A i, j : DeclaredIn(i, j)' = DeclaredIn(i, j)
<1> DEFINE IsHere(i, j, w) == \E open \in i .. w[1] - 1, close \in w[2] + 1 .. j :
              /\ IsBlank(i, open - 1) /\ text[open] = "[" /\ IsBlank(open + 1, w[1] - 1)
              /\ EndsAt(w, "]", close) /\ IsRest(close + 1, j)
<1>1. \A w, s, n : EndsAt(w, s, n)' <=> EndsAt(w, s, n)
  BY Zenon, SamePieces DEF EndsAt
<1>2. \A i, j, w : IsHere(i, j, w)' <=> IsHere(i, j, w)
  <2> DEFINE Between(i, j, w, open, close) ==
        /\ IsBlank(i, open - 1) /\ text[open] = "[" /\ IsBlank(open + 1, w[1] - 1)
        /\ EndsAt(w, "]", close) /\ IsRest(close + 1, j)
  <2>1. \A i, j, w, open, close : Between(i, j, w, open, close)' <=> Between(i, j, w, open, close)
    <3>1. \A i, j : (IsBlank(i, j)' <=> IsBlank(i, j)) /\ (IsRest(i, j)' <=> IsRest(i, j))
      BY Zenon, SamePieces
    <3>2. \A n : text'[n] = text[n]
      BY Zenon
    <3> QED BY Zenon, <1>1, <3>1, <3>2
  <2>2. \A i, j, w : /\ IsHere(i, j, w) <=> \E open \in i .. w[1] - 1, close \in w[2] + 1 .. j :
                                               Between(i, j, w, open, close)
                     /\ IsHere(i, j, w)' <=> \E open \in i .. w[1] - 1, close \in w[2] + 1 .. j :
                                               Between(i, j, w, open, close)'
    BY Zenon
  <2> HIDE DEF Between, IsHere
  <2> QED BY Zenon, <2>1, <2>2
<1>3. \A i, j : DeclaredIn(i, j) = {Word(w) : w \in {w \in WordsIn(i, j) : IsHere(i, j, w)}}
  BY Zenon DEF DeclaredIn
<1>4. \A i, j : DeclaredIn(i, j)' = {Word(w)' : w \in {w \in WordsIn(i, j)' : IsHere(i, j, w)'}}
  BY Zenon DEF DeclaredIn
<1> HIDE DEF IsHere
<1> SUFFICES ASSUME NEW i, NEW j PROVE DeclaredIn(i, j)' = DeclaredIn(i, j)
  OBVIOUS
<1>5. {w \in WordsIn(i, j)' : IsHere(i, j, w)'} = {w \in WordsIn(i, j) : IsHere(i, j, w)}
  BY Zenon, <1>2, SamePieces
<1> DEFINE S == {w \in WordsIn(i, j) : IsHere(i, j, w)}
<1>6. DeclaredIn(i, j) = {Word(w) : w \in S} /\ DeclaredIn(i, j)' = {Word(w)' : w \in S}
  BY Zenon, <1>3, <1>4, <1>5
<1> HIDE DEF S
<1>7. {Word(w)' : w \in S} = {Word(w) : w \in S}
  BY Zenon, SameWords
<1> QED BY Zenon, <1>6, <1>7

LEMMA SameEntries ==
    ASSUME UNCHANGED text
    PROVE  \A i, j : EntriesIn(i, j)' = EntriesIn(i, j)
<1> DEFINE IsHere(i, j, ws) ==
              /\ IsBlank(i, ws[1][1] - 1)
              /\ \E op \in ws[1][2] + 1 .. ws[2][1] - 1 :
                    EndsAt(ws[1], "=", op) /\ IsBlank(op + 1, ws[2][1] - 1)
              /\ ws[2][2] < j => text[ws[2][2] + 1] = "\t"
              /\ IsRest(ws[2][2] + 1, j)
           Said(ws) == [name |-> Word(ws[1]), value |-> Word(ws[2])]
<1>1. \A w, s, n : EndsAt(w, s, n)' <=> EndsAt(w, s, n)
  BY Zenon, SamePieces DEF EndsAt
<1>2. \A i, j, ws : IsHere(i, j, ws)' <=> IsHere(i, j, ws)
  BY Zenon, SamePieces, <1>1
<1>3. \A ws : Said(ws)' = Said(ws)
  BY Zenon, SameWords
<1>4. \A i, j : EntriesIn(i, j) = {Said(ws) : ws \in {ws \in WordsIn(i, j) \X WordsIn(i, j) : IsHere(i, j, ws)}}
  BY Zenon DEF EntriesIn
<1>5. \A i, j : EntriesIn(i, j)' =
                  {Said(ws)' : ws \in {ws \in WordsIn(i, j)' \X WordsIn(i, j)' : IsHere(i, j, ws)'}}
  BY Zenon DEF EntriesIn
<1> HIDE DEF IsHere, Said
<1> SUFFICES ASSUME NEW i, NEW j PROVE EntriesIn(i, j)' = EntriesIn(i, j)
  OBVIOUS
<1>6. WordsIn(i, j)' = WordsIn(i, j)
  BY Zenon, SamePieces
<1>7. {ws \in WordsIn(i, j)' \X WordsIn(i, j)' : IsHere(i, j, ws)'}
        = {ws \in WordsIn(i, j) \X WordsIn(i, j) : IsHere(i, j, ws)}
  BY Zenon, <1>2, <1>6
<1> DEFINE S == {ws \in WordsIn(i, j) \X WordsIn(i, j) : IsHere(i, j, ws)}
<1>8. EntriesIn(i, j) = {Said(ws) : ws \in S} /\ EntriesIn(i, j)' = {Said(ws)' : ws \in S}
  BY Zenon, <1>4, <1>5, <1>7
<1> HIDE DEF S
<1>9. {Said(ws)' : ws \in S} = {Said(ws) : ws \in S}
  BY Zenon, <1>3
<1> QED BY Zenon, <1>8, <1>9

LEMMA SameReading ==
    ASSUME UNCHANGED text
    PROVE  Reading' = Reading /\ Lines' = Lines
<1>1. \A r, n : ReadLine(r, n)' = ReadLine(r, n)
  <2> SUFFICES ASSUME NEW r, NEW n PROVE ReadLine(r, n)' = ReadLine(r, n)
    OBVIOUS
  <2> DEFINE going(all) == [from |-> n + 1, regular |-> TRUE, sections |-> all]
             line(rest, declared, entries) ==
                IF ~r.regular THEN r
                ELSE IF rest = 1 THEN going(r.sections)
                ELSE IF declared # {} THEN
                    going(Append(r.sections, [name |-> CHOOSE name \in declared : TRUE, fields |-> << >>]))
                ELSE IF entries # {} THEN
                    going(Append(Front(r.sections),
                                 [name   |-> Last(r.sections).name,
                                  fields |-> Append(Last(r.sections).fields, CHOOSE entry \in entries : TRUE)]))
                ELSE [r EXCEPT !.regular = FALSE]
             rest == IF IsRest(r.from, n - 1) THEN 1 ELSE 0
  <2>1. rest = 1 <=> IsRest(r.from, n - 1)
    OBVIOUS
  <2>2. rest' = 1 <=> IsRest(r.from, n - 1)'
    OBVIOUS
  <2>3. rest' = rest
    <3>1. IsRest(r.from, n - 1)' <=> IsRest(r.from, n - 1)
      BY Zenon, SamePieces
    <3> QED BY Zenon, <3>1
  <2> HIDE DEF rest
  <2>4. ReadLine(r, n) = line(rest, DeclaredIn(r.from, n - 1), EntriesIn(r.from, n - 1))
    BY Zenon, <2>1 DEF ReadLine
  <2>5. ReadLine(r, n)' = line(rest', DeclaredIn(r.from, n - 1)', EntriesIn(r.from, n - 1)')
    BY Zenon, <2>2 DEF ReadLine
  <2>6. /\ DeclaredIn(r.from, n - 1)' = DeclaredIn(r.from, n - 1)
        /\ EntriesIn(r.from, n - 1)' = EntriesIn(r.from, n - 1)
    BY Zenon, SameDeclared, SameEntries
  <2> HIDE DEF line
  <2> QED BY Zenon, <2>3, <2>4, <2>5, <2>6
<1>2. \A n : NewAt(n)' <=> NewAt(n)
  BY Zenon DEF NewAt
<1>3. \A f, n : ReadTo(f, n)' = ReadTo(f, n)
  BY Zenon, <1>1, <1>2 DEF ReadTo
<1>4. \A f : IsReading(f)' <=> IsReading(f)
  BY Zenon, <1>3 DEF IsReading
<1>5. Reading' = Reading
  BY Zenon, <1>4 DEF Reading
<1>6. Lines = Reading[Len(text) + 1]
  BY Zenon DEF Lines, Reading, IsReading, ReadTo, NewAt
<1>7. Lines' = Reading'[Len(text') + 1]
  BY Zenon DEF Lines, Reading, IsReading, ReadTo, NewAt
<1> QED BY Zenon, <1>5, <1>6, <1>7

LEMMA SameStart ==
    ASSUME UNCHANGED text
    PROVE  \A i : TokenStart(i)' = TokenStart(i) /\ StartFrom(i)' = StartFrom(i)
<1>1. \A i : AfterComment(i)' = AfterComment(i)
  BY Zenon DEF AfterComment
<1>2. \A f, n : StartsIn(f, n)' = StartsIn(f, n)
  BY Zenon, <1>1 DEF StartsIn
<1>3. \A f : IsStart(f)' <=> IsStart(f)
  BY Zenon, <1>2 DEF IsStart
<1> DEFINE start == CHOOSE f : IsStart(f)
<1>4. start' = start
  BY Zenon, <1>3
<1>5. \A i : TokenStart(i) = start[i] /\ TokenStart(i)' = start'[i]
  BY Zenon DEF TokenStart, IsStart, StartsIn
<1>6. \A i : TokenStart(i)' = TokenStart(i)
  BY Zenon, <1>4, <1>5
<1> QED BY Zenon, <1>6 DEF StartFrom

LEMMA SameReached ==
    ASSUME UNCHANGED text
    PROVE  \A said, start : Reached(said, start)' <=> Reached(said, start)
  BY Zenon, SameReading, SameStart DEF Reached

----------------------------------------------------------------------------
(***************************************************************************)
(* What has been read so far, in the order of the text.                    *)
(***************************************************************************)
\* The words of a section of the parser.
Fields(f) == [n \in DOMAIN f |-> [name |-> Word(f[n].name), value |-> Word(f[n].value)]]

Meaning(section) == [name |-> Word(section.name), fields |-> Fields(section.fields)]

\* The global section, then those whose calls are open, then those in the array from last to first.
Nth(g, open, array, n) == IF n = 1 THEN g ELSE SectionAt(open, array, n - 1)

ReadOf(g, open, array) == [n \in 1 .. 1 + Len(open) + Len(array) |-> Meaning(Nth(g, open, array, n))]

LEMMA FunctionIsList ==
    ASSUME NEW k \in Nat, NEW f, DOMAIN f = 1 .. k, f = [n \in 1 .. k |-> f[n]]
    PROVE  IsList(f) /\ Len(f) = k
<1>1. Range(f) = {f[n] : n \in 1 .. k}
  BY DEF Range
<1>2. f \in [1 .. k -> Range(f)]
  BY <1>1
<1> HIDE DEF Range
<1>3. f \in Seq(Range(f)) /\ Len(f) = k
  BY <1>2
<1> QED BY <1>3 DEF IsList

LEMMA ListsAreEqual ==
    ASSUME NEW s, NEW t, IsList(s), IsList(t), Len(s) = Len(t), \A n \in 1 .. Len(s) : s[n] = t[n]
    PROVE  s = t
<1>1. Len(s) \in Nat /\ DOMAIN s = 1 .. Len(s) /\ DOMAIN t = 1 .. Len(s)
  BY LenOfList
<1> DEFINE T == Range(s) \cup Range(t)
<1>2. s \in Seq(T) /\ t \in Seq(T)
  BY SeqMonotonic DEF IsList
<1> HIDE DEF T
<1> QED BY <1>2, SeqEqual

LEMMA FieldsAreList ==
    ASSUME NEW f, IsList(f)
    PROVE  /\ IsList(Fields(f)) /\ Len(Fields(f)) = Len(f)
           /\ \A n \in 1 .. Len(f) : Fields(f)[n] = [name |-> Word(f[n].name), value |-> Word(f[n].value)]
<1>1. Len(f) \in Nat /\ DOMAIN f = 1 .. Len(f)
  BY LenOfList
<1> DEFINE said(n) == [name |-> Word(f[n].name), value |-> Word(f[n].value)]
           g == Fields(f)
<1>2. g = [n \in 1 .. Len(f) |-> said(n)]
  BY Zenon, <1>1 DEF Fields
<1> HIDE DEF g, said
<1>3. DOMAIN g = 1 .. Len(f) /\ (\A n \in 1 .. Len(f) : g[n] = said(n)) /\ g = [n \in 1 .. Len(f) |-> g[n]]
  BY Zenon, <1>2
<1>4. IsList(g) /\ Len(g) = Len(f)
  BY Zenon, <1>1, <1>3, FunctionIsList
<1> QED BY Zenon, <1>3, <1>4 DEF g, said

LEMMA FieldsOfOneMore ==
    ASSUME NEW f, IsList(f), NEW name, NEW value
    PROVE  Fields(Append(f, [name |-> name, value |-> value]))
             = Append(Fields(f), [name |-> Word(name), value |-> Word(value)])
<1> DEFINE e == [name |-> name, value |-> value]
           w == [name |-> Word(name), value |-> Word(value)]
           longer == Append(f, e)
           left == Fields(longer)
           right == Append(Fields(f), w)
<1>1. /\ IsList(Fields(f)) /\ Len(Fields(f)) = Len(f) /\ Len(f) \in Nat
      /\ \A n \in 1 .. Len(f) : Fields(f)[n] = [name |-> Word(f[n].name), value |-> Word(f[n].value)]
  BY Zenon, FieldsAreList, LenOfList
<1>2. e.name = name /\ e.value = value
  OBVIOUS
<1> HIDE DEF e
<1>3. /\ IsList(longer) /\ Len(longer) = Len(f) + 1
      /\ \A n \in 1 .. Len(f) : longer[n] = f[n]
      /\ longer[Len(f) + 1] = e
  BY Zenon, AppendToList, OneAppended
<1> HIDE DEF longer
<1>4. /\ IsList(left) /\ Len(left) = Len(f) + 1
      /\ \A n \in 1 .. Len(f) + 1 : left[n] = [name |-> Word(longer[n].name), value |-> Word(longer[n].value)]
  BY Zenon, <1>3, FieldsAreList
<1> HIDE DEF left, w
<1>5. /\ IsList(right) /\ Len(right) = Len(f) + 1
      /\ \A n \in 1 .. Len(f) : right[n] = Fields(f)[n]
      /\ right[Len(f) + 1] = w
  <2>1. IsList(right)
    BY Zenon, <1>1, AppendToList
  <2>2. Len(right) = Len(f) + 1
    BY <1>1, AppendToList
  <2>3. (\A n \in 1 .. Len(f) : right[n] = Fields(f)[n]) /\ right[Len(f) + 1] = w
    BY <1>1, OneAppended
  <2> QED BY Zenon, <2>1, <2>2, <2>3
<1> HIDE DEF right
<1>6. \A n \in 1 .. Len(left) : left[n] = right[n]
  <2> SUFFICES ASSUME NEW n \in 1 .. Len(f) + 1 PROVE left[n] = right[n]
    BY Zenon, <1>4
  <2>1. CASE n = Len(f) + 1
    BY Zenon, <1>2, <1>3, <1>4, <1>5, <2>1 DEF w
  <2>2. CASE n # Len(f) + 1
    <3>1. n \in 1 .. Len(f)
      BY <1>1, <2>2
    <3> QED BY Zenon, <1>1, <1>3, <1>4, <1>5, <3>1
  <2> QED BY Zenon, <2>1, <2>2
<1>7. left = right
  BY Zenon, <1>4, <1>5, <1>6, ListsAreEqual
<1> QED BY Zenon, <1>7 DEF left, right, longer, e, w

LEMMA MeaningIs ==
    ASSUME NEW section
    PROVE  LET m == Meaning(section) IN
           /\ m = [name |-> m.name, fields |-> m.fields]
           /\ m.name = Word(section.name) /\ m.fields = Fields(section.fields)
<1> DEFINE w == Word(section.name)
           f == Fields(section.fields)
<1>1. Meaning(section) = [name |-> w, fields |-> f]
  BY Zenon DEF Meaning
<1> HIDE DEF w, f
<1>2. LET m == [name |-> w, fields |-> f] IN m = [name |-> m.name, fields |-> m.fields] /\ m.name = w /\ m.fields = f
  OBVIOUS
<1> QED BY Zenon, <1>1, <1>2 DEF w, f

LEMMA NthIsOwned ==
    ASSUME NEW g, Owned(g), NEW open, AllOwned(open), NEW array, AllOwned(array),
           NEW n \in 1 .. 1 + Len(open) + Len(array)
    PROVE  Owned(Nth(g, open, array, n))
<1>1. /\ Len(open) \in Nat /\ DOMAIN open = 1 .. Len(open)
      /\ Len(array) \in Nat /\ DOMAIN array = 1 .. Len(array)
  BY LenOfList DEF AllOwned
<1>2. (\A k \in 1 .. Len(open) : Owned(open[k])) /\ (\A k \in 1 .. Len(array) : Owned(array[k]))
  <2>1. \A k \in DOMAIN open : open[k] \in Range(open)
    BY DEF Range
  <2>2. \A k \in DOMAIN array : array[k] \in Range(array)
    BY DEF Range
  <2> QED BY Zenon, <1>1, <2>1, <2>2 DEF AllOwned
<1>3. CASE n = 1
  BY Zenon, <1>3 DEF Nth
<1>4. CASE n # 1 /\ n - 1 <= Len(open)
  <2>1. n - 1 \in 1 .. Len(open)
    BY <1>1, <1>4
  <2> QED BY Zenon, <1>2, <1>4, <2>1 DEF Nth, SectionAt
<1>5. CASE n # 1 /\ ~(n - 1 <= Len(open))
  <2>1. Len(open) + Len(array) + 1 - (n - 1) \in 1 .. Len(array)
    BY <1>1, <1>5
  <2> QED BY Zenon, <1>2, <1>5, <2>1 DEF Nth, SectionAt
<1> QED BY Zenon, <1>3, <1>4, <1>5

LEMMA ReadIsTold ==
    ASSUME NEW g, Owned(g), NEW open, AllOwned(open), NEW array, AllOwned(array)
    PROVE  /\ Told(ReadOf(g, open, array))
           /\ Len(ReadOf(g, open, array)) = 1 + Len(open) + Len(array)
           /\ \A n \in 1 .. 1 + Len(open) + Len(array) :
                 ReadOf(g, open, array)[n] = Meaning(Nth(g, open, array, n))
<1>1. Len(open) \in Nat /\ Len(array) \in Nat
  BY LenOfList DEF AllOwned
<1> DEFINE k == 1 + Len(open) + Len(array)
           r == ReadOf(g, open, array)
           e(n) == Meaning(Nth(g, open, array, n))
<1>2. k \in Nat /\ 1 \in 1 .. k /\ k # 0
  BY <1>1
<1>3. r = [n \in 1 .. k |-> e(n)]
  BY Zenon DEF ReadOf
<1>4. \A n \in 1 .. k : Owned(Nth(g, open, array, n))
  BY Zenon, NthIsOwned
<1> HIDE DEF k, r
<1>5. \A n \in 1 .. k : e(n) = [name |-> e(n).name, fields |-> e(n).fields] /\ IsList(e(n).fields)
  <2> SUFFICES ASSUME NEW n \in 1 .. k
               PROVE  e(n) = [name |-> e(n).name, fields |-> e(n).fields] /\ IsList(e(n).fields)
    OBVIOUS
  <2> DEFINE s == Nth(g, open, array, n)
  <2>1. IsList(s.fields)
    BY Zenon, <1>4 DEF Owned
  <2> HIDE DEF s
  <2>2. IsList(Fields(s.fields))
    BY Zenon, <2>1, FieldsAreList
  <2>3. Meaning(s) = [name |-> Meaning(s).name, fields |-> Meaning(s).fields] /\ Meaning(s).fields = Fields(s.fields)
    BY Zenon, MeaningIs
  <2> QED BY Zenon, <2>2, <2>3 DEF s
<1> HIDE DEF e
<1>6. DOMAIN r = 1 .. k /\ (\A n \in 1 .. k : r[n] = e(n)) /\ r = [n \in 1 .. k |-> r[n]]
  BY Zenon, <1>3
<1>7. IsList(r) /\ Len(r) = k
  BY Zenon, <1>2, <1>6, FunctionIsList
<1>8. r # << >>
  BY <1>2, <1>7, EmptyIsList
<1>9. \A x \in Range(r) : \E n \in 1 .. k : x = e(n)
  <2> SUFFICES ASSUME NEW x \in Range(r) PROVE \E n \in 1 .. k : x = e(n)
    OBVIOUS
  <2>1. PICK n \in DOMAIN r : x = r[n]
    BY DEF Range
  <2>2. n \in 1 .. k
    BY <1>6
  <2>3. r[n] = e(n)
    BY <1>6, <2>2
  <2> QED BY Zenon, <2>1, <2>2, <2>3
<1>10. Told(r)
  BY Zenon, <1>5, <1>7, <1>8, <1>9 DEF Told
<1> QED BY Zenon, <1>6, <1>7, <1>10 DEF r, k, e

----------------------------------------------------------------------------
\* The section that is being read, and what it becomes.
CurrentOf(g, open) == IF open = << >> THEN g ELSE open[Len(open)]

Replaced(g, open, e, g2, open2) ==
    IF open = << >> THEN g2 = e /\ open2 = open ELSE g2 = g /\ open2 = Append(Front(open), e)

LEMMA LastIsReplaced ==
    ASSUME NEW g, NEW open, AllOwned(open), NEW e, NEW g2, NEW open2, Replaced(g, open, e, g2, open2)
    PROVE  /\ Len(open2) = Len(open) /\ Len(open) \in Nat
           /\ \A n \in 1 .. Len(open) : Nth(g2, open2, << >>, n) = Nth(g, open, << >>, n)
           /\ Nth(g2, open2, << >>, 1 + Len(open)) = e
           /\ Nth(g, open, << >>, 1 + Len(open)) = CurrentOf(g, open)
<1>1. IsList(open) /\ Len(open) \in Nat /\ (open # << >> => Len(open) # 0)
  BY LenOfList DEF AllOwned
<1>2. CASE open = << >>
  <2>1. Len(open) = 0 /\ 1 + Len(open) = 1 /\ \A n \in 1 .. Len(open) : FALSE
    BY <1>2, EmptyIsList
  <2>2. g2 = e /\ open2 = open
    BY Zenon, <1>2 DEF Replaced
  <2> QED BY Zenon, <1>1, <1>2, <2>1, <2>2 DEF Nth, CurrentOf
<1>3. CASE open # << >>
  <2>1. g2 = g /\ open2 = Append(Front(open), e)
    BY Zenon, <1>3 DEF Replaced
  <2>2. /\ Len(open2) = Len(open)
        /\ \A n \in 1 .. Len(open) - 1 : open2[n] = open[n]
        /\ open2[Len(open)] = e
    BY Zenon, <1>1, <1>3, <2>1, LastReplaced
  <2>3. \A n \in 1 .. Len(open) : Nth(g2, open2, << >>, n) = Nth(g, open, << >>, n)
    <3> SUFFICES ASSUME NEW n \in 1 .. Len(open), n # 1
                 PROVE  Nth(g2, open2, << >>, n) = Nth(g, open, << >>, n)
      BY Zenon, <2>1 DEF Nth
    <3>1. n - 1 \in 1 .. Len(open) - 1 /\ n - 1 <= Len(open)
      BY <1>1
    <3>2. open2[n - 1] = open[n - 1]
      BY Zenon, <2>2, <3>1
    <3> QED BY Zenon, <2>2, <3>1, <3>2 DEF Nth, SectionAt
  <2>4. 1 + Len(open) # 1 /\ (1 + Len(open)) - 1 = Len(open) /\ Len(open) <= Len(open)
    BY <1>1, <1>3
  <2>5. /\ Nth(g2, open2, << >>, 1 + Len(open)) = open2[Len(open)]
        /\ Nth(g, open, << >>, 1 + Len(open)) = open[Len(open)]
    BY Zenon, <2>2, <2>4 DEF Nth, SectionAt
  <2> QED BY Zenon, <1>1, <1>3, <2>2, <2>3, <2>5 DEF CurrentOf
<1> QED BY Zenon, <1>2, <1>3

LEMMA ReplacedIsOwned ==
    ASSUME NEW g, Owned(g), NEW open, AllOwned(open), NEW e, Owned(e), NEW g2, NEW open2,
           Replaced(g, open, e, g2, open2)
    PROVE  Owned(g2) /\ AllOwned(open2)
<1>1. CASE open = << >>
  BY Zenon, <1>1 DEF Replaced
<1>2. CASE open # << >>
  <2>1. AllOwned(Front(open))
    BY Zenon, <1>2, FrontOwned
  <2>2. AllOwned(Append(Front(open), e))
    BY Zenon, <2>1, AppendOwned
  <2> QED BY Zenon, <1>2, <2>2 DEF Replaced
<1> QED BY Zenon, <1>1, <1>2

\* What has been read while no section has returned.
Opened(g, open) == ReadOf(g, open, << >>)

LEMMA OpenedIsTold ==
    ASSUME NEW g, Owned(g), NEW open, AllOwned(open)
    PROVE  /\ Told(Opened(g, open)) /\ IsList(Opened(g, open)) /\ Opened(g, open) # << >>
           /\ Len(Opened(g, open)) = 1 + Len(open) /\ Len(open) \in Nat
           /\ \A n \in 1 .. 1 + Len(open) : Opened(g, open)[n] = Meaning(Nth(g, open, << >>, n))
<1>1. AllOwned(<< >>) /\ Len(<< >>) = 0
  BY EmptyIsList DEF AllOwned
<1>2. Len(open) \in Nat
  BY LenOfList DEF AllOwned
<1>3. 1 + Len(open) + Len(<< >>) = 1 + Len(open)
  BY <1>1, <1>2
<1>4. /\ Told(Opened(g, open))
      /\ Len(Opened(g, open)) = 1 + Len(open) + Len(<< >>)
      /\ \A n \in 1 .. 1 + Len(open) + Len(<< >>) : Opened(g, open)[n] = Meaning(Nth(g, open, << >>, n))
  <2> DEFINE r == ReadOf(g, open, << >>)
  <2>1. Told(r)
    BY Zenon, <1>1, ReadIsTold
  <2>2. Len(r) = 1 + Len(open) + Len(<< >>)
    BY <1>1, ReadIsTold
  <2>3. \A n \in 1 .. 1 + Len(open) + Len(<< >>) : r[n] = Meaning(Nth(g, open, << >>, n))
    BY Zenon, <1>1, ReadIsTold
  <2> QED BY Zenon, <2>1, <2>2, <2>3 DEF Opened
<1> QED BY Zenon, <1>2, <1>3, <1>4 DEF Told

\* Sections that mean the same: only their places differ.
Alike(s, t) == s.name = t.name /\ s.fields = t.fields

LEMMA AlikeIsRead ==
    ASSUME NEW g, Owned(g), NEW open, AllOwned(open), NEW e, Owned(e), NEW g2, NEW open2,
           Replaced(g, open, e, g2, open2), Alike(e, CurrentOf(g, open))
    PROVE  Opened(g2, open2) = Opened(g, open)
<1>1. Owned(g2) /\ AllOwned(open2)
  BY Zenon, ReplacedIsOwned
<1> DEFINE r == Opened(g, open)
           q == Opened(g2, open2)
<1>2. /\ Len(open2) = Len(open) /\ Len(open) \in Nat
      /\ \A n \in 1 .. Len(open) : Nth(g2, open2, << >>, n) = Nth(g, open, << >>, n)
      /\ Nth(g2, open2, << >>, 1 + Len(open)) = e
      /\ Nth(g, open, << >>, 1 + Len(open)) = CurrentOf(g, open)
  BY Zenon, LastIsReplaced
<1>3. /\ IsList(r) /\ Len(r) = 1 + Len(open)
      /\ \A n \in 1 .. 1 + Len(open) : r[n] = Meaning(Nth(g, open, << >>, n))
  BY Zenon, OpenedIsTold
<1>4. /\ IsList(q) /\ Len(q) = 1 + Len(open2)
      /\ \A n \in 1 .. 1 + Len(open2) : q[n] = Meaning(Nth(g2, open2, << >>, n))
  BY Zenon, <1>1, OpenedIsTold
<1> HIDE DEF r, q
<1>5. Meaning(e) = Meaning(CurrentOf(g, open))
  BY Zenon DEF Meaning, Alike
<1>6. ASSUME NEW n \in 1 .. 1 + Len(open)
      PROVE  q[n] = r[n]
  <2>1. CASE n = 1 + Len(open)
    BY Zenon, <1>2, <1>3, <1>4, <1>5, <2>1
  <2>2. CASE n # 1 + Len(open)
    <3>1. n \in 1 .. Len(open)
      BY <1>2, <2>2
    <3> QED BY Zenon, <1>2, <1>3, <1>4, <3>1
  <2> QED BY Zenon, <2>1, <2>2
<1>7. Len(q) = Len(r) /\ \A n \in 1 .. Len(q) : q[n] = r[n]
  BY Zenon, <1>2, <1>3, <1>4, <1>6
<1>8. q = r
  BY Zenon, <1>3, <1>4, <1>7, ListsAreEqual
<1> QED BY Zenon, <1>8 DEF q, r

LEMMA LastReplacedBy ==
    ASSUME NEW s, IsList(s), s # << >>, NEW e, NEW t, t = Append(Front(s), e)
    PROVE  /\ Len(t) = Len(s)
           /\ \A n \in 1 .. Len(s) - 1 : t[n] = s[n]
           /\ t[Len(s)] = e
<1>1. Len(Append(Front(s), e)) = Len(s)
  BY LastReplaced
<1>2. \A n \in 1 .. Len(s) - 1 : Append(Front(s), e)[n] = s[n]
  BY LastReplaced
<1>3. Append(Front(s), e)[Len(s)] = e
  BY LastReplaced
<1> QED BY Zenon, <1>1, <1>2, <1>3

LEMMA EntryIsRead ==
    ASSUME NEW g, Owned(g), NEW open, AllOwned(open), NEW e, Owned(e), NEW g2, NEW open2,
           Replaced(g, open, e, g2, open2), NEW name, NEW value,
           e.name = CurrentOf(g, open).name,
           IsList(CurrentOf(g, open).fields),
           e.fields = Append(CurrentOf(g, open).fields, [name |-> name, value |-> value])
    PROVE  Opened(g2, open2) = WithEntry(Opened(g, open), Word(name), Word(value))
<1>1. Owned(g2) /\ AllOwned(open2)
  BY Zenon, ReplacedIsOwned
<1> DEFINE r == Opened(g, open)
           q == Opened(g2, open2)
           w == [name   |-> Last(r).name,
                 fields |-> Append(Last(r).fields, [name |-> Word(name), value |-> Word(value)])]
           t == Append(Front(r), w)
<1>2. /\ Len(open2) = Len(open) /\ Len(open) \in Nat
      /\ \A n \in 1 .. Len(open) : Nth(g2, open2, << >>, n) = Nth(g, open, << >>, n)
      /\ Nth(g2, open2, << >>, 1 + Len(open)) = e
      /\ Nth(g, open, << >>, 1 + Len(open)) = CurrentOf(g, open)
  BY Zenon, LastIsReplaced
<1>3. /\ IsList(r) /\ r # << >> /\ Len(r) = 1 + Len(open)
      /\ \A n \in 1 .. 1 + Len(open) : r[n] = Meaning(Nth(g, open, << >>, n))
  BY Zenon, OpenedIsTold
<1>4. /\ IsList(q) /\ Len(q) = 1 + Len(open2)
      /\ \A n \in 1 .. 1 + Len(open2) : q[n] = Meaning(Nth(g2, open2, << >>, n))
  BY Zenon, <1>1, OpenedIsTold
<1>5. 1 + Len(open) \in 1 .. 1 + Len(open) /\ (1 + Len(open)) - 1 = Len(open)
  BY <1>2
<1> HIDE DEF r, q
<1>6. Last(r) = Meaning(CurrentOf(g, open))
  BY Zenon, <1>2, <1>3, <1>5 DEF Last
<1>7. Meaning(e) = w
  <2>1. Meaning(e) = [name |-> Word(e.name), fields |-> Fields(e.fields)]
    BY Zenon DEF Meaning
  <2>2. Fields(e.fields) = Append(Fields(CurrentOf(g, open).fields), [name |-> Word(name), value |-> Word(value)])
    <3> DEFINE f == CurrentOf(g, open).fields
    <3>1. IsList(f) /\ e.fields = Append(f, [name |-> name, value |-> value])
      OBVIOUS
    <3> HIDE DEF f
    <3>2. Fields(Append(f, [name |-> name, value |-> value]))
            = Append(Fields(f), [name |-> Word(name), value |-> Word(value)])
      BY <3>1, FieldsOfOneMore
    <3> QED BY Zenon, <3>1, <3>2 DEF f
  <2>3. /\ Last(r).name = Word(CurrentOf(g, open).name)
        /\ Last(r).fields = Fields(CurrentOf(g, open).fields)
    BY Zenon, <1>6, MeaningIs
  <2> QED BY Zenon, <2>1, <2>2, <2>3
<1> HIDE DEF w
<1>8. /\ IsList(t) /\ Len(t) = 1 + Len(open)
      /\ \A n \in 1 .. Len(open) : t[n] = r[n]
      /\ t[1 + Len(open)] = w
  <2>1. IsList(Front(r))
    BY Zenon, <1>3, FrontOfList
  <2>2. IsList(t)
    BY Zenon, <2>1, AppendToList
  <2>3. /\ Len(t) = Len(r)
        /\ \A n \in 1 .. Len(r) - 1 : t[n] = r[n]
        /\ t[Len(r)] = w
    <3>1. t = Append(Front(r), w)
      BY Zenon
    <3> HIDE DEF t
    <3>2. IsList(r) /\ r # << >>
      BY Zenon, <1>3
    <3> QED BY <3>1, <3>2, LastReplacedBy
  <2> QED BY Zenon, <1>3, <1>5, <2>2, <2>3
<1> HIDE DEF t
<1>9. ASSUME NEW n \in 1 .. 1 + Len(open)
      PROVE  q[n] = t[n]
  <2>1. CASE n = 1 + Len(open)
    BY Zenon, <1>2, <1>4, <1>7, <1>8, <2>1
  <2>2. CASE n # 1 + Len(open)
    <3>1. n \in 1 .. Len(open)
      BY <1>2, <2>2
    <3> QED BY Zenon, <1>2, <1>3, <1>4, <1>8, <3>1
  <2> QED BY Zenon, <2>1, <2>2
<1>10. Len(q) = Len(t) /\ \A n \in 1 .. Len(q) : q[n] = t[n]
  BY Zenon, <1>2, <1>4, <1>8, <1>9
<1>11. q = t
  BY Zenon, <1>4, <1>8, <1>10, ListsAreEqual
<1> QED BY Zenon, <1>11 DEF q, t, w, r, WithEntry

LEMMA SectionIsRead ==
    ASSUME NEW g, Owned(g), NEW open, AllOwned(open), NEW e, Owned(e), e.fields = << >>
    PROVE  Opened(g, Append(open, e)) = WithSection(Opened(g, open), Word(e.name))
<1> DEFINE r == Opened(g, open)
           longer == Append(open, e)
           q == Opened(g, longer)
           w == [name |-> Word(e.name), fields |-> << >>]
           t == Append(r, w)
<1>1. AllOwned(longer) /\ Len(longer) = Len(open) + 1
      /\ (\A n \in 1 .. Len(open) : longer[n] = open[n]) /\ longer[Len(open) + 1] = e
  <2>1. IsList(open)
    BY Zenon DEF AllOwned
  <2> QED BY Zenon, <2>1, AppendOwned, OneAppended
<1> HIDE DEF longer
<1>2. /\ IsList(r) /\ Len(r) = 1 + Len(open) /\ Len(open) \in Nat
      /\ \A n \in 1 .. 1 + Len(open) : r[n] = Meaning(Nth(g, open, << >>, n))
  BY Zenon, OpenedIsTold
<1>3. /\ IsList(q) /\ Len(q) = 1 + Len(longer)
      /\ \A n \in 1 .. 1 + Len(longer) : q[n] = Meaning(Nth(g, longer, << >>, n))
  BY Zenon, <1>1, OpenedIsTold
<1>4. \A n \in 1 .. 1 + Len(open) : Nth(g, longer, << >>, n) = Nth(g, open, << >>, n)
  <2> SUFFICES ASSUME NEW n \in 1 .. 1 + Len(open), n # 1
               PROVE  Nth(g, longer, << >>, n) = Nth(g, open, << >>, n)
    BY Zenon DEF Nth
  <2>1. n - 1 \in 1 .. Len(open) /\ n - 1 <= Len(open) /\ n - 1 <= Len(longer)
    BY <1>1, <1>2
  <2>2. longer[n - 1] = open[n - 1]
    BY Zenon, <1>1, <2>1
  <2> QED BY Zenon, <2>1, <2>2 DEF Nth, SectionAt
<1>5. Nth(g, longer, << >>, 1 + Len(longer)) = e
  <2>1. 1 + Len(longer) # 1 /\ (1 + Len(longer)) - 1 = Len(open) + 1 /\ Len(open) + 1 <= Len(longer)
    BY <1>1, <1>2
  <2> QED BY Zenon, <1>1, <2>1 DEF Nth, SectionAt
<1>6. Meaning(e) = w
  <2>1. Fields(<< >>) = << >>
    <3>1. IsList(Fields(<< >>)) /\ Len(Fields(<< >>)) = 0 /\ IsList(<< >>) /\ Len(<< >>) = 0
      BY EmptyIsList, FieldsAreList
    <3>2. \A n \in 1 .. 0 : FALSE
      OBVIOUS
    <3> QED BY Zenon, <3>1, <3>2, ListsAreEqual
  <2> QED BY Zenon, <2>1 DEF Meaning
<1> HIDE DEF r, q, w
<1>7. IsList(t) /\ Len(t) = Len(r) + 1 /\ (\A n \in 1 .. Len(r) : t[n] = r[n]) /\ t[Len(r) + 1] = w
  BY <1>2, AppendToList, OneAppended
<1> HIDE DEF t
<1>8. 1 + Len(longer) = Len(r) + 1 /\ Len(r) + 1 = 1 + (Len(open) + 1)
  BY <1>1, <1>2
<1>9. ASSUME NEW n \in 1 .. Len(r) + 1
      PROVE  q[n] = t[n]
  <2>1. CASE n = Len(r) + 1
    BY Zenon, <1>3, <1>5, <1>6, <1>7, <1>8, <2>1
  <2>2. CASE n # Len(r) + 1
    <3>1. n \in 1 .. Len(r) /\ n \in 1 .. 1 + Len(open)
      BY <1>2, <2>2
    <3> QED BY Zenon, <1>2, <1>3, <1>4, <1>7, <1>8, <3>1
  <2> QED BY Zenon, <2>1, <2>2
<1>10. Len(q) = Len(t) /\ \A n \in 1 .. Len(q) : q[n] = t[n]
  BY Zenon, <1>3, <1>7, <1>8, <1>9
<1>11. q = t
  BY Zenon, <1>3, <1>7, <1>10, ListsAreEqual
<1> QED BY Zenon, <1>11 DEF q, t, w, r, longer, WithSection

----------------------------------------------------------------------------
LEMMA ReturnIsRead ==
    ASSUME NEW g, NEW open, IsList(open), open # << >>, NEW array, IsList(array)
    PROVE  ReadOf(g, Front(open), Append(array, Last(open))) = ReadOf(g, open, array)
<1> DEFINE s == Front(open)
           a == Append(array, Last(open))
           count == Len(open) + Len(array)
<1> HIDE DEF s, a
<1>1. Len(s) + Len(a) = count
  BY ReturnKeepsPlaces DEF s, a
<1>2. \A n \in 1 .. count : SectionAt(s, a, n) = SectionAt(open, array, n)
  BY Zenon, ReturnKeepsPlaces DEF s, a
<1>3. Len(open) \in Nat /\ Len(array) \in Nat /\ Len(s) \in Nat /\ Len(a) \in Nat
  <2>1. IsList(s)
    BY FrontOfList DEF s
  <2>2. IsList(a)
    BY AppendToList DEF a
  <2> QED BY <2>1, <2>2, LenOfList
<1>4. 1 + Len(s) + Len(a) = 1 + Len(open) + Len(array)
  BY <1>1, <1>3
<1>5. \A n \in 1 .. 1 + Len(open) + Len(array) : Nth(g, s, a, n) = Nth(g, open, array, n)
  <2> SUFFICES ASSUME NEW n \in 1 .. 1 + Len(open) + Len(array), n # 1
               PROVE  Nth(g, s, a, n) = Nth(g, open, array, n)
    BY Zenon DEF Nth
  <2>1. n - 1 \in 1 .. count
    BY <1>3
  <2> QED BY Zenon, <1>2, <2>1 DEF Nth
<1>6. ReadOf(g, s, a) = [n \in 1 .. 1 + Len(open) + Len(array) |-> Meaning(Nth(g, s, a, n))]
  BY Zenon, <1>4 DEF ReadOf
<1>7. [n \in 1 .. 1 + Len(open) + Len(array) |-> Meaning(Nth(g, s, a, n))]
        = [n \in 1 .. 1 + Len(open) + Len(array) |-> Meaning(Nth(g, open, array, n))]
  BY Zenon, <1>5
<1> QED BY Zenon, <1>6, <1>7 DEF ReadOf, s, a

LEMMA NothingIsRead ==
    ASSUME NEW g, Owned(g), g.name = NoWord, g.fields = << >>
    PROVE  Opened(g, << >>) = Nothing.sections
<1> DEFINE e == [name |-> << >>, fields |-> << >>]
           r == Opened(g, << >>)
<1>1. AllOwned(<< >>) /\ Len(<< >>) = 0 /\ IsList(<< >>)
  BY EmptyIsList DEF AllOwned
<1>2. IsList(r) /\ Len(r) = 1 + 0 /\ \A n \in 1 .. 1 + 0 : r[n] = Meaning(Nth(g, << >>, << >>, n))
  BY Zenon, <1>1, OpenedIsTold
<1>3. Word(NoWord) = << >>
  <2>1. NoWord[1] = 1 /\ NoWord[2] = 0
    BY DEF NoWord
  <2>2. Word(NoWord) = SubSeq(text, 1, 0)
    BY Zenon, <2>1 DEF Word
  <2>3. SubSeq(text, 1, 0) = [i \in 1 .. 0 |-> text[i]]
    BY SMT
  <2>4. DOMAIN SubSeq(text, 1, 0) = 1 .. 0
    BY <2>3
  <2> DEFINE s == SubSeq(text, 1, 0)
  <2>5. s = [i \in 1 .. 0 |-> s[i]]
    BY <2>3
  <2> HIDE DEF s
  <2>6. IsList(s) /\ Len(s) = 0
    BY <2>4, <2>5, FunctionIsList DEF s
  <2>7. \A n \in 1 .. 0 : FALSE
    OBVIOUS
  <2>8. s = << >>
    BY Zenon, <1>1, <2>6, <2>7, ListsAreEqual
  <2> QED BY Zenon, <2>2, <2>8 DEF s
<1>4. Meaning(g) = e
  <2>1. Fields(<< >>) = << >>
    <3>1. IsList(Fields(<< >>)) /\ Len(Fields(<< >>)) = 0
      BY <1>1, FieldsAreList
    <3>2. \A n \in 1 .. 0 : FALSE
      OBVIOUS
    <3> QED BY Zenon, <1>1, <3>1, <3>2, ListsAreEqual
  <2> QED BY Zenon, <1>3, <2>1 DEF Meaning
<1>5. Nth(g, << >>, << >>, 1) = g
  BY Zenon DEF Nth
<1> HIDE DEF e, r
<1>6. 1 \in 1 .. 1 + 0 /\ 1 + 0 = 1 /\ \A n \in 1 .. 1 + 0 : n = 1
  OBVIOUS
<1>7. r[1] = e /\ Len(r) = 1
  BY Zenon, <1>2, <1>4, <1>5, <1>6
<1>8. IsList(<<e>>) /\ Len(<<e>>) = 1 /\ <<e>>[1] = e
  <2>1. <<e>> \in Seq({e}) /\ Range(<<e>>) = {e} /\ Len(<<e>>) = 1 /\ <<e>>[1] = e
    BY DEF Range
  <2> QED BY <2>1 DEF IsList
<1>9. \A n \in 1 .. Len(r) : r[n] = <<e>>[n]
  BY <1>6, <1>7, <1>8
<1>10. r = <<e>>
  BY <1>2, <1>7, <1>8, <1>9, ListsAreEqual
<1>11. Nothing.sections = <<e>>
  <2>1. Nothing = [from |-> 1, regular |-> TRUE, sections |-> <<e>>]
    BY Zenon DEF Nothing, e
  <2> QED BY <2>1
<1> QED BY Zenon, <1>10, <1>11 DEF r

\* The result of the parser is what has been read when all sections have returned.
LEMMA ResultIsRead ==
    ASSUME IsList(sections.data)
    PROVE  /\ Read = ReadOf(global, << >>, sections.data)
           /\ DOMAIN Read = 1 .. 1 + Len(sections.data)
<1> DEFINE array == sections.data
           rev == Reverse(array)
           all == <<global>> \o rev
           words(field) == [name |-> Word(field.name), value |-> Word(field.value)]
           meaning(sect) == [name   |-> Word(sect.name),
                             fields |-> [n \in DOMAIN sect.fields |-> words(sect.fields[n])]]
<1>1. Read = [n \in DOMAIN all |-> meaning(all[n])]
  BY Zenon DEF Read
<1>2. \A sect : meaning(sect) = Meaning(sect)
  BY Zenon DEF Meaning, Fields
<1> HIDE DEF meaning, words, array
<1>3. Len(array) \in Nat /\ DOMAIN array = 1 .. Len(array)
  BY LenOfList DEF array
<1>4. IsList(rev) /\ Len(rev) = Len(array) /\ \A n \in 1 .. Len(array) : rev[n] = array[(Len(array) - n) + 1]
  <2>1. rev = [n \in 1 .. Len(array) |-> array[(Len(array) - n) + 1]]
    BY Zenon DEF Reverse
  <2> HIDE DEF rev
  <2>2. DOMAIN rev = 1 .. Len(array) /\ rev = [n \in 1 .. Len(array) |-> rev[n]]
    BY Zenon, <2>1
  <2>3. IsList(rev) /\ Len(rev) = Len(array)
    BY <1>3, <2>2, FunctionIsList
  <2>4. \A n \in 1 .. Len(array) : rev[n] = array[(Len(array) - n) + 1]
    BY Zenon, <2>1
  <2> QED BY <2>3, <2>4
<1> HIDE DEF rev
<1>5. /\ DOMAIN all = 1 .. 1 + Len(array)
      /\ all[1] = global
      /\ \A n \in 2 .. 1 + Len(array) : all[n] = rev[n - 1]
  <2> DEFINE T == {global} \cup Range(rev)
  <2>1. <<global>> \in Seq(T) /\ Len(<<global>>) = 1 /\ <<global>>[1] = global
    BY SMT
  <2>2. rev \in Seq(T)
    BY <1>4, SeqMonotonic DEF IsList
  <2> HIDE DEF T
  <2>3. all \in Seq(T) /\ Len(all) = 1 + Len(array)
    BY <1>4, <2>1, <2>2, ConcatProperties
  <2>4. \A i \in 1 .. 1 + Len(array) : all[i] = IF i <= 1 THEN <<global>>[i] ELSE rev[i - 1]
    BY <1>4, <2>1, <2>2, <2>3, ConcatProperties
  <2>5. DOMAIN all = 1 .. 1 + Len(array)
    BY <2>3, LenProperties
  <2> HIDE DEF all
  <2>6. all[1] = global
    BY <1>3, <2>1, <2>4
  <2>7. \A n \in 2 .. 1 + Len(array) : all[n] = rev[n - 1]
    BY <1>3, <2>4
  <2> QED BY <2>5, <2>6, <2>7
<1> HIDE DEF all
<1>6. Len(<< >>) = 0 /\ 1 + Len(<< >>) + Len(array) = 1 + Len(array)
  BY <1>3, EmptyIsList
<1>7. \A n \in 1 .. 1 + Len(array) : Nth(global, << >>, array, n) = all[n]
  <2> SUFFICES ASSUME NEW n \in 1 .. 1 + Len(array), n # 1 PROVE Nth(global, << >>, array, n) = all[n]
    BY Zenon, <1>5 DEF Nth
  <2>1. /\ n \in 2 .. 1 + Len(array) /\ n - 1 \in 1 .. Len(array) /\ ~(n - 1 <= 0)
        /\ 0 + Len(array) + 1 - (n - 1) = (Len(array) - (n - 1)) + 1
    BY <1>3
  <2>2. all[n] = array[(Len(array) - (n - 1)) + 1]
    BY Zenon, <1>4, <1>5, <2>1
  <2>3. SectionAt(<< >>, array, n - 1) = array[0 + Len(array) + 1 - (n - 1)]
    BY Zenon, <1>6, <2>1 DEF SectionAt
  <2> QED BY Zenon, <2>1, <2>2, <2>3 DEF Nth
<1>8. ReadOf(global, << >>, array) = [n \in 1 .. 1 + Len(array) |-> Meaning(Nth(global, << >>, array, n))]
  BY Zenon, <1>6 DEF ReadOf
<1>9. Read = [n \in 1 .. 1 + Len(array) |-> meaning(all[n])]
  BY Zenon, <1>1, <1>5
<1>10. [n \in 1 .. 1 + Len(array) |-> meaning(all[n])]
         = [n \in 1 .. 1 + Len(array) |-> Meaning(Nth(global, << >>, array, n))]
  BY Zenon, <1>2, <1>7
<1> QED BY Zenon, <1>8, <1>9, <1>10 DEF array

----------------------------------------------------------------------------
\* How a reading extends another, place by place.
Starts(f, g) == Len(f) <= Len(g) /\ \A n \in 1 .. Len(f) : g[n] = f[n]

\* The last section of s may have more fields in r, and r more sections.
GoesOnFrom(r, s) ==
    /\ Len(s) <= Len(r)
    /\ \A n \in 1 .. Len(s) - 1 : r[n] = s[n]
    /\ r[Len(s)].name = s[Len(s)].name
    /\ Starts(s[Len(s)].fields, r[Len(s)].fields)

LEMMA StartsIsPrefix ==
    ASSUME NEW f, IsList(f), NEW g, IsList(g), Starts(f, g)
    PROVE  IsPrefix(f, g)
<1>1. Len(f) \in Nat /\ Len(g) \in Nat /\ DOMAIN f = 1 .. Len(f) /\ DOMAIN g = 1 .. Len(g)
  BY LenOfList
<1> DEFINE a == SubSeq(f, 1, Len(f))
           b == SubSeq(g, 1, Len(f))
           T == Range(f) \cup Range(g)
<1>2. f \in Seq(T) /\ g \in Seq(T) /\ Len(f) <= Len(g)
  BY SeqMonotonic DEF IsList, Starts
<1> HIDE DEF T
<1>3. \A i \in 1 .. Len(f) : f[i] \in T /\ g[i] \in T
  BY <1>1, <1>2, ElementOfSeq
<1>4. a \in Seq(T) /\ Len(a) = Len(f) /\ \A i \in 1 .. Len(f) : a[i] = f[i]
  BY <1>1, <1>3, SubSeqProperties
<1>5. b \in Seq(T) /\ Len(b) = Len(f) /\ \A i \in 1 .. Len(f) : b[i] = g[i]
  BY <1>1, <1>3, SubSeqProperties
<1> HIDE DEF a, b
<1>6. a = b
  BY <1>4, <1>5, SeqEqual DEF Starts
<1> QED BY <1>2, <1>6 DEF IsPrefix, a, b

LEMMA ToldAt ==
    ASSUME NEW s, Told(s)
    PROVE  /\ IsList(s) /\ Len(s) \in Nat \ {0} /\ s # << >>
           /\ \A n \in 1 .. Len(s) : IsList(s[n].fields)
           /\ \A n \in 1 .. Len(s) : s[n] = [name |-> s[n].name, fields |-> s[n].fields]
<1>1. IsList(s) /\ Len(s) \in Nat \ {0} /\ s # << >> /\ DOMAIN s = 1 .. Len(s)
  BY LenOfList DEF Told
<1>2. \A n \in 1 .. Len(s) : s[n] \in Range(s)
  BY <1>1 DEF Range
<1> QED BY Zenon, <1>1, <1>2 DEF Told

LEMMA FrontPlaces ==
    ASSUME NEW s, IsList(s), s # << >>
    PROVE  Len(Front(s)) = Len(s) - 1 /\ \A n \in 1 .. Len(s) - 1 : Front(s)[n] = s[n]
<1>1. Len(s) \in Nat /\ Len(s) # 0 /\ DOMAIN s = 1 .. Len(s)
  BY LenOfList
<1>2. \A i \in 1 .. Len(s) : s[i] \in Range(s)
  BY <1>1 DEF Range
<1> QED BY <1>1, <1>2, SubSeqProperties DEF Front

LEMMA GoesOnExtends ==
    ASSUME NEW r, Told(r), NEW s, Told(s), GoesOnFrom(r, s)
    PROVE  Extends(r, s)
<1>1. IsList(s) /\ s # << >> /\ Len(s) \in Nat /\ Len(s) # 0 /\ \A n \in 1 .. Len(s) : IsList(s[n].fields)
  BY Zenon, ToldAt
<1>2. IsList(r) /\ Len(r) \in Nat /\ \A n \in 1 .. Len(r) : IsList(r[n].fields)
  BY Zenon, ToldAt
<1>3. Len(s) \in 1 .. Len(s) /\ Len(s) \in 1 .. Len(r) /\ Len(r) >= Len(s) /\ Len(s) <= Len(r)
  BY <1>1, <1>2 DEF GoesOnFrom
<1>4. IsPrefix(Front(s), r)
  <2> DEFINE f == Front(s)
  <2>1. Len(f) = Len(s) - 1 /\ \A n \in 1 .. Len(s) - 1 : f[n] = s[n]
    BY <1>1, FrontPlaces
  <2>2. IsList(f)
    BY <1>1, FrontOfList
  <2> HIDE DEF f
  <2>3. Len(f) <= Len(r)
    BY <1>1, <1>2, <1>3, <2>1
  <2>4. Starts(f, r)
    BY Zenon, <2>1, <2>3 DEF Starts, GoesOnFrom
  <2> QED BY Zenon, <1>2, <2>2, <2>4, StartsIsPrefix DEF f
<1>5. IsPrefix(s[Len(s)].fields, r[Len(s)].fields)
  BY Zenon, <1>1, <1>2, <1>3, StartsIsPrefix DEF GoesOnFrom
<1> QED BY Zenon, <1>3, <1>4, <1>5 DEF Extends, Last, GoesOnFrom

LEMMA GoesOnFromItself ==
    ASSUME NEW s, Told(s)
    PROVE  GoesOnFrom(s, s)
<1>1. Len(s) \in Nat /\ Len(s) \in 1 .. Len(s) /\ \A n \in 1 .. Len(s) : IsList(s[n].fields)
  BY ToldAt
<1>2. Len(s[Len(s)].fields) \in Nat
  BY Zenon, <1>1, LenOfList
<1>3. \A n \in Nat : n <= n
  OBVIOUS
<1> QED BY Zenon, <1>1, <1>2, <1>3 DEF GoesOnFrom, Starts

LEMMA GoesOnWithSection ==
    ASSUME NEW r, Told(r), NEW s, Told(s), GoesOnFrom(r, s), NEW name
    PROVE  GoesOnFrom(WithSection(r, name), s)
<1> DEFINE e == [name |-> name, fields |-> << >>]
           q == WithSection(r, name)
<1>1. IsList(r) /\ Len(r) \in Nat /\ Len(s) \in Nat \ {0}
  BY ToldAt
<1>2. Len(s) <= Len(r)
  BY DEF GoesOnFrom
<1>3. q = Append(r, e)
  BY Zenon DEF WithSection
<1> HIDE DEF q, e
<1>4. Len(q) = Len(r) + 1 /\ \A n \in 1 .. Len(r) : q[n] = r[n]
  BY <1>1, <1>3, OneAppended
<1>5. /\ Len(s) <= Len(q) /\ Len(s) \in 1 .. Len(r)
      /\ \A n \in 1 .. Len(s) - 1 : n \in 1 .. Len(r)
  BY <1>1, <1>2, <1>4
<1> QED BY Zenon, <1>4, <1>5 DEF GoesOnFrom, q

LEMMA GoesOnWithEntry ==
    ASSUME NEW r, Told(r), NEW s, Told(s), GoesOnFrom(r, s), NEW name, NEW value
    PROVE  GoesOnFrom(WithEntry(r, name, value), s)
<1> DEFINE field == [name |-> name, value |-> value]
           f == Append(Last(r).fields, field)
           e == [name |-> Last(r).name, fields |-> f]
           q == WithEntry(r, name, value)
<1>1. /\ IsList(r) /\ r # << >> /\ Len(r) \in Nat /\ Len(s) \in Nat \ {0} /\ Len(r) \in 1 .. Len(r)
      /\ \A n \in 1 .. Len(r) : IsList(r[n].fields)
      /\ \A n \in 1 .. Len(s) : IsList(s[n].fields)
  BY ToldAt
<1>2. Len(s) <= Len(r)
  BY DEF GoesOnFrom
<1>3. q = Append(Front(r), e)
  BY Zenon DEF WithEntry
<1>4. e.name = Last(r).name /\ e.fields = f
  OBVIOUS
<1>5. Len(f) = Len(Last(r).fields) + 1 /\ \A n \in 1 .. Len(Last(r).fields) : f[n] = Last(r).fields[n]
  <2> DEFINE g == Last(r).fields
  <2>1. IsList(g)
    BY Zenon, <1>1 DEF Last
  <2> HIDE DEF g, field
  <2>2. Len(Append(g, field)) = Len(g) + 1 /\ \A n \in 1 .. Len(g) : Append(g, field)[n] = g[n]
    BY <2>1, OneAppended
  <2> QED BY Zenon, <2>2 DEF g
<1> HIDE DEF q, e, f
<1>6. Len(q) = Len(r) /\ (\A n \in 1 .. Len(r) - 1 : q[n] = r[n]) /\ q[Len(r)] = e
  BY <1>1, <1>3, LastReplacedBy
<1>7. \A n \in 1 .. Len(s) - 1 : q[n] = s[n]
  <2>1. \A n \in 1 .. Len(s) - 1 : n \in 1 .. Len(r) - 1
    BY <1>1, <1>2
  <2> QED BY Zenon, <1>6, <2>1 DEF GoesOnFrom
<1>8. CASE Len(s) = Len(r)
  <2>1. Last(r).name = s[Len(s)].name /\ Starts(s[Len(s)].fields, Last(r).fields)
    BY Zenon, <1>8 DEF GoesOnFrom, Last
  <2> DEFINE a == s[Len(s)].fields
             b == Last(r).fields
  <2>2. Len(a) \in Nat /\ Len(b) \in Nat
    <3>1. Len(s) \in 1 .. Len(s)
      BY <1>1
    <3>2. IsList(a) /\ IsList(b)
      BY Zenon, <1>1, <3>1 DEF Last
    <3> QED BY Zenon, <3>2, LenOfList
  <2>3. Starts(a, b) /\ Len(f) = Len(b) + 1 /\ \A n \in 1 .. Len(b) : f[n] = b[n]
    BY Zenon, <1>5, <2>1
  <2> HIDE DEF a, b
  <2>4. Starts(a, f)
    <3>1. Len(a) <= Len(b) /\ \A n \in 1 .. Len(a) : b[n] = a[n]
      BY Zenon, <2>3 DEF Starts
    <3>2. Len(a) <= Len(f) /\ \A n \in 1 .. Len(a) : n \in 1 .. Len(b)
      BY <2>2, <2>3, <3>1
    <3> QED BY Zenon, <2>3, <3>1, <3>2 DEF Starts
  <2> QED BY Zenon, <1>2, <1>4, <1>6, <1>7, <1>8, <2>1, <2>4 DEF GoesOnFrom, q, a
<1>9. CASE Len(s) # Len(r)
  <2>1. Len(s) \in 1 .. Len(r) - 1
    BY <1>1, <1>2, <1>9
  <2> QED BY Zenon, <1>2, <1>6, <1>7, <2>1 DEF GoesOnFrom, q
<1> QED BY Zenon, <1>8, <1>9

----------------------------------------------------------------------------
(***************************************************************************)
(* While the parser runs, it has read what the lines up to some place say, *)
(* and goes on where the next line does; or it has read at least what the  *)
(* lines before the first irregular one say.                               *)
(***************************************************************************)
\* What the parser has read so far.
Said == ReadOf(global, stack, sections.data)

Stuck(said) == ~Lines.regular /\ GoesOnFrom(said, Lines.sections)

Complete(said) == ~error /\ Lines.regular /\ said = Lines.sections

Says ==
    /\ pc = "parse" => ~error /\ (Reached(Said, TokenStart(index)) \/ Stuck(Said))
    /\ pc \in {"return", "parsed"} => Complete(Said) \/ Stuck(Said)

LEMMA SaidIsTold ==
    ASSUME IInv
    PROVE  Told(Said)
<1>1. Owned(global) /\ AllOwned(stack) /\ AllOwned(sections.data)
  BY Zenon DEF IInv
<1> QED BY Zenon, <1>1, ReadIsTold DEF Said

LEMMA LinesAreTold ==
    ASSUME text \in Seq(Character)
    PROVE  Told(Lines.sections)
<1>1. Len(text) \in Nat /\ Len(text) + 1 \in 0 .. Len(text) + 1
  BY LengthIsNatural
<1>2. LineHasBegun(Len(text) + 1)
  BY Zenon, <1>1, AllBegun
<1> QED BY Zenon, <1>1, <1>2, ReadingGoesOn DEF LineHasBegun, IsReport

LEMMA SaidNext ==
    ASSUME UNCHANGED text
    PROVE  Said' = ReadOf(global', stack', sections'.data)
<1> DEFINE said(f, n) == [name |-> Word(f[n].name), value |-> Word(f[n].value)]
<1>1. \A w : Word(w)' = Word(w)
  BY Zenon, SameWords
<1>2. \A f, n : said(f, n)' = said(f, n)
  <2> SUFFICES ASSUME NEW CONSTANT f, NEW CONSTANT n PROVE said(f, n)' = said(f, n)
    BY Zenon
  <2>1. Word(f[n].name)' = Word(f[n].name) /\ Word(f[n].value)' = Word(f[n].value)
    BY Zenon, <1>1
  <2> QED BY Zenon, <2>1
<1>3. \A f : Fields(f) = [n \in DOMAIN f |-> said(f, n)]
  BY Zenon DEF Fields
<1>4. \A f : Fields(f)' = [n \in DOMAIN f |-> said(f, n)']
  BY Zenon DEF Fields
<1> HIDE DEF said
<1>5. \A f : Fields(f)' = Fields(f)
  BY Zenon, <1>2, <1>3, <1>4
<1> DEFINE meaning(w, f) == [name |-> w, fields |-> f]
<1>6. \A s : Meaning(s)' = Meaning(s)
  <2> SUFFICES ASSUME NEW CONSTANT s PROVE Meaning(s)' = Meaning(s)
    BY Zenon
  <2>1. Word(s.name)' = Word(s.name) /\ Fields(s.fields)' = Fields(s.fields)
    BY Zenon, <1>1, <1>5
  <2> QED BY Zenon, <2>1 DEF Meaning
<1> DEFINE k == 1 + Len(stack) + Len(sections.data)
           nth(n) == Nth(global, stack, sections.data, n)
<1>7. Said' = [n \in 1 .. k' |-> Meaning(nth(n))']
  BY Zenon DEF Said, ReadOf
<1>8. \A n : Meaning(nth(n))' = Meaning(nth(n)')
  <2> SUFFICES ASSUME NEW CONSTANT n PROVE Meaning(nth(n))' = Meaning(nth(n)')
    BY Zenon
  <2> QED BY Zenon, <1>6
<1> QED BY Zenon, <1>7, <1>8 DEF ReadOf

\* What a step may do to what has been read.
More(said, next) ==
    \/ next = said
    \/ \E name : next = WithSection(said, name)
    \/ \E name, value : next = WithEntry(said, name, value)

LEMMA StuckStays ==
    ASSUME UNCHANGED text, text \in Seq(Character), NEW said, Told(said), Stuck(said),
           NEW next, More(said, next)
    PROVE  Stuck(next) /\ Stuck(next)'
<1>1. Lines' = Lines
  BY Zenon, SameReading
<1>2. Told(Lines.sections)
  BY Zenon, LinesAreTold
<1>3. GoesOnFrom(said, Lines.sections)
  BY Zenon DEF Stuck
<1>4. GoesOnFrom(next, Lines.sections)
  <2> HIDE DEF GoesOnFrom
  <2> QED BY Zenon, <1>2, <1>3, GoesOnWithSection, GoesOnWithEntry DEF More
<1>5. Stuck(next)' <=> ~Lines'.regular /\ GoesOnFrom(next, Lines'.sections)
  BY Zenon DEF Stuck, GoesOnFrom, Starts
<1>6. ~Lines.regular
  BY Zenon DEF Stuck
<1>7. Stuck(next)
  BY Zenon, <1>4, <1>6 DEF Stuck
<1> QED BY Zenon, <1>1, <1>4, <1>5, <1>6, <1>7

\* The kinds of the token that is next.
LEMMA AheadKinds ==
    ASSUME text \in Seq(Character), NEW i \in 1 .. Len(text) + 1, NEW said, Told(said),
           Reached(said, TokenStart(i))
    PROVE  \/ Token(i).kind = "end" /\ Lines.regular /\ Lines.sections = said
           \/ /\ Token(i).kind = "separator"
              /\ \E after : Declares(i, after) /\ Reached(WithSection(said, Word(NameDeclared(i))), after)
           \/ /\ Token(i).kind = "name"
              /\ \E after : /\ Assigns(i, after)
                            /\ Reached(WithEntry(said, Word(NameAssigned(i)), Word(ValueAssigned(i))), after)
           \/ Stuck(said)
<1>1. Ahead(said, i)
  BY Zenon, ReachedIsAhead
<1>2. Len(text) \in Nat
  BY LengthIsNatural
<1>3. CASE TokenStart(i) = Len(text) + 1 /\ Lines.regular /\ Lines.sections = said
  <2>1. TokenStart(i) > Len(text)
    BY <1>2, <1>3
  <2>2. TokenKind(TokenStart(i)) = "end"
    BY Zenon, <2>1 DEF TokenKind
  <2>3. Token(i).kind = TokenKind(TokenStart(i))
    <3> DEFINE start == TokenStart(i)
               kind == TokenKind(start)
               at == <<start, TokenEnd(start)>>
               next == IF kind \in {"end", "unknown"} THEN start ELSE TokenEnd(start) + 1
    <3>1. Token(i) = [kind |-> kind, at |-> at, next |-> next]
      BY Zenon DEF Token
    <3> HIDE DEF kind, at, next, start
    <3>2. Token(i).kind = kind
      BY <3>1
    <3> QED BY Zenon, <3>2 DEF kind, start
  <2> QED BY Zenon, <1>3, <2>2, <2>3
<1>4. CASE \E after : Declares(i, after) /\ Reached(WithSection(said, Word(NameDeclared(i))), after)
  <2>1. Token(i).kind = "separator"
    BY Zenon, <1>4 DEF Declares
  <2> QED BY Zenon, <1>4, <2>1
<1>5. CASE \E after : /\ Assigns(i, after)
                      /\ Reached(WithEntry(said, Word(NameAssigned(i)), Word(ValueAssigned(i))), after)
  <2>1. Token(i).kind = "name"
    BY Zenon, <1>5 DEF Assigns
  <2> QED BY Zenon, <1>5, <2>1
<1>6. CASE ~Lines.regular /\ Lines.sections = said
  <2>1. GoesOnFrom(said, said)
    BY Zenon, GoesOnFromItself
  <2> QED BY Zenon, <1>6, <2>1 DEF Stuck
<1> QED BY Zenon, <1>1, <1>3, <1>4, <1>5, <1>6 DEF Ahead

----------------------------------------------------------------------------
\* What the operators on one section do to what it means.

LEMMA BegunIsAlike ==
    ASSUME NEW section, Owned(section), NEW name
    PROVE  Alike(Begun(section, name), section)
<1>1. PICK d, n, f, c, a, z :
        section = [decl |-> d, name |-> n, fields |-> f, capacity |-> c,
                   content_start |-> a, content_end |-> z]
  BY Zenon DEF Owned
<1> DEFINE begun == [section EXCEPT !.content_start = name[1]]
<1>2. begun.name = section.name /\ begun.fields = section.fields
  BY <1>1
<1> HIDE DEF begun
<1>3. Begun(section, name) = begun \/ Begun(section, name) = section
  BY Zenon DEF Begun, begun
<1> QED BY Zenon, <1>2, <1>3 DEF Alike

LEMMA EndedIsAlike ==
    ASSUME NEW section, Owned(section), NEW end
    PROVE  Alike(Ended(section, end), section)
<1>1. PICK d, n, f, c, a, z :
        section = [decl |-> d, name |-> n, fields |-> f, capacity |-> c,
                   content_start |-> a, content_end |-> z]
  BY Zenon DEF Owned
<1> DEFINE start == IF stack # << >> /\ section.fields = << >> THEN end ELSE section.content_start
           once == [section EXCEPT !.content_end = end]
           twice == [once EXCEPT !.content_start = start]
<1>2. Ended(section, end) = [section EXCEPT !.content_end = end, !.content_start = start]
  BY Zenon DEF Ended
<1> HIDE DEF start
<1>3. [section EXCEPT !.content_end = end, !.content_start = start] = twice
  OBVIOUS
<1>4. once = [decl |-> d, name |-> n, fields |-> f, capacity |-> c,
              content_start |-> a, content_end |-> end]
  BY <1>1
<1> HIDE DEF once
<1>5. twice.name = n /\ twice.fields = f
  BY <1>4
<1>6. section.name = n /\ section.fields = f
  BY <1>1
<1> HIDE DEF twice
<1> QED BY Zenon, <1>2, <1>3, <1>5, <1>6 DEF Alike

LEMMA WithFieldAdds ==
    ASSUME NEW section, Owned(section), NEW name, NEW value
    PROVE  /\ WithField(section, name, value).name = section.name
           /\ WithField(section, name, value).fields
                = Append(section.fields, [name |-> name, value |-> value])
<1>1. PICK d, n, f, c, a, z :
        section = [decl |-> d, name |-> n, fields |-> f, capacity |-> c,
                   content_start |-> a, content_end |-> z]
  BY Zenon DEF Owned
<1> DEFINE fields == Append(section.fields, [name |-> name, value |-> value])
           room   == Room(Len(section.fields), section.capacity)
<1>2. WithField(section, name, value) = [section EXCEPT !.fields = fields, !.capacity = room]
  BY Zenon DEF WithField
<1> HIDE DEF fields, room
<1> DEFINE longer == WithField(section, name, value)
<1>4. longer = [decl |-> d, name |-> n, fields |-> fields, capacity |-> room,
                content_start |-> a, content_end |-> z]
  BY Zenon, <1>1, <1>2, WithFields
<1> HIDE DEF longer
<1>5. longer.name = n /\ longer.fields = fields /\ section.name = n
  BY <1>1, <1>4
<1> QED BY Zenon, <1>5 DEF fields, longer

----------------------------------------------------------------------------
\* What is left to show of a step, once it is known what has been read after it.
LEMMA SaysHere ==
    ASSUME UNCHANGED text, text \in Seq(Character), NEW next, Told(next), Said' = next,
           \/ /\ pc' = "parse" /\ ~error'
              /\ Reached(next, TokenStart(index')) \/ Stuck(next)
           \/ /\ pc' \in {"return", "parsed"}
              /\ (~error' /\ Lines.regular /\ next = Lines.sections) \/ Stuck(next)
    PROVE  Says'
<1>1. Lines' = Lines
  BY Zenon, SameReading
<1>2. Stuck(next) => Stuck(Said)'
  <2>1. More(next, next)
    BY Zenon DEF More
  <2>2. Stuck(next) => Stuck(next)'
    BY Zenon, <2>1, StuckStays
  <2>3. Stuck(next)' <=> Stuck(Said)'
    BY Zenon DEF Stuck
  <2> QED BY Zenon, <2>2, <2>3
<1>3. CASE pc' = "parse" /\ ~error' /\ (Reached(next, TokenStart(index')) \/ Stuck(next))
  <2>1. Reached(next, TokenStart(index')) => Reached(Said, TokenStart(index))'
    <3>1. TokenStart(index)' = TokenStart(index')
      BY Zenon, SameStart
    <3>2. Reached(Said, TokenStart(index))' <=> Reached(Said', TokenStart(index)')
      BY Zenon, SameReached
    <3> QED BY Zenon, <3>1, <3>2
  <2>2. pc' \notin {"return", "parsed"}
    BY <1>3
  <2> QED BY Zenon, <1>2, <1>3, <2>1, <2>2 DEF Says
<1>4. CASE /\ pc' \in {"return", "parsed"}
           /\ (~error' /\ Lines.regular /\ next = Lines.sections) \/ Stuck(next)
  <2>1. pc' # "parse"
    BY <1>4
  <2>2. ~error' /\ Lines.regular /\ next = Lines.sections => Complete(Said)'
    BY Zenon, <1>1 DEF Complete
  <2> QED BY Zenon, <1>2, <1>4, <2>1, <2>2 DEF Says
<1> QED BY Zenon, <1>3, <1>4

LEMMA SaysInit == Init => Says
<1> SUFFICES ASSUME Init PROVE Says
  OBVIOUS
<1>1. pc = "ready"
  BY Zenon DEF Init
<1>2. pc # "parse" /\ pc \notin {"return", "parsed"}
  BY <1>1
<1> QED BY Zenon, <1>2 DEF Says

\* Of the steps outside the parser.
LEMMA SaysOutside ==
    ASSUME text \in Seq(Character), IInv, Says, UNCHANGED text,
           pc' \notin {"parse", "return", "parsed"} \/ UNCHANGED <<index, pc, global, error, stack, sections>>
    PROVE  Says'
<1>1. CASE pc' \notin {"parse", "return", "parsed"}
  <2>1. pc' # "parse" /\ pc' \notin {"return", "parsed"}
    BY <1>1
  <2> QED BY Zenon, <2>1 DEF Says
<1>2. CASE UNCHANGED <<index, pc, global, error, stack, sections>>
  <2>1. Said' = Said
    BY Zenon, <1>2, SaidNext DEF Said
  <2>2. Told(Said)
    BY Zenon, SaidIsTold
  <2>3. index' = index /\ pc' = pc /\ error' = error
    BY Zenon, <1>2
  <2>4. CASE pc = "parse" \/ pc \in {"return", "parsed"}
    BY Zenon, <2>1, <2>2, <2>3, <2>4, SaysHere DEF Says, Complete
  <2>5. CASE ~(pc = "parse" \/ pc \in {"return", "parsed"})
    BY Zenon, <2>3, <2>5 DEF Says
  <2> QED BY Zenon, <2>4, <2>5
<1> QED BY Zenon, <1>1, <1>2

LEMMA SaysParseBegin == IInv /\ Apart /\ ParseBegin => Says'
<1> SUFFICES ASSUME IInv, Apart, ParseBegin PROVE Says'
  OBVIOUS
<1>1. /\ text \in Seq(Character) /\ text' = text /\ index' = 1 /\ pc' = "parse" /\ ~error'
      /\ sections'.data = << >> /\ stack' = stack /\ stack = << >>
  BY DEF ParseBegin, Apart, IInv, CallsOpen
<1>2. Len(text) \in Nat
  BY Zenon, <1>1, LengthIsNatural
<1>3. Owned(global') /\ global'.name = NoWord /\ global'.fields = << >>
  <2> DEFINE new == Section(NoWord, NoWord)
  <2>1. Owned(global')
    <3>1. IInv'
      BY Zenon, InvParseBegin
    <3> QED BY Zenon, <3>1 DEF IInv, Owned
  <2>2. new.name = NoWord /\ new.fields = << >>
    BY DEF Section
  <2>3. global' = [new EXCEPT !.content_end = 1, !.content_start = 1]
    BY Zenon DEF ParseBegin
  <2>4. Owned(new)
    BY Zenon, NewIsOwned
  <2> HIDE DEF new
  <2>5. global'.name = new.name /\ global'.fields = new.fields
    <3>1. new = [decl |-> new.decl, name |-> new.name, fields |-> new.fields,
                 capacity |-> new.capacity, content_start |-> new.content_start,
                 content_end |-> new.content_end]
      BY Zenon, <2>4 DEF Owned
    <3> QED BY <2>3, <3>1
  <2> QED BY Zenon, <2>1, <2>2, <2>5
<1>4. Said' = Nothing.sections
  <2>1. Opened(global', << >>) = Nothing.sections
    BY Zenon, <1>3, NothingIsRead
  <2>2. Said' = ReadOf(global', << >>, << >>)
    BY Zenon, <1>1, SaidNext
  <2> QED BY Zenon, <2>1, <2>2 DEF Opened
<1>5. Reached(Nothing.sections, TokenStart(1))
  <2>1. 0 \in 0 .. Len(text) + 1 /\ 1 \in 1 .. Len(text) + 1
    BY <1>2
  <2>2. Reading[0] = Nothing
    BY Zenon, <1>2, ReadingGoesOn
  <2>3. StartFrom(1) = TokenStart(1)
    BY Zenon, <1>1, <2>1, StartFromIs
  <2> QED BY Zenon, <2>1, <2>2, <2>3, NothingIsReport DEF Reached
<1>6. Told(Nothing.sections)
  BY Zenon, NothingIsReport DEF IsReport
<1> QED BY Zenon, <1>1, <1>4, <1>5, <1>6, SaysHere

\* What a step of the parser begins with.
LEMMA SaysParsing ==
    ASSUME IInv, Apart, Says, pc = "parse"
    PROVE  /\ text \in Seq(Character) /\ index \in 1 .. Len(text) + 1 /\ ~error
           /\ sections.data = << >>
           /\ Owned(global) /\ AllOwned(stack) /\ Owned(Current)
           /\ Current = CurrentOf(global, stack)
           /\ Said = Opened(global, stack) /\ Told(Said)
           /\ \/ Token(index).kind = "end" /\ Lines.regular /\ Lines.sections = Said
              \/ /\ Token(index).kind = "separator"
                 /\ \E after : Declares(index, after) /\ Reached(WithSection(Said, Word(NameDeclared(index))), after)
              \/ /\ Token(index).kind = "name"
                 /\ \E after : /\ Assigns(index, after)
                               /\ Reached(WithEntry(Said, Word(NameAssigned(index)), Word(ValueAssigned(index))), after)
              \/ Stuck(Said)
<1>1. ~error /\ (Reached(Said, TokenStart(index)) \/ Stuck(Said))
  BY Zenon DEF Says
<1>2. text \in Seq(Character) /\ index \in 1 .. Len(text) + 1 /\ sections.data = << >>
  BY Zenon, <1>1, Parsing
<1>3. Owned(global) /\ AllOwned(stack) /\ Owned(Current)
  BY Zenon, CurrentIsOwned DEF IInv
<1>4. Current = CurrentOf(global, stack)
  BY Zenon DEF Current, CurrentOf, Last
<1>5. Said = Opened(global, stack) /\ Told(Said)
  BY Zenon, <1>2, SaidIsTold DEF Said, Opened
<1> QED BY Zenon, <1>1, <1>2, <1>3, <1>4, <1>5, AheadKinds

\* What a step of the parser has read when it replaces the section that is being read.
LEMMA BecomesIsReplaced ==
    ASSUME NEW section, Becomes(section)
    PROVE  Replaced(global, stack, section, global', stack')
  BY Zenon DEF Becomes, Replaced

LEMMA SaysParseEntry == IInv /\ Apart /\ Says /\ ParseEntry => Says'
<1> SUFFICES ASSUME IInv, Apart, Says, ParseEntry PROVE Says'
  OBVIOUS
<1> DEFINE name    == Token(index)
           op      == Token(name.next)
           value   == Token(op.next)
           section == Begun(Current, name.at)
           longer  == WithField(section, name.at, value.at)
           more    == WithEntry(Said, Word(name.at), Word(value.at))
<1>1. /\ pc = "parse" /\ name.kind = "name"
      /\ index' = (IF op.kind = "op" THEN value.next ELSE op.next)
      /\ UNCHANGED <<text, sections>>
      /\ IF op.kind = "op" /\ value.kind = "name" THEN Becomes(longer) /\ error' = error /\ pc' = pc
         ELSE Becomes(section) /\ error' = TRUE /\ pc' = "return"
  BY DEF ParseEntry, Stops, GoesOn
<1>2. /\ text \in Seq(Character) /\ ~error /\ sections.data = << >>
      /\ Owned(global) /\ AllOwned(stack) /\ Owned(Current)
      /\ Current = CurrentOf(global, stack)
      /\ Said = Opened(global, stack) /\ Told(Said)
  BY Zenon, <1>1, SaysParsing
<1>3. \/ /\ op.kind = "op" /\ value.kind = "name"
         /\ \E after : TokenStart(value.next) = after /\ Reached(more, after)
      \/ Stuck(Said)
  <2>1. name.kind # "end" /\ name.kind # "separator"
    BY <1>1
  <2>2. \/ \E after : /\ Assigns(index, after)
                      /\ Reached(WithEntry(Said, Word(NameAssigned(index)), Word(ValueAssigned(index))), after)
        \/ Stuck(Said)
    BY Zenon, <1>1, <2>1, SaysParsing
  <2> QED BY Zenon, <2>2 DEF Assigns, NameAssigned, ValueAssigned
<1>4. Owned(section) /\ Alike(section, Current)
  BY Zenon, <1>2, BegunIsOwned, BegunIsAlike
<1>5. Owned(longer)
  BY Zenon, <1>4, WithFieldIsOwned
<1>6. Said' = Opened(global', stack')
  BY Zenon, <1>1, <1>2, SaidNext DEF Opened
<1>7. Becomes(section) => Said' = Said
  <2> SUFFICES ASSUME Becomes(section) PROVE Said' = Said
    OBVIOUS
  <2>1. Replaced(global, stack, section, global', stack')
    BY Zenon, BecomesIsReplaced
  <2> HIDE DEF section
  <2>2. Opened(global', stack') = Opened(global, stack)
    BY <1>2, <1>4, <2>1, AlikeIsRead
  <2> QED BY Zenon, <1>2, <1>6, <2>2
<1>8. Becomes(longer) => Said' = more
  <2> SUFFICES ASSUME Becomes(longer) PROVE Said' = more
    OBVIOUS
  <2>1. Replaced(global, stack, longer, global', stack')
    BY Zenon, BecomesIsReplaced
  <2>2. /\ longer.name = CurrentOf(global, stack).name
        /\ longer.fields = Append(CurrentOf(global, stack).fields, [name |-> name.at, value |-> value.at])
    <3>1. longer.name = section.name /\ longer.fields = Append(section.fields, [name |-> name.at, value |-> value.at])
      BY <1>4, WithFieldAdds
    <3> HIDE DEF longer, section
    <3> QED BY Zenon, <1>2, <1>4, <3>1 DEF Alike
  <2>3. IsList(CurrentOf(global, stack).fields)
    BY Zenon, <1>2 DEF Owned
  <2> HIDE DEF longer, section
  <2>4. Opened(global', stack') = WithEntry(Opened(global, stack), Word(name.at), Word(value.at))
    BY <1>2, <1>5, <2>1, <2>2, <2>3, EntryIsRead
  <2> QED BY Zenon, <1>2, <1>6, <2>4
<1>9. Told(more)
  BY Zenon, <1>2, EntryIsTold
<1>10. Stuck(Said) => Stuck(more)
  <2>1. More(Said, more)
    BY Zenon DEF More
  <2> QED BY Zenon, <1>1, <1>2, <2>1, StuckStays
<1> HIDE DEF name, op, value, section, longer, more
<1>11. CASE op.kind = "op" /\ value.kind = "name"
  <2>1. index' = value.next /\ Becomes(longer) /\ ~error' /\ pc' = "parse"
    BY Zenon, <1>1, <1>2, <1>11
  <2> QED BY Zenon, <1>1, <1>2, <1>3, <1>8, <1>9, <1>10, <2>1, SaysHere
<1>12. CASE ~(op.kind = "op" /\ value.kind = "name")
  <2>1. Becomes(section) /\ pc' = "return" /\ Stuck(Said) /\ pc' \in {"return", "parsed"}
    BY <1>1, <1>3, <1>12
  <2> QED BY Zenon, <1>1, <1>2, <1>7, <2>1, SaysHere
<1> QED BY Zenon, <1>11, <1>12

----------------------------------------------------------------------------
LEMMA SaysParseSection == IInv /\ Apart /\ Says /\ ParseSection => Says'
<1> SUFFICES ASSUME IInv, Apart, Says, ParseSection PROVE Says'
  OBVIOUS
<1> DEFINE open  == Token(index)
           name  == Token(open.next)
           close == Token(name.next)
           ended == Ended(Current, Before(open.at[1]))
           outer == IF stack = << >> THEN stack ELSE Append(Front(stack), ended)
           found == Section(<<open.at[1], close.at[1]>>, name.at)
           declares == Is(open, "[") /\ name.kind = "name" /\ close.kind = "separator" /\ Is(close, "]")
           more  == WithSection(Said, Word(name.at))
<1>1. /\ pc = "parse" /\ open.kind = "separator" /\ UNCHANGED <<text, sections>>
      /\ global' = (IF stack = << >> THEN ended ELSE global)
  BY Zenon DEF ParseSection
<1>2. /\ declares => index' = close.next /\ stack' = Append(outer, found) /\ error' = error /\ pc' = pc
      /\ ~declares => stack' = outer /\ error' = TRUE /\ pc' = "return"
  <2> DEFINE shut == Is(open, "]")
  <2>1. Is(open, "[") => ~shut
    BY DEF Is
  <2>2. index' = (IF shut THEN open.next ELSE IF name.kind = "name" THEN close.next ELSE name.next)
    BY Zenon DEF ParseSection
  <2>3. IF declares THEN stack' = Append(outer, found) /\ error' = error /\ pc' = pc
        ELSE stack' = outer /\ error' = TRUE /\ pc' = "return"
    BY Zenon DEF ParseSection, GoesOn, Stops
  <2> HIDE DEF shut, outer, found
  <2> QED BY Zenon, <2>1, <2>2, <2>3
<1>3. /\ text \in Seq(Character) /\ ~error /\ sections.data = << >>
      /\ Owned(global) /\ AllOwned(stack) /\ Owned(Current)
      /\ Current = CurrentOf(global, stack)
      /\ Said = Opened(global, stack) /\ Told(Said)
  BY Zenon, <1>1, SaysParsing
<1>4. \/ declares /\ \E after : TokenStart(close.next) = after /\ Reached(more, after)
      \/ Stuck(Said)
  <2>1. open.kind # "end" /\ open.kind # "name"
    BY <1>1
  <2>2. \/ \E after : Declares(index, after) /\ Reached(WithSection(Said, Word(NameDeclared(index))), after)
        \/ Stuck(Said)
    BY Zenon, <1>1, <2>1, SaysParsing
  <2> QED BY Zenon, <2>2 DEF Declares, NameDeclared, Is, OpenAt, ShutAt
<1>5. Owned(ended) /\ Alike(ended, Current)
  BY Zenon, <1>3, EndedIsOwned, EndedIsAlike
<1>6. Owned(found) /\ found.fields = << >> /\ found.name = name.at
  <2>1. found.fields = << >> /\ found.name = name.at
    BY DEF Section
  <2> QED BY Zenon, <2>1, NewIsOwned
<1>7. Said' = Opened(global', stack')
  BY Zenon, <1>1, <1>3, SaidNext DEF Opened
<1>8. Opened(global', outer) = Said /\ Owned(global') /\ AllOwned(outer)
  <2>1. Replaced(global, stack, ended, global', outer)
    BY Zenon, <1>1 DEF Replaced
  <2> HIDE DEF ended, outer
  <2>2. Opened(global', outer) = Opened(global, stack)
    BY <1>3, <1>5, <2>1, AlikeIsRead
  <2>3. Owned(global') /\ AllOwned(outer)
    BY Zenon, <1>3, <1>5, <2>1, ReplacedIsOwned
  <2> QED BY Zenon, <1>3, <2>2, <2>3
<1> HIDE DEF found, ended, outer
<1>9. Opened(global', Append(outer, found)) = more
  <2>1. Opened(global', Append(outer, found)) = WithSection(Opened(global', outer), Word(found.name))
    BY <1>6, <1>8, SectionIsRead
  <2> QED BY Zenon, <1>6, <1>8, <2>1
<1>10. Told(more)
  BY Zenon, <1>3, SectionIsTold
<1>11. Stuck(Said) => Stuck(more)
  <2>1. More(Said, more)
    BY Zenon DEF More
  <2> QED BY Zenon, <1>1, <1>3, <2>1, StuckStays
<1> HIDE DEF declares, open, name, close, more
<1>12. CASE declares
  <2>1. index' = close.next /\ stack' = Append(outer, found) /\ ~error' /\ pc' = "parse"
    BY <1>1, <1>2, <1>3, <1>12
  <2>2. Said' = more
    BY Zenon, <1>7, <1>9, <2>1
  <2>3. Reached(more, TokenStart(index')) \/ Stuck(more)
    BY Zenon, <1>4, <1>11, <1>12, <2>1
  <2> QED BY Zenon, <1>1, <1>3, <1>10, <2>1, <2>2, <2>3, SaysHere
<1>13. CASE ~declares
  <2>1. pc' \in {"return", "parsed"} /\ Stuck(Said) /\ Said' = Said
    BY <1>2, <1>4, <1>7, <1>8, <1>13
  <2> QED BY Zenon, <1>1, <1>3, <2>1, SaysHere
<1> QED BY Zenon, <1>12, <1>13

LEMMA SaysParseEnd == IInv /\ Apart /\ Says /\ ParseEnd => Says'
<1> SUFFICES ASSUME IInv, Apart, Says, ParseEnd PROVE Says'
  OBVIOUS
<1> DEFINE ended == Ended(Current, index')
<1>1. /\ pc = "parse" /\ pc' \in {"return", "parsed"} /\ Token(index).kind = "end"
      /\ UNCHANGED <<text, sections, error>>
      /\ Becomes(ended)
  BY DEF ParseEnd
<1>2. /\ text \in Seq(Character) /\ ~error /\ sections.data = << >>
      /\ Owned(global) /\ AllOwned(stack) /\ Owned(Current)
      /\ Current = CurrentOf(global, stack)
      /\ Said = Opened(global, stack) /\ Told(Said)
  BY Zenon, <1>1, SaysParsing
<1>3. (Lines.regular /\ Lines.sections = Said) \/ Stuck(Said)
  <2>1. Token(index).kind # "separator" /\ Token(index).kind # "name"
    BY <1>1
  <2> QED BY Zenon, <1>1, <2>1, SaysParsing
<1>4. Owned(ended) /\ Alike(ended, Current)
  BY Zenon, <1>2, EndedIsOwned, EndedIsAlike
<1>5. Replaced(global, stack, ended, global', stack')
  BY Zenon, <1>1, BecomesIsReplaced
<1> HIDE DEF ended
<1>6. Opened(global', stack') = Opened(global, stack)
  BY <1>2, <1>4, <1>5, AlikeIsRead
<1>7. Said' = Said
  <2>1. Said' = Opened(global', stack')
    BY Zenon, <1>1, <1>2, SaidNext DEF Opened
  <2> QED BY Zenon, <1>2, <1>6, <2>1
<1> QED BY Zenon, <1>1, <1>2, <1>3, <1>7, SaysHere

LEMMA SaysParseUnknown == IInv /\ Apart /\ Says /\ ParseUnknown => Says'
<1> SUFFICES ASSUME IInv, Apart, Says, ParseUnknown PROVE Says'
  OBVIOUS
<1>1. /\ pc = "parse" /\ pc' \in {"return", "parsed"} /\ Token(index).kind \in {"op", "unknown"}
      /\ UNCHANGED <<text, global, stack, sections>>
  BY DEF ParseUnknown, Stops
<1>2. Token(index).kind # "separator" /\ Token(index).kind # "name" /\ Token(index).kind # "end"
  BY <1>1
<1>3. text \in Seq(Character) /\ Told(Said) /\ Stuck(Said)
  BY Zenon, <1>1, <1>2, SaysParsing
<1>4. Said' = Said
  BY Zenon, <1>1, SaidNext DEF Said
<1> QED BY Zenon, <1>1, <1>3, <1>4, SaysHere

LEMMA SaysSectionReturns == IInv /\ Apart /\ Says /\ SectionReturns => Says'
<1> SUFFICES ASSUME IInv, Apart, Says, SectionReturns PROVE Says'
  OBVIOUS
<1>1. /\ pc \in {"return", "parsed"} /\ pc' = pc /\ stack # << >>
      /\ stack' = Front(stack)
      /\ UNCHANGED <<text, error, global>>
      /\ sections'.data = sections.data \o <<Last(stack)>>
  BY DEF SectionReturns, Kept
<1>2. IsList(stack) /\ IsList(sections.data) /\ text \in Seq(Character)
  BY DEF IInv, AllOwned, Apart
<1>3. sections'.data = Append(sections.data, Last(stack))
  <2> DEFINE T == Range(sections.data) \cup {Last(stack)}
  <2>1. sections.data \in Seq(T) /\ Last(stack) \in T
    BY <1>2, SeqMonotonic DEF IsList
  <2> QED BY <1>1, <2>1, AppendIsConcat
<1>4. ReadOf(global, Front(stack), Append(sections.data, Last(stack))) = ReadOf(global, stack, sections.data)
  BY <1>1, <1>2, ReturnIsRead
<1>5. Said' = Said
  <2>1. Said' = ReadOf(global', stack', sections'.data)
    BY Zenon, <1>1, SaidNext
  <2> QED BY Zenon, <1>1, <1>3, <1>4, <2>1 DEF Said
<1>6. Told(Said)
  BY Zenon, SaidIsTold
<1> QED BY Zenon, <1>1, <1>2, <1>5, <1>6, SaysHere DEF Says, Complete

LEMMA SaysGlobalReturns == IInv /\ Apart /\ Says /\ GlobalReturns => Says'
<1> SUFFICES ASSUME IInv, Apart, Says, GlobalReturns PROVE Says'
  OBVIOUS
<1>1. /\ pc \in {"return", "parsed"} /\ pc' \in {"return", "parsed"}
      /\ UNCHANGED <<text, error, global, stack, sections>> /\ text \in Seq(Character)
  BY DEF GlobalReturns, Apart, result
<1>2. Said' = Said
  BY Zenon, <1>1, SaidNext DEF Said
<1>3. Told(Said)
  BY Zenon, SaidIsTold
<1> QED BY Zenon, <1>1, <1>2, <1>3, SaysHere DEF Says, Complete

LEMMA SaysNext == IInv /\ Apart /\ Says /\ [Next]_vars => Says'
<1> SUFFICES ASSUME IInv, Apart, Says, [Next]_vars PROVE Says'
  OBVIOUS
<1>0. text \in Seq(Character)
  BY DEF Apart
<1>1. CASE ParseBegin
  BY Zenon, <1>1, SaysParseBegin
<1>2. CASE ParseEntry
  BY Zenon, <1>2, SaysParseEntry
<1>3. CASE ParseSection
  BY Zenon, <1>3, SaysParseSection
<1>4. CASE ParseEnd
  BY Zenon, <1>4, SaysParseEnd
<1>5. CASE ParseUnknown
  BY Zenon, <1>5, SaysParseUnknown
<1>6. CASE SectionReturns
  BY Zenon, <1>6, SaysSectionReturns
<1>7. CASE GlobalReturns
  BY Zenon, <1>7, SaysGlobalReturns
<1>8. CASE Destroy
  <2>1. pc' = "destroyed" /\ text' = text
    BY <1>8 DEF Destroy
  <2>2. pc' \notin {"parse", "return", "parsed"}
    BY <2>1
  <2> QED BY Zenon, <1>0, <2>1, <2>2, SaysOutside
<1>9. ASSUME NEW name, NEW section,
             GetGlobalEntryValue(name) \/ GetEntryValue(section, name) \/ GetField(section, name)
      PROVE  Says'
  <2>1. UNCHANGED <<text, index, pc, global, error, stack, sections>>
    BY <1>9 DEF GetGlobalEntryValue, GetEntryValue, GetField, result
  <2> QED BY Zenon, <1>0, <2>1, SaysOutside
<1>10. CASE UNCHANGED vars
  <2>1. UNCHANGED <<text, index, pc, global, error, stack, sections>>
    BY <1>10 DEF vars, result
  <2> QED BY Zenon, <1>0, <2>1, SaysOutside
<1> QED BY <1>1, <1>2, <1>3, <1>4, <1>5, <1>6, <1>7, <1>8, <1>9, <1>10 DEF Next

\* What has been read is the result once the parser has returned.
LEMMA ResultIsSaid ==
    ASSUME IInv, pc = "parsed"
    PROVE  Read = Said /\ Told(Read)
<1>1. stack = << >>
  BY DEF IInv, CallsOpen
<1>2. IsList(sections.data)
  BY Zenon DEF IInv, AllOwned
<1>3. Read = Said
  BY Zenon, <1>1, <1>2, ResultIsRead DEF Said
<1> QED BY Zenon, <1>3, SaidIsTold

LEMMA SaysWhatLinesSay == IInv /\ Apart /\ Says => ParseReadsLines
<1> SUFFICES ASSUME IInv, Apart, Says, pc = "parsed" PROVE ParseReadsLines
  BY Zenon DEF ParseReadsLines
<1>1. Read = Said /\ Told(Read)
  BY Zenon, ResultIsSaid
<1>2. Told(Lines.sections)
  BY Zenon, LinesAreTold DEF Apart
<1>3. Complete(Said) \/ Stuck(Said)
  BY DEF Says
<1>4. CASE Complete(Said)
  <2>1. ~error /\ Lines.regular /\ Read = Lines.sections
    BY Zenon, <1>1, <1>4 DEF Complete
  <2>2. GoesOnFrom(Read, Lines.sections)
    BY Zenon, <1>2, <2>1, GoesOnFromItself
  <2>3. Extends(Read, Lines.sections)
    BY Zenon, <1>1, <1>2, <2>2, GoesOnExtends
  <2> QED BY Zenon, <2>1, <2>3 DEF ParseReadsLines
<1>5. CASE Stuck(Said)
  <2>1. ~Lines.regular /\ GoesOnFrom(Read, Lines.sections)
    BY Zenon, <1>1, <1>5 DEF Stuck
  <2>2. Extends(Read, Lines.sections)
    BY Zenon, <1>1, <1>2, <2>1, GoesOnExtends
  <2> QED BY Zenon, <2>1, <2>2 DEF ParseReadsLines
<1> QED BY Zenon, <1>3, <1>4, <1>5

\* Whatever the text: the result has all that the lines before the first irregular one say, even
\* when the parser stops with an error; and when every line is regular the parser reports no error
\* and its result has exactly the sections and the entries of the lines, in their order, though the
\* tokenizer knows of no lines and the sections return in the opposite order.
THEOREM ReadsLines == Spec => []ParseReadsLines
<1>1. Init => IInv /\ Apart /\ Says
  BY InvInit, ApartInit, SaysInit
<1>2. (IInv /\ Apart /\ Says) /\ [Next]_vars => (IInv /\ Apart /\ Says)'
  BY InvNext, ApartNext, SaysNext
<1>3. IInv /\ Apart /\ Says => ParseReadsLines
  BY SaysWhatLinesSay
<1> QED BY <1>1, <1>2, <1>3, PTL DEF Spec

----------------------------------------------------------------------------
(***************************************************************************)
(* The search in the text itself: walks over the tokens that end in some   *)
(* answer.                                                                 *)
(***************************************************************************)
LEMMA FromTheEnd ==
    ASSUME NEW length \in Nat, NEW S,
           \A i \in 1 .. length + 1 : (\A j \in i + 1 .. length + 1 : j \in S) => i \in S
    PROVE  \A i \in 1 .. length + 1 : i \in S
<1> SUFFICES ASSUME NEW i \in 1 .. length + 1, i \notin S
             PROVE  FALSE
  OBVIOUS
<1> DEFINE Left == {k \in Nat : k <= length /\ (length + 1) - k \notin S}
<1>1. Left # {} /\ Left \subseteq Nat
  <2>1. (length + 1) - i \in Nat /\ (length + 1) - i <= length /\ (length + 1) - ((length + 1) - i) = i
    OBVIOUS
  <2> QED BY <2>1
<1>2. PICK k \in Left : \A x \in Left : k <= x
  <2> HIDE DEF Left
  <2> QED BY <1>1, LeastNumber
<1>3. (length + 1) - k \in 1 .. length + 1 /\ (length + 1) - k \notin S
  BY <1>2
<1>4. ASSUME NEW j \in ((length + 1) - k) + 1 .. length + 1, j \notin S
      PROVE  FALSE
  <2>1. /\ (length + 1) - j \in Nat /\ (length + 1) - j <= length
        /\ (length + 1) - ((length + 1) - j) = j /\ ~(k <= (length + 1) - j)
    BY <1>2, <1>3
  <2>2. (length + 1) - j \in Left
    BY <1>4, <2>1
  <2> QED BY <1>2, <2>1, <2>2
<1> QED BY <1>3, <1>4

\* A search goes on from the places of goes, and has its answer at every other.
IsSearch(f, goes, next, leaf, length) ==
    f = [n \in Places(length) |-> IF n \in goes THEN f[next[n]] ELSE leaf[n]]

LEMMA SearchExists ==
    ASSUME NEW length \in Nat, NEW goes \in SUBSET (1 .. length), NEW next, NEW leaf,
           \A n \in goes : next[n] \in n + 1 .. length + 1
    PROVE  \E f : IsSearch(f, goes, next, leaf, length)
<1> DEFINE hop == [n \in 1 .. length |-> IF n \in goes THEN next[n] ELSE n]
<1>1. \A n \in 1 .. length : hop[n] = IF n \in goes THEN next[n] ELSE n
  OBVIOUS
<1> HIDE DEF hop
<1>2. IsHop(hop, length)
  BY <1>1 DEF IsHop
<1>3. PICK w : IsWalk(w, hop, length)
  BY Zenon, <1>2, WalkExists
<1>4. \A n \in Places(length) : w[n] = IF n \in goes THEN w[next[n]] ELSE n
  <2> SUFFICES ASSUME NEW n \in Places(length) PROVE w[n] = IF n \in goes THEN w[next[n]] ELSE n
    OBVIOUS
  <2>1. w[n] = Walk(w, hop, length, n)
    BY Zenon, <1>3 DEF IsWalk
  <2>2. CASE n \in goes
    <3>1. hop[n] = next[n] /\ hop[n] # n /\ ~(n > length)
      BY <1>1, <2>2
    <3> QED BY Zenon, <2>1, <2>2, <3>1 DEF Walk
  <2>3. CASE n \notin goes
    <3>1. n > length \/ hop[n] = n
      BY <1>1, <2>3 DEF Places
    <3> QED BY Zenon, <2>1, <2>3, <3>1 DEF Walk
  <2> QED BY Zenon, <2>2, <2>3
<1> DEFINE f == [n \in Places(length) |-> leaf[w[n]]]
<1>5. \A n \in goes : next[n] \in Places(length)
  BY DEF Places
<1>6. \A n \in Places(length) : f[n] = leaf[w[n]]
  BY Zenon
<1>7. f = [n \in Places(length) |-> f[n]]
  BY Zenon
<1> HIDE DEF f
<1>8. \A n \in Places(length) : f[n] = IF n \in goes THEN f[next[n]] ELSE leaf[n]
  BY Zenon, <1>4, <1>5, <1>6
<1>9. [n \in Places(length) |-> f[n]] = [n \in Places(length) |-> IF n \in goes THEN f[next[n]] ELSE leaf[n]]
  BY Zenon, <1>8
<1>10. f = [n \in Places(length) |-> IF n \in goes THEN f[next[n]] ELSE leaf[n]]
  BY Zenon, <1>7, <1>9
<1> QED BY Zenon, <1>10 DEF IsSearch

LEMMA TokenGoesOn ==
    ASSUME text \in Seq(Character), NEW i \in 1 .. Len(text) + 1, Token(i).kind \in {"separator", "op", "name"}
    PROVE  /\ Token(i).next \in i + 1 .. Len(text) + 1 /\ Token(i).next \in 1 .. Len(text) + 1
           /\ i \in 1 .. Len(text)
<1>1. IsToken(Token(i), i) /\ Len(text) \in Nat
  BY TokenIsToken, LengthIsNatural
<1> DEFINE t == Token(i)
<1> HIDE DEF t
<1>2. t.next \in i + 1 .. Len(text) + 1 /\ t.next \in 1 .. Len(text) + 1 /\ i \in 1 .. Len(text)
  BY <1>1 DEF IsToken, t
<1> QED BY <1>2 DEF t

LEMMA NextIsPlace ==
    ASSUME text \in Seq(Character), NEW i \in 1 .. Len(text) + 1
    PROVE  Token(i).next \in i .. Len(text) + 1 /\ Token(i).next \in 1 .. Len(text) + 1
<1>1. IsToken(Token(i), i) /\ Len(text) \in Nat
  BY TokenIsToken, LengthIsNatural
<1> DEFINE t == Token(i)
<1> HIDE DEF t
<1>2. t.next \in i .. Len(text) + 1 /\ t.next \in 1 .. Len(text) + 1
  BY <1>1 DEF IsToken, t
<1> QED BY <1>2 DEF t

Kinds == {"end", "separator", "op", "name", "unknown"}

LEMMA TokenIsOfKind ==
    ASSUME NEW i
    PROVE  Token(i).kind \in Kinds
<1> DEFINE start == TokenStart(i)
           kind == TokenKind(start)
           at == <<start, TokenEnd(start)>>
           next == IF kind \in {"end", "unknown"} THEN start ELSE TokenEnd(start) + 1
<1>1. Token(i) = [kind |-> kind, at |-> at, next |-> next]
  BY Zenon DEF Token
<1>2. kind \in Kinds
  BY Zenon DEF TokenKind, Kinds
<1> HIDE DEF kind, at, next, start
<1> QED BY <1>1, <1>2

----------------------------------------------------------------------------
\* The search for a field: from a name to the value behind it.

FieldGoesOn(i, name) ==
    Token(i).kind = "op" \/ (Token(i).kind = "name" /\ Word(Token(i).at) # name)

\* The answer of a search that ends at i.
FieldIs(i) ==
    LET op    == Token(Token(i).next)
        value == Token(op.next)
    IN  IF Token(i).kind = "name" /\ op.kind = "op" /\ value.kind = "name" THEN Word(value.at) ELSE NotFound

FieldStep(f, i, name) == IF FieldGoesOn(i, name) THEN f[Token(i).next] ELSE FieldIs(i)

IsField(f, name) == f = [i \in 1 .. Len(text) + 1 |-> FieldStep(f, i, name)]

LEMMA FieldTurn ==
    ASSUME text \in Seq(Character), NEW i \in 1 .. Len(text) + 1, NEW name
    PROVE  FieldFrom(i, name) = IF FieldGoesOn(i, name) THEN FieldFrom(Token(i).next, name) ELSE FieldIs(i)
<1> DEFINE f == CHOOSE f : IsField(f, name)
           goes == {n \in 1 .. Len(text) : FieldGoesOn(n, name)}
           next == [n \in 1 .. Len(text) |-> Token(n).next]
           leaf == [n \in 1 .. Len(text) + 1 |-> FieldIs(n)]
<1>1. Len(text) \in Nat
  BY LengthIsNatural
<1>2. \A n \in 1 .. Len(text) + 1 : FieldGoesOn(n, name) => n \in 1 .. Len(text) /\ Token(n).next \in n + 1 .. Len(text) + 1
  <2> SUFFICES ASSUME NEW n \in 1 .. Len(text) + 1, FieldGoesOn(n, name)
               PROVE  n \in 1 .. Len(text) /\ Token(n).next \in n + 1 .. Len(text) + 1
    OBVIOUS
  <2>1. Token(n).kind \in {"separator", "op", "name"}
    BY Zenon DEF FieldGoesOn
  <2> QED BY Zenon, <2>1, TokenGoesOn
<1>3. \E g : IsField(g, name)
  <2>1. \A n \in goes : next[n] \in n + 1 .. Len(text) + 1 /\ next[n] = Token(n).next
    <3>1. \A n \in goes : n \in 1 .. Len(text) + 1 /\ n \in 1 .. Len(text) /\ FieldGoesOn(n, name)
      BY <1>1
    <3>2. \A n \in 1 .. Len(text) : next[n] = Token(n).next
      BY Zenon
    <3> HIDE DEF goes, next
    <3> QED BY Zenon, <1>2, <3>1, <3>2
  <2>2. goes \in SUBSET (1 .. Len(text))
    BY Zenon
  <2>3. \A n \in 1 .. Len(text) + 1 : (n \in goes <=> FieldGoesOn(n, name)) /\ leaf[n] = FieldIs(n)
    BY Zenon, <1>2
  <2> HIDE DEF goes, next, leaf
  <2>4. PICK g : IsSearch(g, goes, next, leaf, Len(text))
    BY Zenon, <1>1, <2>1, <2>2, SearchExists
  <2>5. \A n \in 1 .. Len(text) + 1 : (IF n \in goes THEN g[next[n]] ELSE leaf[n]) = FieldStep(g, n, name)
    BY Zenon, <2>1, <2>3 DEF FieldStep
  <2>6. g = [n \in 1 .. Len(text) + 1 |-> IF n \in goes THEN g[next[n]] ELSE leaf[n]]
    BY Zenon, <2>4 DEF Places, IsSearch
  <2>7. [n \in 1 .. Len(text) + 1 |-> IF n \in goes THEN g[next[n]] ELSE leaf[n]]
          = [n \in 1 .. Len(text) + 1 |-> FieldStep(g, n, name)]
    BY Zenon, <2>5
  <2>8. g = [n \in 1 .. Len(text) + 1 |-> FieldStep(g, n, name)]
    BY Zenon, <2>6, <2>7
  <2> QED BY Zenon, <2>8 DEF IsField
<1>4. IsField(f, name)
  BY Zenon, <1>3
<1>5. \A n : FieldFrom(n, name) = f[n]
  BY Zenon DEF FieldFrom, IsField, FieldStep, FieldGoesOn, FieldIs
<1> HIDE DEF f
<1>6. f[i] = FieldStep(f, i, name)
  <2> HIDE DEF IsField
  <2> DEFINE step(n) == FieldStep(f, n, name)
  <2>1. f = [n \in 1 .. Len(text) + 1 |-> step(n)]
    BY Zenon, <1>4 DEF IsField
  <2> HIDE DEF step
  <2>2. f[i] = step(i)
    BY Zenon, <2>1
  <2> QED BY Zenon, <2>2 DEF step
<1>7. CASE FieldGoesOn(i, name)
  BY Zenon, <1>5, <1>6, <1>7 DEF FieldStep
<1>8. CASE ~FieldGoesOn(i, name)
  BY Zenon, <1>5, <1>6, <1>8 DEF FieldStep
<1> QED BY Zenon, <1>7, <1>8

----------------------------------------------------------------------------
LEMMA FieldEnds ==
    ASSUME text \in Seq(Character), NEW i \in 1 .. Len(text) + 1, NEW name,
           Token(i).kind # "op", Token(i).kind # "name"
    PROVE  FieldFrom(i, name) = NotFound
<1>1. ~FieldGoesOn(i, name) /\ FieldIs(i) = NotFound
  BY Zenon DEF FieldGoesOn, FieldIs
<1>2. FieldFrom(i, name) = IF FieldGoesOn(i, name) THEN FieldFrom(Token(i).next, name) ELSE FieldIs(i)
  BY FieldTurn
<1> QED BY Zenon, <1>1, <1>2

----------------------------------------------------------------------------
\* The search for where the fields of a section begin.

FromGoesOn(i, section) ==
    /\ Token(i).kind \notin {"end", "unknown"}
    /\ \/ Token(i).kind # "separator" \/ Is(Token(i), "]")
       \/ ~(Token(Token(i).next).kind = "name" /\ Word(Token(Token(i).next).at) = section)

FromNext(i) ==
    IF Token(i).kind # "separator" \/ Is(Token(i), "]") THEN Token(i).next ELSE Token(Token(i).next).next

FromIs(i) == IF Token(i).kind \in {"end", "unknown"} THEN Unset ELSE Token(Token(i).next).next

FromStep(f, i, section) == IF FromGoesOn(i, section) THEN f[FromNext(i)] ELSE FromIs(i)

\* The same turn as FieldsFrom has it.
FromTurns(f, i, section) ==
    LET token == Token(i)
        name  == Token(token.next)
    IN  IF token.kind \in {"end", "unknown"} THEN Unset
        ELSE IF token.kind # "separator" \/ Is(token, "]") THEN f[token.next]
        ELSE IF name.kind = "name" /\ Word(name.at) = section THEN name.next
        ELSE f[name.next]

IsFrom(f, section) == f = [i \in 1 .. Len(text) + 1 |-> FromTurns(f, i, section)]

FromAt(section) == CHOOSE f : IsFrom(f, section)

LEMMA FromStepIs ==
    ASSUME NEW f, NEW i, NEW section
    PROVE  FromTurns(f, i, section) = FromStep(f, i, section)
<1>1. CASE Token(i).kind \in {"end", "unknown"}
  BY Zenon, <1>1 DEF FromTurns, FromStep, FromGoesOn, FromIs
<1>2. CASE Token(i).kind \notin {"end", "unknown"} /\ (Token(i).kind # "separator" \/ Is(Token(i), "]"))
  BY Zenon, <1>2 DEF FromTurns, FromStep, FromGoesOn, FromNext
<1>3. CASE /\ Token(i).kind \notin {"end", "unknown"} /\ ~(Token(i).kind # "separator" \/ Is(Token(i), "]"))
           /\ Token(Token(i).next).kind = "name" /\ Word(Token(Token(i).next).at) = section
  BY Zenon, <1>3 DEF FromTurns, FromStep, FromGoesOn, FromIs
<1>4. CASE /\ Token(i).kind \notin {"end", "unknown"} /\ ~(Token(i).kind # "separator" \/ Is(Token(i), "]"))
           /\ ~(Token(Token(i).next).kind = "name" /\ Word(Token(Token(i).next).at) = section)
  BY Zenon, <1>4 DEF FromTurns, FromStep, FromGoesOn, FromNext
<1> QED BY Zenon, <1>1, <1>2, <1>3, <1>4

LEMMA FromGoesFar ==
    ASSUME text \in Seq(Character), NEW i \in 1 .. Len(text) + 1, NEW section, FromGoesOn(i, section)
    PROVE  i \in 1 .. Len(text) /\ FromNext(i) \in i + 1 .. Len(text) + 1
<1>1. Len(text) \in Nat
  BY LengthIsNatural
<1>2. Token(i).kind \in {"separator", "op", "name"}
  BY TokenIsOfKind DEF FromGoesOn, Kinds
<1> DEFINE n == Token(i).next
           m == Token(n).next
<1>3. n \in i + 1 .. Len(text) + 1 /\ n \in 1 .. Len(text) + 1 /\ i \in 1 .. Len(text)
  BY Zenon, <1>2, TokenGoesOn
<1>4. FromNext(i) = n \/ FromNext(i) = m
  BY Zenon DEF FromNext
<1> HIDE DEF n
<1>5. m \in n .. Len(text) + 1
  BY Zenon, <1>3, NextIsPlace
<1> HIDE DEF m
<1>6. m \in i + 1 .. Len(text) + 1
  BY <1>1, <1>3, <1>5
<1> QED BY Zenon, <1>3, <1>4, <1>6

LEMMA FromTurn ==
    ASSUME text \in Seq(Character), NEW section
    PROVE  /\ \A i \in 1 .. Len(text) + 1 : FromAt(section)[i] = FromStep(FromAt(section), i, section)
           /\ FieldsFrom(section) = IF section = Global THEN 1 ELSE FromAt(section)[1]
<1> DEFINE f == FromAt(section)
           goes == {n \in 1 .. Len(text) : FromGoesOn(n, section)}
           next == [n \in 1 .. Len(text) |-> FromNext(n)]
           leaf == [n \in 1 .. Len(text) + 1 |-> FromIs(n)]
<1>1. Len(text) \in Nat
  BY LengthIsNatural
<1>2. \A n \in 1 .. Len(text) + 1 :
         FromGoesOn(n, section) => n \in 1 .. Len(text) /\ FromNext(n) \in n + 1 .. Len(text) + 1
  BY Zenon, FromGoesFar
<1>3. \E g : IsFrom(g, section)
  <2>1. \A n \in goes : next[n] \in n + 1 .. Len(text) + 1 /\ next[n] = FromNext(n)
    <3>1. \A n \in goes : n \in 1 .. Len(text) + 1 /\ n \in 1 .. Len(text) /\ FromGoesOn(n, section)
      BY <1>1
    <3>2. \A n \in 1 .. Len(text) : next[n] = FromNext(n)
      BY Zenon
    <3> HIDE DEF goes, next
    <3> QED BY Zenon, <1>2, <3>1, <3>2
  <2>2. goes \in SUBSET (1 .. Len(text))
    BY Zenon
  <2>3. \A n \in 1 .. Len(text) + 1 : (n \in goes <=> FromGoesOn(n, section)) /\ leaf[n] = FromIs(n)
    BY Zenon, <1>2
  <2> HIDE DEF goes, next, leaf
  <2>4. PICK g : IsSearch(g, goes, next, leaf, Len(text))
    BY Zenon, <1>1, <2>1, <2>2, SearchExists
  <2>5. \A n \in 1 .. Len(text) + 1 : (IF n \in goes THEN g[next[n]] ELSE leaf[n]) = FromStep(g, n, section)
    BY Zenon, <2>1, <2>3 DEF FromStep
  <2>6. \A n \in 1 .. Len(text) + 1 : FromTurns(g, n, section) = FromStep(g, n, section)
    BY FromStepIs
  <2>7. g = [n \in 1 .. Len(text) + 1 |-> IF n \in goes THEN g[next[n]] ELSE leaf[n]]
    BY Zenon, <2>4 DEF Places, IsSearch
  <2>8. [n \in 1 .. Len(text) + 1 |-> IF n \in goes THEN g[next[n]] ELSE leaf[n]]
          = [n \in 1 .. Len(text) + 1 |-> FromTurns(g, n, section)]
    BY Zenon, <2>5, <2>6
  <2>9. g = [n \in 1 .. Len(text) + 1 |-> FromTurns(g, n, section)]
    BY Zenon, <2>7, <2>8
  <2> QED BY Zenon, <2>9 DEF IsFrom
<1>4. IsFrom(f, section)
  BY Zenon, <1>3 DEF FromAt
<1>5. FieldsFrom(section) = IF section = Global THEN 1 ELSE f[1]
  BY Zenon DEF FieldsFrom, FromAt, IsFrom, FromTurns
<1> HIDE DEF f
<1>6. ASSUME NEW i \in 1 .. Len(text) + 1
      PROVE  f[i] = FromStep(f, i, section)
  <2> DEFINE turns(n) == FromTurns(f, n, section)
  <2>1. f = [n \in 1 .. Len(text) + 1 |-> turns(n)]
    BY Zenon, <1>4 DEF IsFrom
  <2> HIDE DEF turns
  <2>2. f[i] = turns(i)
    BY Zenon, <2>1
  <2>3. FromTurns(f, i, section) = FromStep(f, i, section)
    BY FromStepIs
  <2> QED BY Zenon, <2>2, <2>3 DEF turns
<1> QED BY Zenon, <1>5, <1>6 DEF f

----------------------------------------------------------------------------
\* What the searches do at a line.

\* A search that has come to i without having met the section, or with it, answers nothing.
NothingFrom(i, section, name) ==
    FromAt(section)[i] = Unset \/ FieldFrom(FromAt(section)[i], name) = NotFound

\* What becomes of the search at an entry at i, when the next line begins at j.
FieldTurnsTo(i, j, name) ==
    /\ Word(NameAssigned(i)) = name => FieldFrom(i, name) = Word(ValueAssigned(i))
    /\ Word(NameAssigned(i)) # name /\ Word(ValueAssigned(i)) = name /\ Token(j).kind # "op"
          => FieldFrom(i, name) = NotFound
    /\ Word(NameAssigned(i)) # name /\ Word(ValueAssigned(i)) # name
          => FieldFrom(i, name) = FieldFrom(j, name)

LEMMA SearchPassesEntry ==
    ASSUME text \in Seq(Character), NEW i \in 1 .. Len(text) + 1, NEW after, Assigns(i, after),
           NEW section, NEW name
    PROVE  \E j \in i + 1 .. Len(text) + 1 :
              /\ TokenStart(j) = after
              /\ NothingFrom(j, section, name) => NothingFrom(i, section, name)
              /\ FieldTurnsTo(i, j, name)
<1>1. Len(text) \in Nat
  BY LengthIsNatural
<1> DEFINE t == Token(i)
           o == Token(t.next)
           v == Token(o.next)
           k == v.next
<1>2. t.kind = "name" /\ o.kind = "op" /\ v.kind = "name" /\ TokenStart(k) = after
      /\ NameAssigned(i) = t.at /\ ValueAssigned(i) = v.at
  BY Zenon DEF Assigns, NameAssigned, ValueAssigned
<1>3. t.next \in i + 1 .. Len(text) + 1 /\ t.next \in 1 .. Len(text) + 1
  <2>1. Token(i).kind \in {"separator", "op", "name"}
    BY Zenon, <1>2
  <2> QED BY Zenon, <2>1, TokenGoesOn
<1>4. o.next \in t.next + 1 .. Len(text) + 1 /\ o.next \in 1 .. Len(text) + 1
  <2>1. Token(t.next).kind \in {"separator", "op", "name"}
    BY Zenon, <1>2
  <2> HIDE DEF t
  <2> QED BY Zenon, <1>3, <2>1, TokenGoesOn
<1>5. k \in o.next + 1 .. Len(text) + 1 /\ k \in 1 .. Len(text) + 1
  <2>1. Token(o.next).kind \in {"separator", "op", "name"}
    BY Zenon, <1>2
  <2> HIDE DEF o
  <2> QED BY Zenon, <1>4, <2>1, TokenGoesOn
<1>6. k \in i + 1 .. Len(text) + 1
  <2> HIDE DEF t, o, v
  <2> QED BY <1>1, <1>3, <1>4, <1>5
<1>7. \A n \in 1 .. Len(text) + 1 : Token(n).kind \in {"name", "op"} => FromAt(section)[n] = FromAt(section)[Token(n).next]
  <2> SUFFICES ASSUME NEW n \in 1 .. Len(text) + 1, Token(n).kind \in {"name", "op"}
               PROVE  FromAt(section)[n] = FromAt(section)[Token(n).next]
    OBVIOUS
  <2>1. Token(n).kind \notin {"end", "unknown"} /\ Token(n).kind # "separator"
    OBVIOUS
  <2>2. FromAt(section)[n] = FromStep(FromAt(section), n, section)
    BY Zenon, FromTurn
  <2> QED BY Zenon, <2>1, <2>2 DEF FromStep, FromGoesOn, FromNext
<1>8. FromAt(section)[i] = FromAt(section)[k]
  BY Zenon, <1>2, <1>3, <1>4, <1>7
<1>9. \A n \in 1 .. Len(text) + 1 :
         FieldFrom(n, name) = IF FieldGoesOn(n, name) THEN FieldFrom(Token(n).next, name) ELSE FieldIs(n)
  BY FieldTurn
<1>10. Word(t.at) = name => FieldFrom(i, name) = Word(v.at)
  <2> SUFFICES ASSUME Word(t.at) = name PROVE FieldFrom(i, name) = Word(v.at)
    OBVIOUS
  <2>1. ~FieldGoesOn(i, name)
    BY Zenon, <1>2 DEF FieldGoesOn
  <2>2. FieldIs(i) = Word(v.at)
    BY Zenon, <1>2 DEF FieldIs
  <2> QED BY Zenon, <1>9, <2>1, <2>2
<1>11. Word(t.at) # name => FieldFrom(i, name) = FieldFrom(o.next, name)
  <2> SUFFICES ASSUME Word(t.at) # name PROVE FieldFrom(i, name) = FieldFrom(o.next, name)
    OBVIOUS
  <2>1. FieldGoesOn(i, name) /\ FieldGoesOn(t.next, name)
    BY Zenon, <1>2 DEF FieldGoesOn
  <2>2. FieldFrom(i, name) = FieldFrom(t.next, name)
    BY Zenon, <1>9, <2>1
  <2>3. FieldFrom(t.next, name) = FieldFrom(o.next, name)
    BY Zenon, <1>3, <1>9, <2>1
  <2> QED BY Zenon, <2>2, <2>3
<1>12. Word(v.at) = name /\ Token(k).kind # "op" => FieldFrom(o.next, name) = NotFound
  <2> SUFFICES ASSUME Word(v.at) = name, Token(k).kind # "op" PROVE FieldFrom(o.next, name) = NotFound
    OBVIOUS
  <2>1. ~FieldGoesOn(o.next, name)
    BY Zenon, <1>2 DEF FieldGoesOn
  <2>2. FieldIs(o.next) = NotFound
    BY Zenon, <1>2 DEF FieldIs
  <2> QED BY Zenon, <1>4, <1>9, <2>1, <2>2
<1>13. Word(v.at) # name => FieldFrom(o.next, name) = FieldFrom(k, name)
  <2> SUFFICES ASSUME Word(v.at) # name PROVE FieldFrom(o.next, name) = FieldFrom(k, name)
    OBVIOUS
  <2>1. FieldGoesOn(o.next, name)
    BY Zenon, <1>2 DEF FieldGoesOn
  <2> QED BY Zenon, <1>4, <1>9, <2>1
<1>14. NothingFrom(k, section, name) => NothingFrom(i, section, name)
  BY Zenon, <1>8 DEF NothingFrom
<1> HIDE DEF t, o, v, k
<1>15. FieldTurnsTo(i, k, name)
  BY Zenon, <1>2, <1>10, <1>11, <1>12, <1>13 DEF FieldTurnsTo
<1> QED BY Zenon, <1>2, <1>6, <1>14, <1>15

LEMMA SearchPassesDeclaration ==
    ASSUME text \in Seq(Character), NEW i \in 1 .. Len(text) + 1, NEW after, Declares(i, after),
           NEW section, NEW name
    PROVE  /\ FieldFrom(i, name) = NotFound
           /\ \E j \in i + 1 .. Len(text) + 1 :
                 /\ TokenStart(j) = after
                 /\ NothingFrom(j, section, name) => NothingFrom(i, section, name)
<1>1. Len(text) \in Nat
  BY LengthIsNatural
<1> DEFINE t == Token(i)
           w == Token(t.next)
           s == Token(w.next)
           k == s.next
<1>2. t.kind = "separator" /\ OpenAt(t.at[1]) /\ w.kind = "name" /\ s.kind = "separator" /\ ShutAt(s.at[1])
      /\ TokenStart(k) = after
  BY Zenon DEF Declares
<1>3. t.next \in i + 1 .. Len(text) + 1 /\ t.next \in 1 .. Len(text) + 1
  <2>1. Token(i).kind \in {"separator", "op", "name"}
    BY Zenon, <1>2
  <2> QED BY Zenon, <2>1, TokenGoesOn
<1>4. w.next \in t.next + 1 .. Len(text) + 1 /\ w.next \in 1 .. Len(text) + 1
  <2>1. Token(t.next).kind \in {"separator", "op", "name"}
    BY Zenon, <1>2
  <2> HIDE DEF t
  <2> QED BY Zenon, <1>3, <2>1, TokenGoesOn
<1>5. k \in w.next + 1 .. Len(text) + 1 /\ k \in 1 .. Len(text) + 1
  <2>1. Token(w.next).kind \in {"separator", "op", "name"}
    BY Zenon, <1>2
  <2> HIDE DEF w
  <2> QED BY Zenon, <1>4, <2>1, TokenGoesOn
<1>6. k \in i + 1 .. Len(text) + 1
  <2> HIDE DEF t, w, s
  <2> QED BY <1>1, <1>3, <1>4, <1>5
<1>7. FieldFrom(i, name) = NotFound /\ FieldFrom(w.next, name) = NotFound
  <2>1. Token(i).kind # "op" /\ Token(i).kind # "name" /\ Token(w.next).kind # "op" /\ Token(w.next).kind # "name"
    BY Zenon, <1>2
  <2> HIDE DEF w
  <2> QED BY <1>4, <2>1, FieldEnds
<1>8. /\ FromAt(section)[i] = FromStep(FromAt(section), i, section)
      /\ FromAt(section)[w.next] = FromStep(FromAt(section), w.next, section)
  <2>1. \A n \in 1 .. Len(text) + 1 : FromAt(section)[n] = FromStep(FromAt(section), n, section)
    BY Zenon, FromTurn
  <2> QED BY Zenon, <1>4, <2>1
<1>9. ~Is(t, "]") /\ Is(s, "]")
  <2>1. ~ShutAt(t.at[1])
    BY Zenon, <1>2, CharactersApart
  <2> QED BY Zenon, <1>2, <2>1 DEF Is, ShutAt
<1>10. t.kind \notin {"end", "unknown"} /\ s.kind \notin {"end", "unknown"}
  BY Zenon, <1>2
<1>11. FromAt(section)[w.next] = FromAt(section)[k]
  BY Zenon, <1>8, <1>9, <1>10 DEF FromStep, FromGoesOn, FromNext
<1>12. FromAt(section)[i] = FromAt(section)[w.next] \/ FromAt(section)[i] = w.next
  <2>1. CASE Word(w.at) = section
    <3>1. ~FromGoesOn(i, section)
      BY Zenon, <1>2, <1>9, <2>1 DEF FromGoesOn
    <3>2. FromIs(i) = w.next
      BY Zenon, <1>10 DEF FromIs
    <3> QED BY Zenon, <1>8, <3>1, <3>2 DEF FromStep
  <2>2. CASE Word(w.at) # section
    <3>1. FromGoesOn(i, section)
      BY Zenon, <1>10, <2>2 DEF FromGoesOn
    <3>2. FromNext(i) = w.next
      BY Zenon, <1>2, <1>9 DEF FromNext
    <3> QED BY Zenon, <1>8, <3>1, <3>2 DEF FromStep
  <2> QED BY Zenon, <2>1, <2>2
<1> HIDE DEF t, w, s
<1>13. NothingFrom(k, section, name) => NothingFrom(i, section, name)
  BY Zenon, <1>7, <1>11, <1>12 DEF NothingFrom
<1> HIDE DEF k
<1> QED BY Zenon, <1>2, <1>6, <1>7, <1>13

----------------------------------------------------------------------------
\* What the search in the text itself finds in a text of regular lines.

LEMMA MinIs ==
    ASSUME NEW S, S \subseteq Int, NEW m \in S, \A x \in S : m <= x
    PROVE  Min(S) = m
<1>1. \E x \in S : \A y \in S : x <= y
  BY Zenon
<1>2. Min(S) \in S /\ \A y \in S : Min(S) <= y
  BY Zenon, <1>1 DEF Min
<1>3. Min(S) <= m /\ m <= Min(S) /\ Min(S) \in Int /\ m \in Int
  BY Zenon, <1>2
<1> QED BY <1>3

LEMMA MaxIs ==
    ASSUME NEW S, S \subseteq Int, NEW m \in S, \A x \in S : m >= x
    PROVE  Max(S) = m
<1>1. \E x \in S : \A y \in S : x >= y
  BY Zenon
<1>2. Max(S) \in S /\ \A y \in S : Max(S) >= y
  BY Zenon, <1>1 DEF Max
<1>3. Max(S) >= m /\ m >= Max(S) /\ Max(S) \in Int /\ m \in Int
  BY Zenon, <1>2
<1> QED BY <1>3

LEMMA WithSectionAt ==
    ASSUME NEW s, Told(s), NEW name
    PROVE  /\ Told(WithSection(s, name))
           /\ Len(WithSection(s, name)) # 1
           /\ WithSection(s, name)[1] = s[1]
<1>1. IsList(s) /\ Len(s) \in Nat \ {0}
  BY ToldAt
<1> DEFINE e == [name |-> name, fields |-> << >>]
           t == Append(s, e)
<1> HIDE DEF e
<1>2. Len(t) = Len(s) + 1 /\ \A n \in 1 .. Len(s) : t[n] = s[n]
  BY <1>1, OneAppended
<1> HIDE DEF t
<1>3. Len(t) # 1 /\ t[1] = s[1]
  BY <1>1, <1>2
<1>4. Told(WithSection(s, name))
  BY Zenon, SectionIsTold
<1> QED BY Zenon, <1>3, <1>4 DEF WithSection, t, e

LEMMA WithEntryAt ==
    ASSUME NEW s, Told(s), NEW name, NEW value, NEW t, t = WithEntry(s, name, value)
    PROVE  /\ Told(t) /\ Len(t) = Len(s)
           /\ Len(s) # 1 => t[1] = s[1]
           /\ Len(s) = 1 =>
                 /\ Len(t[1].fields) = Len(s[1].fields) + 1
                 /\ \A n \in 1 .. Len(s[1].fields) : t[1].fields[n] = s[1].fields[n]
                 /\ t[1].fields[Len(s[1].fields) + 1] = [name |-> name, value |-> value]
<1> DEFINE field == [name |-> name, value |-> value]
           f == Append(Last(s).fields, field)
           e == [name |-> Last(s).name, fields |-> f]
<1>1. IsList(s) /\ Len(s) \in Nat \ {0} /\ s # << >>
  BY ToldAt
<1>2. t = Append(Front(s), e)
  BY Zenon DEF WithEntry
<1>3. e.fields = f
  OBVIOUS
<1>4. Told(t)
  BY Zenon, EntryIsTold
<1> HIDE DEF e
<1>5. Len(t) = Len(s) /\ (\A n \in 1 .. Len(s) - 1 : t[n] = s[n]) /\ t[Len(s)] = e
  BY <1>1, <1>2, LastReplacedBy
<1>6. Len(s) # 1 => t[1] = s[1]
  <2>1. \A k \in Nat \ {0} : k # 1 => 1 \in 1 .. k - 1
    OBVIOUS
  <2>2. Len(s) # 1 => 1 \in 1 .. Len(s) - 1
    BY Zenon, <1>1, <2>1
  <2> QED BY Zenon, <1>5, <2>2
<1>7. ASSUME Len(s) = 1
      PROVE  /\ Len(t[1].fields) = Len(s[1].fields) + 1
             /\ \A n \in 1 .. Len(s[1].fields) : t[1].fields[n] = s[1].fields[n]
             /\ t[1].fields[Len(s[1].fields) + 1] = field
  <2> DEFINE g == s[1].fields
  <2>1. IsList(g)
    <3>1. 1 \in 1 .. Len(s)
      BY <1>7
    <3>2. \A n \in 1 .. Len(s) : IsList(s[n].fields)
      BY ToldAt
    <3> QED BY Zenon, <3>1, <3>2
  <2>2. t[1].fields = Append(g, field)
    BY Zenon, <1>3, <1>5, <1>7 DEF Last
  <2> HIDE DEF g, field
  <2>3. /\ Len(Append(g, field)) = Len(g) + 1
        /\ \A n \in 1 .. Len(g) : Append(g, field)[n] = g[n]
        /\ Append(g, field)[Len(g) + 1] = field
    BY <2>1, OneAppended
  <2> QED BY Zenon, <2>2, <2>3 DEF g
<1> HIDE DEF field
<1> QED BY Zenon, <1>4, <1>5, <1>6, <1>7 DEF field

LEMMA EntryInFirst ==
    ASSUME NEW s, Told(s), Len(s) = 1, NEW name, NEW value, NEW t, t = WithEntry(s, name, value),
           NEW f, f = s[1].fields, NEW g, g = t[1].fields, NEW e, e = [name |-> name, value |-> value]
    PROVE  /\ Len(g) = Len(f) + 1
           /\ \A n \in 1 .. Len(f) : g[n] = f[n]
           /\ g[Len(f) + 1] = e
<1>1. Len(t[1].fields) = Len(s[1].fields) + 1
  BY WithEntryAt
<1>2. \A n \in 1 .. Len(s[1].fields) : t[1].fields[n] = s[1].fields[n]
  BY WithEntryAt
<1>3. t[1].fields[Len(s[1].fields) + 1] = [name |-> name, value |-> value]
  BY WithEntryAt
<1> QED BY <1>1, <1>2, <1>3

----------------------------------------------------------------------------
\* From where a line begins, the search for a field of a section has nothing to answer: behind the
\* name of a section is its bracket, where the search for the field ends.
LEMMA SectionHasNothing ==
    ASSUME text \in Seq(Character), Lines.regular, NEW section, NEW name,
           NEW i \in 1 .. Len(text) + 1, NEW said, Told(said), Reached(said, TokenStart(i))
    PROVE  NothingFrom(i, section, name)
<1> DEFINE S == {n \in 1 .. Len(text) + 1 :
                    \A s : Told(s) /\ Reached(s, TokenStart(n)) => NothingFrom(n, section, name)}
<1>1. Len(text) \in Nat
  BY LengthIsNatural
<1>2. ASSUME NEW n \in 1 .. Len(text) + 1, \A j \in n + 1 .. Len(text) + 1 : j \in S
      PROVE  n \in S
  <2> SUFFICES ASSUME NEW s, Told(s), Reached(s, TokenStart(n)) PROVE NothingFrom(n, section, name)
    BY Zenon
  <2>1. \A j \in n + 1 .. Len(text) + 1 : \A all : Told(all) /\ Reached(all, TokenStart(j)) => NothingFrom(j, section, name)
    BY Zenon, <1>2
  <2> HIDE DEF S
  <2>2. CASE Token(n).kind = "end"
    <3>1. FromAt(section)[n] = FromStep(FromAt(section), n, section)
      BY Zenon, FromTurn
    <3>2. Token(n).kind \in {"end", "unknown"}
      BY Zenon, <2>2
    <3> QED BY Zenon, <3>1, <3>2 DEF FromStep, FromGoesOn, FromIs, NothingFrom
  <2>3. CASE \E after : Declares(n, after) /\ Reached(WithSection(s, Word(NameDeclared(n))), after)
    <3>1. PICK after : Declares(n, after) /\ Reached(WithSection(s, Word(NameDeclared(n))), after)
      BY Zenon, <2>3
    <3>2. PICK j \in n + 1 .. Len(text) + 1 :
             TokenStart(j) = after /\ (NothingFrom(j, section, name) => NothingFrom(n, section, name))
      BY Zenon, <3>1, SearchPassesDeclaration
    <3>3. Told(WithSection(s, Word(NameDeclared(n))))
      BY Zenon, SectionIsTold
    <3>4. NothingFrom(j, section, name)
      BY Zenon, <2>1, <3>1, <3>2, <3>3
    <3> QED BY Zenon, <3>2, <3>4
  <2>4. CASE \E after : /\ Assigns(n, after)
                        /\ Reached(WithEntry(s, Word(NameAssigned(n)), Word(ValueAssigned(n))), after)
    <3>1. PICK after : /\ Assigns(n, after)
                       /\ Reached(WithEntry(s, Word(NameAssigned(n)), Word(ValueAssigned(n))), after)
      BY Zenon, <2>4
    <3>2. PICK j \in n + 1 .. Len(text) + 1 :
             TokenStart(j) = after /\ (NothingFrom(j, section, name) => NothingFrom(n, section, name))
      BY Zenon, <3>1, SearchPassesEntry
    <3>3. Told(WithEntry(s, Word(NameAssigned(n)), Word(ValueAssigned(n))))
      BY Zenon, EntryIsTold
    <3>4. NothingFrom(j, section, name)
      BY Zenon, <2>1, <3>1, <3>2, <3>3
    <3> QED BY Zenon, <3>2, <3>4
  <2>5. ~Stuck(s)
    BY Zenon DEF Stuck
  <2> QED BY Zenon, <2>2, <2>3, <2>4, <2>5, AheadKinds
<1> HIDE DEF S
<1>3. i \in S
  BY <1>1, <1>2, FromTheEnd
<1> QED BY Zenon, <1>3 DEF S

----------------------------------------------------------------------------
\* What the entries of the global section behind the first k have for a name.
GlobalFields == Lines.sections[1].fields

MetBehind(k, name) ==
    {n \in DOMAIN GlobalFields : n > k /\ name \in {GlobalFields[n].name, GlobalFields[n].value}}

FoundBehind(k, name) ==
    IF MetBehind(k, name) # {} /\ GlobalFields[Min(MetBehind(k, name))].name = name
    THEN GlobalFields[Min(MetBehind(k, name))].value ELSE NotFound

\* From the line at i on, behind which said has been read, the search finds what is behind the
\* entries read so far; behind the first declaration the global section is complete.
GlobalIs(said, i, name) ==
    /\ Len(said) # 1 => Lines.sections[1] = said[1]
    /\ Len(said) = 1 => /\ Starts(said[1].fields, GlobalFields)
                        /\ FieldFrom(i, name) = FoundBehind(Len(said[1].fields), name)

LEMMA GlobalIsList ==
    ASSUME text \in Seq(Character)
    PROVE  IsList(GlobalFields) /\ Len(GlobalFields) \in Nat /\ DOMAIN GlobalFields = 1 .. Len(GlobalFields)
<1>1. 1 \in 1 .. Len(Lines.sections) /\ \A n \in 1 .. Len(Lines.sections) : IsList(Lines.sections[n].fields)
  <2> DEFINE s == Lines.sections
  <2>1. Told(s)
    BY Zenon, LinesAreTold
  <2> HIDE DEF s
  <2>2. Len(s) \in Nat \ {0} /\ \A n \in 1 .. Len(s) : IsList(s[n].fields)
    BY <2>1, ToldAt
  <2>3. 1 \in 1 .. Len(s)
    BY <2>2
  <2> QED BY Zenon, <2>2, <2>3 DEF s
<1>2. IsList(GlobalFields)
  BY Zenon, <1>1 DEF GlobalFields
<1> HIDE DEF GlobalFields
<1> QED BY <1>2, LenOfList

LEMMA NothingBehindAll ==
    ASSUME text \in Seq(Character), NEW name
    PROVE  /\ Starts(GlobalFields, GlobalFields)
           /\ FoundBehind(Len(GlobalFields), name) = NotFound
<1>1. Len(GlobalFields) \in Nat /\ DOMAIN GlobalFields = 1 .. Len(GlobalFields)
  BY Zenon, GlobalIsList
<1> HIDE DEF GlobalFields
<1>2. Starts(GlobalFields, GlobalFields)
  BY <1>1 DEF Starts
<1>3. MetBehind(Len(GlobalFields), name) = {}
  BY <1>1 DEF MetBehind
<1> QED BY Zenon, <1>2, <1>3 DEF FoundBehind

\* What the entry behind the first k changes.
LEMMA FoundAtNext ==
    ASSUME text \in Seq(Character), NEW k \in Nat, k + 1 <= Len(GlobalFields), NEW name
    PROVE  LET entry == GlobalFields[k + 1] IN
           /\ entry.name = name => FoundBehind(k, name) = entry.value
           /\ entry.name # name /\ entry.value = name => FoundBehind(k, name) = NotFound
           /\ entry.name # name /\ entry.value # name => FoundBehind(k, name) = FoundBehind(k + 1, name)
<1> DEFINE entry == GlobalFields[k + 1]
           met == MetBehind(k, name)
<1>1. Len(GlobalFields) \in Nat /\ DOMAIN GlobalFields = 1 .. Len(GlobalFields)
  BY Zenon, GlobalIsList
<1> HIDE DEF GlobalFields
<1>2. k + 1 \in DOMAIN GlobalFields
  BY <1>1
<1>3. met \subseteq Int /\ \A x \in met : k + 1 <= x
  BY <1>1 DEF MetBehind
<1>4. ASSUME entry.name = name \/ entry.value = name
      PROVE  met # {} /\ Min(met) = k + 1
  <2>1. k + 1 \in met
    <3>1. k + 1 > k
      OBVIOUS
    <3> QED BY Zenon, <1>2, <1>4, <3>1 DEF MetBehind
  <2> HIDE DEF met
  <2>2. Min(met) = k + 1
    BY <1>3, <2>1, MinIs
  <2> QED BY Zenon, <2>1, <2>2
<1>5. ASSUME entry.name # name, entry.value # name
      PROVE  met = MetBehind(k + 1, name)
  <2>1. name \notin {GlobalFields[k + 1].name, GlobalFields[k + 1].value}
    BY Zenon, <1>5
  <2>2. \A n \in DOMAIN GlobalFields :
           /\ n > k + 1 => n > k
           /\ n > k => n > k + 1 \/ n = k + 1
    BY <1>1
  <2> QED BY Zenon, <2>1, <2>2 DEF MetBehind
<1>6. ASSUME entry.name = name PROVE FoundBehind(k, name) = entry.value
  BY Zenon, <1>4, <1>6 DEF FoundBehind
<1>7. ASSUME entry.name # name, entry.value = name PROVE FoundBehind(k, name) = NotFound
  BY Zenon, <1>4, <1>7 DEF FoundBehind
<1>8. ASSUME entry.name # name, entry.value # name PROVE FoundBehind(k, name) = FoundBehind(k + 1, name)
  BY Zenon, <1>5, <1>8 DEF FoundBehind
<1> QED BY Zenon, <1>6, <1>7, <1>8

----------------------------------------------------------------------------
\* GlobalIs holds where a line begins if it holds where the next one does.
LEMMA GlobalIsAtEntry ==
    ASSUME text \in Seq(Character), NEW said, Told(said), NEW a, NEW b,
           NEW i, NEW j, NEW name,
           GlobalIs(WithEntry(said, a, b), j, name),
           a = name => FieldFrom(i, name) = b,
           a # name /\ b = name => FieldFrom(i, name) = NotFound,
           a # name /\ b # name => FieldFrom(i, name) = FieldFrom(j, name)
    PROVE  GlobalIs(said, i, name)
<1> DEFINE t == WithEntry(said, a, b)
           f == said[1].fields
           g == t[1].fields
           e == [name |-> a, value |-> b]
           F == GlobalFields
<1>1. /\ Len(t) = Len(said)
      /\ Len(said) # 1 => t[1] = said[1]
      /\ Len(said) = 1 =>
            /\ Len(g) = Len(f) + 1
            /\ \A n \in 1 .. Len(f) : g[n] = f[n]
            /\ g[Len(f) + 1] = e
  <2>1. t = WithEntry(said, a, b) /\ f = said[1].fields /\ g = t[1].fields /\ e = [name |-> a, value |-> b]
    OBVIOUS
  <2> HIDE DEF t, f, g, e
  <2>2. Len(t) = Len(said) /\ (Len(said) # 1 => t[1] = said[1])
    BY <2>1, WithEntryAt
  <2>3. Len(said) = 1 => /\ Len(g) = Len(f) + 1
                         /\ \A n \in 1 .. Len(f) : g[n] = f[n]
                         /\ g[Len(f) + 1] = e
    BY <2>1, EntryInFirst
  <2> QED BY Zenon, <2>2, <2>3
<1>2. GlobalIs(t, j, name)
  OBVIOUS
<1>3. e.name = a /\ e.value = b
  OBVIOUS
<1> HIDE DEF e, t
<1>4. CASE Len(said) # 1
  BY Zenon, <1>1, <1>2, <1>4 DEF GlobalIs
<1>5. CASE Len(said) = 1
  <2>1. Len(f) \in Nat
    <3>1. 1 \in 1 .. Len(said)
      BY <1>5
    <3>2. IsList(f)
      BY Zenon, <3>1, ToldAt
    <3> QED BY Zenon, <3>2, LenOfList
  <2>2. Starts(g, F) /\ FieldFrom(j, name) = FoundBehind(Len(g), name)
    BY Zenon, <1>1, <1>2, <1>5 DEF GlobalIs
  <2>3. /\ Len(g) = Len(f) + 1
        /\ \A n \in 1 .. Len(f) : g[n] = f[n]
        /\ g[Len(f) + 1] = e
    BY Zenon, <1>1, <1>5
  <2>4. Len(F) \in Nat
    BY Zenon, GlobalIsList
  <2> HIDE DEF f, g, F
  <2>5. Starts(f, F) /\ F[Len(f) + 1] = e /\ Len(f) + 1 <= Len(F)
    BY <2>1, <2>2, <2>3, <2>4 DEF Starts
  <2>6. /\ e.name = name => FoundBehind(Len(f), name) = e.value
        /\ e.name # name /\ e.value = name => FoundBehind(Len(f), name) = NotFound
        /\ e.name # name /\ e.value # name => FoundBehind(Len(f), name) = FoundBehind(Len(f) + 1, name)
    <3> DEFINE entry == F[Len(f) + 1]
    <3>1. /\ entry.name = name => FoundBehind(Len(f), name) = entry.value
          /\ entry.name # name /\ entry.value = name => FoundBehind(Len(f), name) = NotFound
          /\ entry.name # name /\ entry.value # name => FoundBehind(Len(f), name) = FoundBehind(Len(f) + 1, name)
      <4>1. Len(f) + 1 <= Len(GlobalFields)
        BY Zenon, <2>5 DEF F
      <4> DEFINE there == GlobalFields[Len(f) + 1]
      <4>2. there.name = name => FoundBehind(Len(f), name) = there.value
        BY <2>1, <4>1, FoundAtNext
      <4>3. there.name # name /\ there.value = name => FoundBehind(Len(f), name) = NotFound
        BY <2>1, <4>1, FoundAtNext
      <4>4. there.name # name /\ there.value # name => FoundBehind(Len(f), name) = FoundBehind(Len(f) + 1, name)
        BY <2>1, <4>1, FoundAtNext
      <4> QED BY Zenon, <4>2, <4>3, <4>4 DEF F
    <3> QED BY Zenon, <2>5, <3>1
  <2>7. FieldFrom(i, name) = FoundBehind(Len(f), name)
    <3>1. CASE a = name
      BY Zenon, <1>3, <2>6, <3>1
    <3>2. CASE a # name /\ b = name
      BY <1>3, <2>6, <3>2
    <3>3. CASE a # name /\ b # name
      BY Zenon, <1>3, <2>2, <2>3, <2>6, <3>3
    <3> QED BY Zenon, <3>1, <3>2, <3>3
  <2> QED BY Zenon, <1>5, <2>5, <2>7 DEF GlobalIs, f, F
<1> QED BY Zenon, <1>4, <1>5

LEMMA GlobalIsAtDeclaration ==
    ASSUME text \in Seq(Character), NEW said, Told(said), NEW w,
           NEW i, NEW j, NEW name,
           GlobalIs(WithSection(said, w), j, name), FieldFrom(i, name) = NotFound
    PROVE  GlobalIs(said, i, name)
<1>1. Len(WithSection(said, w)) # 1 /\ WithSection(said, w)[1] = said[1]
  BY WithSectionAt
<1>2. Lines.sections[1] = said[1]
  BY Zenon, <1>1 DEF GlobalIs
<1>3. GlobalFields = said[1].fields
  BY Zenon, <1>2 DEF GlobalFields
<1>4. Starts(said[1].fields, GlobalFields) /\ FieldFrom(i, name) = FoundBehind(Len(said[1].fields), name)
  <2>1. Starts(GlobalFields, GlobalFields)
    BY NothingBehindAll
  <2>2. FoundBehind(Len(GlobalFields), name) = NotFound
    BY NothingBehindAll
  <2> QED BY Zenon, <1>3, <2>1, <2>2
<1> QED BY Zenon, <1>2, <1>4 DEF GlobalIs

LEMMA GlobalIsAtEnd ==
    ASSUME text \in Seq(Character), NEW said, said = Lines.sections,
           NEW i, NEW name, FieldFrom(i, name) = NotFound
    PROVE  GlobalIs(said, i, name)
<1>1. GlobalFields = said[1].fields /\ Lines.sections[1] = said[1]
  BY Zenon DEF GlobalFields
<1>2. Starts(said[1].fields, GlobalFields) /\ FieldFrom(i, name) = FoundBehind(Len(said[1].fields), name)
  <2>1. Starts(GlobalFields, GlobalFields)
    BY NothingBehindAll
  <2>2. FoundBehind(Len(GlobalFields), name) = NotFound
    BY NothingBehindAll
  <2> QED BY Zenon, <1>1, <2>1, <2>2
<1> QED BY Zenon, <1>1, <1>2 DEF GlobalIs

LEMMA GlobalIsFound ==
    ASSUME text \in Seq(Character), Lines.regular, NEW name,
           NEW i \in 1 .. Len(text) + 1, NEW said, Told(said), Reached(said, TokenStart(i))
    PROVE  GlobalIs(said, i, name)
<1> DEFINE S == {n \in 1 .. Len(text) + 1 :
                    \A s : Told(s) /\ Reached(s, TokenStart(n)) => GlobalIs(s, n, name)}
<1>1. Len(text) \in Nat
  BY LengthIsNatural
<1>2. ASSUME NEW n \in 1 .. Len(text) + 1, \A j \in n + 1 .. Len(text) + 1 : j \in S
      PROVE  n \in S
  <2> SUFFICES ASSUME NEW s, Told(s), Reached(s, TokenStart(n)) PROVE GlobalIs(s, n, name)
    BY Zenon
  <2>1. \A j \in n + 1 .. Len(text) + 1 : \A all : Told(all) /\ Reached(all, TokenStart(j)) => GlobalIs(all, j, name)
    BY Zenon, <1>2
  <2> HIDE DEF S
  <2>2. CASE Token(n).kind = "end" /\ Lines.sections = s
    <3>1. Token(n).kind # "op" /\ Token(n).kind # "name"
      BY Zenon, <2>2
    <3>2. FieldFrom(n, name) = NotFound
      BY <3>1, FieldEnds
    <3> QED BY Zenon, <2>2, <3>2, GlobalIsAtEnd
  <2>3. CASE \E after : Declares(n, after) /\ Reached(WithSection(s, Word(NameDeclared(n))), after)
    <3>1. PICK after : Declares(n, after) /\ Reached(WithSection(s, Word(NameDeclared(n))), after)
      BY Zenon, <2>3
    <3>2. PICK j \in n + 1 .. Len(text) + 1 : TokenStart(j) = after
      BY Zenon, <3>1, SearchPassesDeclaration
    <3>3. Told(WithSection(s, Word(NameDeclared(n))))
      BY Zenon, SectionIsTold
    <3>4. GlobalIs(WithSection(s, Word(NameDeclared(n))), j, name)
      BY Zenon, <2>1, <3>1, <3>2, <3>3
    <3>5. FieldFrom(n, name) = NotFound
      BY <3>1, SearchPassesDeclaration
    <3> QED BY Zenon, <3>4, <3>5, GlobalIsAtDeclaration
  <2>4. CASE \E after : /\ Assigns(n, after)
                        /\ Reached(WithEntry(s, Word(NameAssigned(n)), Word(ValueAssigned(n))), after)
    <3> DEFINE a == Word(NameAssigned(n))
               b == Word(ValueAssigned(n))
    <3>1. PICK after : Assigns(n, after) /\ Reached(WithEntry(s, a, b), after)
      BY Zenon, <2>4
    <3>2. PICK j \in n + 1 .. Len(text) + 1 : TokenStart(j) = after /\ FieldTurnsTo(n, j, name)
      BY Zenon, <3>1, SearchPassesEntry
    <3>6. /\ a = name => FieldFrom(n, name) = b
          /\ a # name /\ b = name /\ Token(j).kind # "op" => FieldFrom(n, name) = NotFound
          /\ a # name /\ b # name => FieldFrom(n, name) = FieldFrom(j, name)
      BY Zenon, <3>2 DEF FieldTurnsTo
    <3> HIDE DEF a, b
    <3>3. Told(WithEntry(s, a, b)) /\ Reached(WithEntry(s, a, b), TokenStart(j))
      BY Zenon, <3>1, <3>2, EntryIsTold
    <3>4. GlobalIs(WithEntry(s, a, b), j, name)
      BY Zenon, <2>1, <3>3
    <3>5. Token(j).kind # "op"
      <4>1. j \in 1 .. Len(text) + 1
        BY <1>1
      <4>2. ~Stuck(WithEntry(s, a, b))
        BY Zenon DEF Stuck
      <4>3. Token(j).kind \in {"end", "separator", "name"}
        BY Zenon, <3>3, <4>1, <4>2, AheadKinds
      <4> QED BY <4>3
    <3> QED BY Zenon, <3>4, <3>5, <3>6, GlobalIsAtEntry
  <2>5. ~Stuck(s)
    BY Zenon DEF Stuck
  <2> QED BY Zenon, <2>2, <2>3, <2>4, <2>5, AheadKinds
<1> HIDE DEF S
<1>3. i \in S
  BY <1>1, <1>2, FromTheEnd
<1> QED BY Zenon, <1>3 DEF S

----------------------------------------------------------------------------
\* What a lookup should answer.

FieldTold(section, name) ==
    LET met == {n \in DOMAIN GlobalFields : name \in {GlobalFields[n].name, GlobalFields[n].value}} IN
    IF section = Global /\ met # {} /\ GlobalFields[Min(met)].name = name
    THEN GlobalFields[Min(met)].value ELSE NotFound

\* What GetField answers.
FieldAnswer(section, name) ==
    IF FieldsFrom(section) = Unset THEN NotFound ELSE FieldFrom(FieldsFrom(section), name)

LEMMA FieldIsTold ==
    ASSUME text \in Seq(Character), Lines.regular, NEW section, NEW name
    PROVE  FieldAnswer(section, name) = FieldTold(section, name)
<1> DEFINE said == Nothing.sections
<1>1. Len(text) \in Nat /\ 1 \in 1 .. Len(text) + 1
  BY LengthIsNatural
<1>2. Told(said) /\ Reached(said, TokenStart(1))
  <2>1. 0 \in 0 .. Len(text) + 1
    BY <1>1
  <2>2. Reading[0] = Nothing
    BY Zenon, <1>1, ReadingGoesOn
  <2>3. StartFrom(1) = TokenStart(1)
    BY Zenon, <1>1, StartFromIs
  <2> QED BY Zenon, <2>1, <2>2, <2>3, NothingIsReport DEF Reached, IsReport
<1>3. FieldsFrom(section) = IF section = Global THEN 1 ELSE FromAt(section)[1]
  BY FromTurn
<1>4. CASE section # Global
  <2>1. NothingFrom(1, section, name)
    BY Zenon, <1>1, <1>2, SectionHasNothing
  <2>2. FieldTold(section, name) = NotFound
    BY Zenon, <1>4 DEF FieldTold
  <2> QED BY Zenon, <1>3, <1>4, <2>1, <2>2 DEF FieldAnswer, NothingFrom
<1>5. CASE section = Global
  <2>1. GlobalIs(said, 1, name)
    BY Zenon, <1>1, <1>2, GlobalIsFound
  <2>2. Len(said) = 1 /\ Len(said[1].fields) = 0
    <3> DEFINE e == [name |-> << >>, fields |-> << >>]
    <3>1. said = <<e>>
      <4>1. Nothing = [from |-> 1, regular |-> TRUE, sections |-> <<e>>]
        BY Zenon DEF Nothing
      <4> HIDE DEF e
      <4> QED BY <4>1
    <3>2. e.fields = << >>
      OBVIOUS
    <3> HIDE DEF e, said
    <3>3. said[1] = e /\ Len(said) = 1
      BY <3>1
    <3> QED BY Zenon, <3>2, <3>3, EmptyIsList
  <2>3. FieldFrom(1, name) = FoundBehind(0, name)
    BY Zenon, <2>1, <2>2 DEF GlobalIs
  <2>4. MetBehind(0, name) = {n \in DOMAIN GlobalFields : name \in {GlobalFields[n].name, GlobalFields[n].value}}
    <3>1. DOMAIN GlobalFields = 1 .. Len(GlobalFields) /\ Len(GlobalFields) \in Nat
      BY Zenon, GlobalIsList
    <3>2. \A n \in DOMAIN GlobalFields : n > 0
      <4> HIDE DEF GlobalFields
      <4> QED BY <3>1
    <3> QED BY Zenon, <3>2 DEF MetBehind
  <2>5. FoundBehind(0, name) = FieldTold(section, name)
    BY Zenon, <1>5, <2>4 DEF FoundBehind, FieldTold
  <2>6. FieldsFrom(section) = 1 /\ 1 # Unset
    <3>1. 1 # Unset
      BY DEF Unset
    <3> QED BY Zenon, <1>3, <1>5, <3>1
  <2> QED BY Zenon, <2>3, <2>5, <2>6 DEF FieldAnswer
<1> QED BY Zenon, <1>4, <1>5

----------------------------------------------------------------------------
(***************************************************************************)
(* What a lookup in the result answers.                                    *)
(***************************************************************************)
LEMMA MinIn ==
    ASSUME NEW S, S \subseteq Nat, S # {}
    PROVE  Min(S) \in S /\ \A x \in S : Min(S) <= x
<1>1. \E x \in S : \A y \in S : x <= y
  BY LeastNumber
<1> QED BY Zenon, <1>1 DEF Min

\* A result has its sections in the order opposite to that of the text.
LEMMA LastIsFirst ==
    ASSUME NEW k \in Nat, NEW F, F \subseteq 1 .. k, NEW G, G \subseteq 2 .. k + 1,
           \A n \in 1 .. k : n \in F <=> k + 2 - n \in G
    PROVE  /\ F = {} => G = {}
           /\ F # {} => /\ Min(F) \in F /\ G # {}
                        /\ Max(G) = k + 2 - Min(F)
<1>1. F = {} => G = {}
  <2>1. \A m \in 2 .. k + 1 : k + 2 - m \in 1 .. k /\ k + 2 - (k + 2 - m) = m
    OBVIOUS
  <2> QED BY <2>1
<1>2. ASSUME F # {}
      PROVE  Min(F) \in F /\ G # {} /\ Max(G) = k + 2 - Min(F)
  <2>1. F \subseteq Nat
    OBVIOUS
  <2>2. Min(F) \in F /\ \A x \in F : Min(F) <= x
    BY <1>2, <2>1, MinIn
  <2> DEFINE m == Min(F)
  <2> HIDE DEF m
  <2>3. m \in F /\ \A x \in F : m <= x
    BY Zenon, <2>2 DEF m
  <2>4. k + 2 - m \in G
    BY <2>3
  <2>5. \A x \in G : k + 2 - m >= x
    <3> SUFFICES ASSUME NEW x \in G PROVE k + 2 - m >= x
      OBVIOUS
    <3>1. k + 2 - x \in 1 .. k /\ k + 2 - (k + 2 - x) = x
      OBVIOUS
    <3>2. k + 2 - x \in F
      BY Zenon, <3>1
    <3> QED BY <2>3, <3>2
  <2>6. G \subseteq Int
    OBVIOUS
  <2>7. Max(G) = k + 2 - m
    BY <2>4, <2>5, <2>6, MaxIs
  <2> QED BY <2>2, <2>4, <2>7 DEF m
<1> QED BY Zenon, <1>1, <1>2

LEMMA ValueInIs ==
    ASSUME NEW sect, Owned(sect), NEW f, f = Fields(sect.fields), NEW name
    PROVE  ValueIn(sect, name) = ValueOf(f, name)
<1> DEFINE g == sect.fields
           found == {n \in DOMAIN g : Word(g[n].name) = name}
           of == {n \in DOMAIN f : f[n].name = name}
<1>1. IsList(g)
  BY Zenon DEF Owned
<1> HIDE DEF g
<1>2. DOMAIN g = 1 .. Len(g) /\ Len(g) \in Nat
  BY Zenon, <1>1, LenOfList
<1> DEFINE e(n) == [name |-> Word(g[n].name), value |-> Word(g[n].value)]
<1>3. f = [n \in DOMAIN g |-> e(n)]
  BY Zenon DEF Fields, g
<1>4. \A n : e(n).name = Word(g[n].name) /\ e(n).value = Word(g[n].value)
  OBVIOUS
<1> HIDE DEF e
<1>5. DOMAIN f = DOMAIN g /\ \A n \in DOMAIN g : f[n].name = Word(g[n].name) /\ f[n].value = Word(g[n].value)
  BY Zenon, <1>3, <1>4
<1>6. of = found
  BY Zenon, <1>5
<1>7. ValueIn(sect, name) = IF found = {} THEN NotFound ELSE Word(g[Min(found)].value)
  BY Zenon DEF ValueIn, g
<1>8. ValueOf(f, name) = IF of = {} THEN NotFound ELSE f[Min(of)].value
  BY Zenon DEF ValueOf
<1>9. found \subseteq Nat /\ found \subseteq DOMAIN g
  BY <1>2
<1> HIDE DEF found, of
<1>10. found # {} => Min(found) \in DOMAIN g
  BY Zenon, <1>9, MinIn
<1>11. found # {} => f[Min(found)].value = Word(g[Min(found)].value)
  BY Zenon, <1>5, <1>10
<1>12. CASE found = {}
  BY Zenon, <1>6, <1>7, <1>8, <1>12
<1>13. CASE found # {}
  BY Zenon, <1>6, <1>7, <1>8, <1>11, <1>13
<1> QED BY Zenon, <1>12, <1>13

----------------------------------------------------------------------------
\* The sections of that name in the result, and in the lines.
FoundOf(section) == {n \in DOMAIN sections.data : Word(sections.data[n].name) = section}

SaidOf(section) == {n \in 2 .. Len(Lines.sections) : Lines.sections[n].name = section}

\* What GetGlobalEntryValue and GetEntryValue answer.
EntryAnswer(section, name) ==
    IF section = Global THEN ValueIn(global, name)
    ELSE IF FoundOf(section) = {} THEN NotFound
    ELSE ValueIn(sections.data[FirstOf(FoundOf(section))], name)

\* What they should.
EntryTold(section, name) ==
    LET at == IF section = Global THEN 1 ELSE Max(SaidOf(section))
    IN  IF section # Global /\ SaidOf(section) = {} THEN NotFound
        ELSE ValueOf(Lines.sections[at].fields, name)

LEMMA EntryIsAnswered ==
    ASSUME IInv, Apart, Says, pc = "parsed", Lines.regular, NEW section, NEW name
    PROVE  EntryAnswer(section, name) = EntryTold(section, name)
<1> DEFINE array == sections.data
           all == Lines.sections
           k == Len(array)
<1>1. stack = << >> /\ IsList(array) /\ Owned(global) /\ AllOwned(array) /\ AllOwned(<< >>)
  <2>1. stack = << >>
    BY DEF IInv, CallsOpen
  <2> QED BY Zenon, <2>1 DEF IInv, AllOwned
<1>2. all = ReadOf(global, << >>, array)
  <2>1. Complete(Said)
    BY DEF Says, Stuck
  <2> QED BY Zenon, <1>1, <2>1 DEF Complete, Said
<1> HIDE DEF all, array
<1>3. k \in Nat /\ DOMAIN array = 1 .. k /\ 1 + 0 + k = k + 1
  BY <1>1, LenOfList
<1>4. Len(all) = k + 1 /\ \A n \in 1 .. k + 1 : all[n] = Meaning(Nth(global, << >>, array, n))
  <2> DEFINE count == 1 + Len(<< >>) + Len(array)
             r == ReadOf(global, << >>, array)
  <2>1. Len(r) = count
    BY <1>1, ReadIsTold
  <2>3. \A n \in 1 .. count : r[n] = Meaning(Nth(global, << >>, array, n))
    BY <1>1, ReadIsTold
  <2>2. count = k + 1
    BY <1>3, EmptyIsList
  <2> HIDE DEF count, r
  <2> QED BY Zenon, <1>2, <2>1, <2>2, <2>3 DEF r
<1>5. all[1].fields = Fields(global.fields)
  <2>1. 1 \in 1 .. k + 1
    BY <1>3
  <2>2. all[1] = Meaning(global)
    BY Zenon, <1>4, <2>1 DEF Nth
  <2> QED BY Zenon, <2>2, MeaningIs
<1>6. \A n \in 1 .. k : /\ all[k + 2 - n].name = Word(array[n].name)
                        /\ all[k + 2 - n].fields = Fields(array[n].fields)
  <2> SUFFICES ASSUME NEW n \in 1 .. k
               PROVE  all[k + 2 - n].name = Word(array[n].name) /\ all[k + 2 - n].fields = Fields(array[n].fields)
    BY Zenon
  <2> DEFINE m == k + 2 - n
  <2>1. m \in 1 .. k + 1 /\ m # 1 /\ ~(m - 1 <= 0) /\ 0 + k + 1 - (m - 1) = n
    BY <1>3
  <2> HIDE DEF m
  <2>2. Nth(global, << >>, array, m) = array[n]
    BY Zenon, <2>1, EmptyIsList DEF Nth, SectionAt
  <2>3. all[m] = Meaning(array[n])
    BY Zenon, <1>4, <2>1, <2>2
  <2> QED BY Zenon, <2>3, MeaningIs DEF m
<1>7. \A n \in 1 .. k : Owned(array[n])
  <2>1. \A n \in 1 .. k : array[n] \in Range(array)
    BY Zenon, <1>3 DEF Range
  <2> QED BY Zenon, <1>1, <2>1 DEF AllOwned
<1>8. CASE section = Global
  <2>1. EntryAnswer(section, name) = ValueIn(global, name)
    BY Zenon, <1>8 DEF EntryAnswer
  <2>2. EntryTold(section, name) = ValueOf(all[1].fields, name)
    BY Zenon, <1>8 DEF EntryTold, all
  <2>3. ValueIn(global, name) = ValueOf(all[1].fields, name)
    BY <1>1, <1>5, ValueInIs
  <2> QED BY Zenon, <2>1, <2>2, <2>3
<1>9. CASE section # Global
  <2> DEFINE F == FoundOf(section)
             G == SaidOf(section)
             m == Min(F)
  <2>1. F = {n \in 1 .. k : Word(array[n].name) = section}
    BY Zenon, <1>3 DEF FoundOf, array
  <2>2. G = {n \in 2 .. k + 1 : all[n].name = section}
    BY Zenon, <1>4 DEF SaidOf, all
  <2> HIDE DEF F, G
  <2>3. F \subseteq 1 .. k /\ G \subseteq 2 .. k + 1
    BY Zenon, <2>1, <2>2
  <2>4. \A n \in 1 .. k : n \in F <=> k + 2 - n \in G
    <3>1. \A n \in 1 .. k : k + 2 - n \in 2 .. k + 1
      BY <1>3
    <3> QED BY Zenon, <1>6, <2>1, <2>2, <3>1
  <2>5. /\ F = {} => G = {}
        /\ F # {} => m \in F /\ G # {}
    BY Zenon, <1>3, <2>3, <2>4, LastIsFirst
  <2>6. F # {} => Max(G) = k + 2 - m
    BY <1>3, <2>3, <2>4, LastIsFirst
  <2> HIDE DEF m
  <2>7. CASE F = {}
    BY Zenon, <1>9, <2>5, <2>7 DEF EntryAnswer, EntryTold, F, G
  <2>8. CASE F # {}
    <3>1. m \in 1 .. k
      BY Zenon, <2>3, <2>5, <2>8
    <3>2. EntryAnswer(section, name) = ValueIn(array[m], name)
      BY Zenon, <1>9, <2>8 DEF EntryAnswer, FirstOf, F, m, array
    <3>3. EntryTold(section, name) = ValueOf(all[k + 2 - m].fields, name)
      BY Zenon, <1>9, <2>5, <2>6, <2>8 DEF EntryTold, G, all
    <3>4. Owned(array[m]) /\ all[k + 2 - m].fields = Fields(array[m].fields)
      BY Zenon, <1>6, <1>7, <3>1
    <3>5. ValueIn(array[m], name) = ValueOf(all[k + 2 - m].fields, name)
      BY <3>4, ValueInIs
    <3> QED BY Zenon, <3>2, <3>3, <3>5
  <2> QED BY Zenon, <2>7, <2>8
<1> QED BY Zenon, <1>8, <1>9

----------------------------------------------------------------------------
\* The answer a tells what the lines say.
Tells(a) ==
    a # NoAnswer =>
        /\ Lines.regular /\ a.op = "entry" => a.value = EntryTold(a.section, a.name)
        /\ Lines.regular /\ a.op = "field" => a.value = FieldTold(a.section, a.name)

\* What a lookup answers, to the last case: the search in the text finds nothing in a section, nor
\* a global entry behind one that has its name for a value.
Exactly ==
    answer # NoAnswer =>
        LET lines == Lines
            all == lines.sections
            of  == {n \in 2 .. Len(all) : all[n].name = answer.section}
            at  == IF answer.section = Global THEN 1 ELSE Max(of)
            met == {n \in DOMAIN all[1].fields :
                       answer.name \in {all[1].fields[n].name, all[1].fields[n].value}}
        IN
        /\ lines.regular /\ answer.op = "entry" =>
              answer.value = IF answer.section # Global /\ of = {} THEN NotFound
                             ELSE ValueOf(all[at].fields, answer.name)
        /\ lines.regular /\ answer.op = "field" =>
              answer.value =
                 IF answer.section = Global /\ met # {} /\ all[1].fields[Min(met)].name = answer.name
                 THEN all[1].fields[Min(met)].value ELSE NotFound

LEMMA TellsTheTruth == Tells(answer) <=> Exactly
<1> DEFINE s == answer.section
           lines == Lines
           all == lines.sections
           of  == {n \in 2 .. Len(all) : all[n].name = s}
           at  == IF s = Global THEN 1 ELSE Max(of)
           met == {n \in DOMAIN all[1].fields :
                      answer.name \in {all[1].fields[n].name, all[1].fields[n].value}}
           entry == IF s # Global /\ of = {} THEN NotFound ELSE ValueOf(all[at].fields, answer.name)
           field == IF s = Global /\ met # {} /\ all[1].fields[Min(met)].name = answer.name
                    THEN all[1].fields[Min(met)].value ELSE NotFound
<1>1. EntryTold(s, answer.name) = entry
  BY Zenon DEF EntryTold, SaidOf
<1>2. FieldTold(s, answer.name) = field
  BY Zenon DEF FieldTold, GlobalFields
<1>3. Exactly <=>
        (answer # NoAnswer => /\ lines.regular /\ answer.op = "entry" => answer.value = entry
                              /\ lines.regular /\ answer.op = "field" => answer.value = field)
  BY Zenon DEF Exactly
<1> HIDE DEF entry, field
<1> QED BY Zenon, <1>1, <1>2, <1>3 DEF Tells

LEMMA TellsSame ==
    ASSUME UNCHANGED text
    PROVE  \A a : Tells(a)' <=> Tells(a)
<1>1. Lines' = Lines
  BY Zenon, SameReading
<1>2. \A s, n : EntryTold(s, n)' = EntryTold(s, n)
  <2> SUFFICES ASSUME NEW CONSTANT s, NEW CONSTANT n PROVE EntryTold(s, n)' = EntryTold(s, n)
    BY Zenon
  <2> DEFINE told(lines) ==
               LET of == {m \in 2 .. Len(lines.sections) : lines.sections[m].name = s}
                   at == IF s = Global THEN 1 ELSE Max(of)
               IN  IF s # Global /\ of = {} THEN NotFound ELSE ValueOf(lines.sections[at].fields, n)
  <2>1. EntryTold(s, n) = told(Lines)
    BY Zenon DEF EntryTold, SaidOf
  <2>2. EntryTold(s, n)' = told(Lines')
    BY Zenon DEF EntryTold, SaidOf, ValueOf
  <2> HIDE DEF told
  <2> QED BY Zenon, <1>1, <2>1, <2>2
<1>3. \A s, n : FieldTold(s, n)' = FieldTold(s, n)
  <2> SUFFICES ASSUME NEW CONSTANT s, NEW CONSTANT n PROVE FieldTold(s, n)' = FieldTold(s, n)
    BY Zenon
  <2> DEFINE told(lines) ==
               LET fields == lines.sections[1].fields
                   met == {m \in DOMAIN fields : n \in {fields[m].name, fields[m].value}}
               IN  IF s = Global /\ met # {} /\ fields[Min(met)].name = n THEN fields[Min(met)].value ELSE NotFound
  <2>1. FieldTold(s, n) = told(Lines)
    BY Zenon DEF FieldTold, GlobalFields
  <2>2. FieldTold(s, n)' = told(Lines')
    BY Zenon DEF FieldTold, GlobalFields
  <2> HIDE DEF told
  <2> QED BY Zenon, <1>1, <2>1, <2>2
<1> SUFFICES ASSUME NEW CONSTANT a PROVE Tells(a)' <=> Tells(a)
  BY Zenon
<1>4. EntryTold(a.section, a.name)' = EntryTold(a.section, a.name)
  BY Zenon, <1>2
<1>5. FieldTold(a.section, a.name)' = FieldTold(a.section, a.name)
  BY Zenon, <1>3
<1> QED BY Zenon, <1>1, <1>4, <1>5 DEF Tells

\* The answer that a lookup gives.
LEMMA AnswerTells ==
    ASSUME UNCHANGED text, NEW op, NEW section, NEW name, NEW value,
           answer' = [op |-> op, section |-> section, name |-> name, value |-> value],
           op = "entry" \/ op = "field",
           Lines.regular /\ op = "entry" => value = EntryTold(section, name),
           Lines.regular /\ op = "field" => value = FieldTold(section, name)
    PROVE  Exactly'
<1>1. Tells(answer')
  <2> DEFINE a == answer'
  <2>1. a.op = op /\ a.section = section /\ a.name = name /\ a.value = value
    OBVIOUS
  <2> HIDE DEF a
  <2> QED BY Zenon, <2>1 DEF Tells, a
<1>2. Tells(answer)' <=> Tells(answer')
  <2>1. \A a : Tells(a)' <=> Tells(a)
    BY Zenon, TellsSame
  <2> QED BY Zenon, <1>1, <2>1
<1> QED BY Zenon, <1>1, <1>2, TellsTheTruth, PTL

LEMMA SameAnswerTells ==
    ASSUME UNCHANGED <<text, answer>>, Exactly
    PROVE  Exactly'
<1>1. Tells(answer)
  BY Zenon, TellsTheTruth
<1>2. \A a : Tells(a)' <=> Tells(a)
  BY Zenon, TellsSame
<1>3. Tells(answer)'
  BY Zenon, <1>1, <1>2
<1> QED BY <1>3, TellsTheTruth, PTL

LEMMA NoAnswerTells ==
    ASSUME answer' = NoAnswer
    PROVE  Exactly'
BY Zenon DEF Exactly

\* The answer of the last lookup stays true until the next.
LEMMA LookupsInit == Init => Exactly
BY Zenon DEF Init, Exactly

LEMMA LookupsNext == IInv /\ Apart /\ Says /\ Exactly /\ [Next]_vars => Exactly'
<1> SUFFICES ASSUME IInv, Apart, Says, Exactly, [Next]_vars PROVE Exactly'
  OBVIOUS
<1>1. CASE ParseBegin \/ Destroy
  BY Zenon, <1>1, NoAnswerTells DEF ParseBegin, Destroy
<1>2. CASE ParseEntry \/ ParseSection \/ ParseEnd \/ ParseUnknown \/ SectionReturns \/ GlobalReturns
  <2>1. UNCHANGED <<text, answer>>
    BY <1>2 DEF ParseEntry, ParseSection, ParseEnd, ParseUnknown, SectionReturns, GlobalReturns
  <2> QED BY Zenon, <2>1, SameAnswerTells
<1>3. ASSUME NEW name, GetGlobalEntryValue(name) PROVE Exactly'
  <2>1. /\ pc = "parsed" /\ text' = text
        /\ answer' = [op |-> "entry", section |-> Global, name |-> name, value |-> ValueIn(global, name)]
    BY Zenon, <1>3 DEF GetGlobalEntryValue, Answer
  <2>2. Lines.regular => EntryAnswer(Global, name) = EntryTold(Global, name)
    BY Zenon, <2>1, EntryIsAnswered
  <2>3. EntryAnswer(Global, name) = ValueIn(global, name)
    BY Zenon DEF EntryAnswer
  <2>4. "entry" # "field"
    OBVIOUS
  <2> QED BY Zenon, <2>1, <2>2, <2>3, <2>4, AnswerTells
<1>4. ASSUME NEW name, NEW section \in Names, GetEntryValue(section, name) PROVE Exactly'
  <2>1. /\ pc = "parsed" /\ text' = text
        /\ answer' = [op |-> "entry", section |-> section, name |-> name,
                      value |-> IF FoundOf(section) = {} THEN NotFound
                                ELSE ValueIn(sections.data[FirstOf(FoundOf(section))], name)]
    BY Zenon, <1>4 DEF GetEntryValue, Answer, FoundOf
  <2>2. section # Global
    BY IniAssumption DEF Global
  <2>3. EntryAnswer(section, name) = IF FoundOf(section) = {} THEN NotFound
                                     ELSE ValueIn(sections.data[FirstOf(FoundOf(section))], name)
    BY Zenon, <2>2 DEF EntryAnswer
  <2>4. answer' = [op |-> "entry", section |-> section, name |-> name, value |-> EntryAnswer(section, name)]
    BY Zenon, <2>1, <2>3
  <2>5. Lines.regular => EntryAnswer(section, name) = EntryTold(section, name)
    BY Zenon, <2>1, EntryIsAnswered
  <2>6. "entry" # "field"
    OBVIOUS
  <2> QED BY Zenon, <2>1, <2>4, <2>5, <2>6, AnswerTells
<1>5. ASSUME NEW name, NEW section, GetField(section, name) PROVE Exactly'
  <2>1. /\ text' = text
        /\ answer' = [op |-> "field", section |-> section, name |-> name, value |-> FieldAnswer(section, name)]
    BY Zenon, <1>5 DEF GetField, Answer, FieldAnswer
  <2>2. Lines.regular => FieldAnswer(section, name) = FieldTold(section, name)
    BY Zenon, FieldIsTold DEF Apart
  <2>3. "field" # "entry"
    OBVIOUS
  <2> QED BY Zenon, <2>1, <2>2, <2>3, AnswerTells
<1>6. CASE UNCHANGED vars
  <2>1. UNCHANGED <<text, answer>>
    BY <1>6 DEF vars
  <2> QED BY Zenon, <2>1, SameAnswerTells
<1> QED BY Zenon, <1>1, <1>2, <1>3, <1>4, <1>5, <1>6 DEF Next

\* The first entry that mentions the name as its own is the first of that name.
LEMMA FirstMentioned ==
    ASSUME NEW f, IsList(f), NEW name,
           {n \in DOMAIN f : name \in {f[n].name, f[n].value}} # {},
           f[Min({n \in DOMAIN f : name \in {f[n].name, f[n].value}})].name = name
    PROVE  ValueOf(f, name) = f[Min({n \in DOMAIN f : name \in {f[n].name, f[n].value}})].value
<1> DEFINE met == {n \in DOMAIN f : name \in {f[n].name, f[n].value}}
           found == {n \in DOMAIN f : f[n].name = name}
           m == Min(met)
<1>1. DOMAIN f = 1 .. Len(f) /\ Len(f) \in Nat
  BY Zenon, LenOfList
<1>2. met \subseteq Nat /\ found \subseteq Int /\ met # {}
  BY <1>1
<1>3. found \subseteq met
  BY Zenon
<1>4. m \in met /\ \A x \in met : m <= x
  <2> HIDE DEF met
  <2> QED BY <1>2, MinIn
<1>5. m \in found
  BY Zenon, <1>4
<1> HIDE DEF met, m
<1>6. \A x \in found : m <= x
  BY Zenon, <1>3, <1>4
<1> HIDE DEF found
<1>7. Min(found) = m
  BY Zenon, <1>2, <1>5, <1>6, MinIs
<1>8. ValueOf(f, name) = f[m].value
  BY Zenon, <1>5, <1>7 DEF ValueOf, found
<1> QED BY Zenon, <1>8 DEF m, met

\* So no answer is one that the text does not give.
LEMMA ExactlyIsTrue == text \in Seq(Character) /\ Exactly => LookupsAreTrue
<1> SUFFICES ASSUME text \in Seq(Character), Exactly, answer # NoAnswer PROVE LookupsAreTrue
  BY Zenon DEF LookupsAreTrue
<1> DEFINE s == answer.section
           lines == Lines
           all == lines.sections
           fields == all[1].fields
           of  == {n \in 2 .. Len(all) : all[n].name = s}
           at  == IF s = Global THEN 1 ELSE Max(of)
           in  == IF s = Global THEN {1} ELSE of
           met == {n \in DOMAIN fields : answer.name \in {fields[n].name, fields[n].value}}
           entry == IF s # Global /\ of = {} THEN NotFound ELSE ValueOf(all[at].fields, answer.name)
           mentioned == s = Global /\ met # {} /\ fields[Min(met)].name = answer.name
           first == fields[Min(met)].value
<1>1. /\ lines.regular /\ answer.op = "entry" => answer.value = entry
      /\ lines.regular /\ answer.op = "field" => answer.value = IF mentioned THEN first ELSE NotFound
  BY Zenon DEF Exactly
<1>2. IsList(fields)
  <2>1. Told(all)
    BY Zenon, LinesAreTold
  <2> HIDE DEF all
  <2>2. all \in Seq(Range(all)) /\ all # << >>
    BY Zenon, <2>1 DEF Told, IsList
  <2>3. all[1] \in Range(all)
    BY <2>2
  <2> QED BY Zenon, <2>1, <2>3 DEF Told, all
<1>3. mentioned => first = ValueOf(fields, answer.name)
  <2> SUFFICES ASSUME mentioned PROVE first = ValueOf(fields, answer.name)
    BY Zenon
  <2> DEFINE f == fields
             name == answer.name
  <2>1. /\ {n \in DOMAIN f : name \in {f[n].name, f[n].value}} # {}
        /\ f[Min({n \in DOMAIN f : name \in {f[n].name, f[n].value}})].name = name
    BY Zenon
  <2> HIDE DEF f, name
  <2>2. ValueOf(f, name) = f[Min({n \in DOMAIN f : name \in {f[n].name, f[n].value}})].value
    BY Zenon, <1>2, <2>1, FirstMentioned DEF f
  <2> QED BY Zenon, <2>2 DEF f, name
<1>4. lines.regular /\ answer.op = "field" /\ answer.value # NotFound =>
         \E n \in in : answer.value = ValueOf(all[n].fields, answer.name)
  <2> SUFFICES ASSUME lines.regular, answer.op = "field", answer.value # NotFound
               PROVE  \E n \in in : answer.value = ValueOf(all[n].fields, answer.name)
    BY Zenon
  <2>1. mentioned /\ answer.value = first
    BY Zenon, <1>1
  <2>2. 1 \in in
    BY Zenon, <2>1
  <2>3. answer.value = ValueOf(all[1].fields, answer.name)
    BY Zenon, <1>3, <2>1
  <2> QED BY Zenon, <2>2, <2>3
<1>5. lines.regular /\ answer.op = "field" => (mentioned => answer.value = first)
  BY Zenon, <1>1
<1>6. lines.regular /\ answer.op = "entry" => answer.value = entry
  BY Zenon, <1>1
<1> QED BY Zenon, <1>4, <1>5, <1>6 DEF LookupsAreTrue

\* Whatever the text, of regular lines, and whatever is looked up: the answer is never a value that
\* the text does not give to what was asked for, and an entry of the result is always found.
THEOREM LooksUpTruly == Spec => []LookupsAreTrue
<1>1. Init => IInv /\ Apart /\ Says /\ Exactly
  BY InvInit, ApartInit, SaysInit, LookupsInit
<1>2. (IInv /\ Apart /\ Says /\ Exactly) /\ [Next]_vars => (IInv /\ Apart /\ Says /\ Exactly)'
  BY InvNext, ApartNext, SaysNext, LookupsNext
<1>3. IInv /\ Apart /\ Says /\ Exactly => LookupsAreTrue
  BY Zenon, ExactlyIsTrue DEF Apart
<1> QED BY <1>1, <1>2, <1>3, PTL DEF Spec
====
