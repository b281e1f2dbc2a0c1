---- MODULE Chat_proofs ----
(***************************************************************************)
(* Proofs about Chat: for every size of the buffers, whatever is typed,    *)
(* however its bytes are grouped and whichever call fails, the server      *)
(* prints the lines that were sent, both programs agree on why they stop,  *)
(* and every socket is closed.                                             *)
(***************************************************************************)
EXTENDS Chat, SequenceTheorems, FiniteSetTheorems, TLAPS

----------------------------------------------------------------------------
(***************************************************************************)
(* Induction, for sets of numbers: the instances that are needed here are  *)
(* written out as sets.                                                    *)
(***************************************************************************)

LEMMA LeastElement ==
    ASSUME NEW S, S \subseteq Nat, S # {}
    PROVE  \E x \in S : \A y \in S : x <= y
<1> DEFINE Below == {ss \in Nat \X Nat : ss[1] < ss[2]}
<1>1. IsWellFoundedOn(Below, Nat)
  BY NatLessThanWellFounded DEF OpToRel
<1> HIDE DEF Below
<1>2. PICK x \in S : \A y \in S : ~(<<y, x>> \in Below)
  BY <1>1, WFMin
<1>3. ASSUME NEW y \in S
      PROVE  x <= y
  <2>1. x \in Nat /\ y \in Nat
    OBVIOUS
  <2>2. y < x => <<y, x>> \in Below
    BY <2>1 DEF Below
  <2> QED BY <1>2, <2>1, <2>2
<1> QED BY <1>3

LEMMA AllNumbers ==
    ASSUME NEW S, 0 \in S, \A n \in Nat : n \in S => n + 1 \in S
    PROVE  Nat \subseteq S
<1> SUFFICES ASSUME Nat \ S # {}
             PROVE  FALSE
  OBVIOUS
<1>1. PICK x \in Nat \ S : \A y \in Nat \ S : x <= y
  BY LeastElement
<1>2. x # 0 /\ x - 1 \in Nat
  BY <1>1
<1>3. x - 1 \notin Nat \ S
  BY <1>1, <1>2
<1> QED BY <1>1, <1>2, <1>3

\* A set of numbers with a bound has a maximum.
LEMMA MaxIs ==
    ASSUME NEW n \in Nat, NEW S \in SUBSET (0 .. n), S # {}
    PROVE  Max(S) \in S /\ \A x \in S : Max(S) >= x
<1> DEFINE Good == {k \in Nat : \A T \in SUBSET (0 .. k) : T # {} => \E x \in T : \A y \in T : x >= y}
<1>1. 0 \in Good
  <2> SUFFICES ASSUME NEW T \in SUBSET (0 .. 0), T # {}
               PROVE  \E x \in T : \A y \in T : x >= y
    OBVIOUS
  <2>1. PICK x \in T : x \in 0 .. 0
    OBVIOUS
  <2>2. \A y \in T : y \in 0 .. 0
    OBVIOUS
  <2> HIDE DEF Good
  <2> QED BY <2>1, <2>2
<1>2. ASSUME NEW k \in Nat, k \in Good
      PROVE  k + 1 \in Good
  <2> SUFFICES ASSUME NEW T \in SUBSET (0 .. k + 1), T # {}
               PROVE  \E x \in T : \A y \in T : x >= y
    OBVIOUS
  <2>1. CASE k + 1 \in T
    <3>1. \A y \in T : k + 1 >= y
      OBVIOUS
    <3> QED BY <2>1, <3>1
  <2>2. CASE k + 1 \notin T
    <3>1. T \in SUBSET (0 .. k)
      BY <2>2
    <3> QED BY <1>2, <3>1
  <2> QED BY <2>1, <2>2
<1> HIDE DEF Good
<1>3. n \in Good
  BY <1>1, <1>2, AllNumbers
<1>4. \E x \in S : \A y \in S : x >= y
  BY <1>3 DEF Good
<1> QED BY <1>4 DEF Max

\* A number is the n-th of a set of numbers if n of them are not above it.  There is one for every n
\* up to the size of the set.
UpTo(S, x) == {y \in S : y <= x}

LEMMA UpToIsFinite ==
    ASSUME NEW k \in Nat, NEW S \in SUBSET (1 .. k), NEW x \in Nat
    PROVE  /\ IsFiniteSet(S) /\ Cardinality(S) \in Nat
           /\ IsFiniteSet(UpTo(S, x)) /\ Cardinality(UpTo(S, x)) \in Nat
           /\ Cardinality(UpTo(S, x)) <= Cardinality(S)
<1>1. IsFiniteSet(S) /\ Cardinality(S) \in Nat
  <2>1. IsFiniteSet(1 .. k)
    BY FS_Interval
  <2>2. IsFiniteSet(S)
    BY <2>1, FS_Subset
  <2> QED BY <2>2, FS_CardinalityType
<1>2. UpTo(S, x) \in SUBSET S
  BY DEF UpTo
<1>3. IsFiniteSet(UpTo(S, x)) /\ Cardinality(UpTo(S, x)) <= Cardinality(S)
  BY <1>1, <1>2, FS_Subset
<1> QED BY <1>1, <1>3, FS_CardinalityType

LEMMA NthExists ==
    ASSUME NEW k \in Nat, NEW S \in SUBSET (1 .. k), NEW n \in 1 .. Cardinality(S)
    PROVE  \E x \in S : Cardinality(UpTo(S, x)) = n
<1> DEFINE Good == {j \in Nat : \A T \in SUBSET (1 .. j) : \A m \in 1 .. Cardinality(T) :
                                   \E x \in T : Cardinality(UpTo(T, x)) = m}
<1>1. 0 \in Good
  <2> SUFFICES ASSUME NEW T \in SUBSET (1 .. 0), NEW m \in 1 .. Cardinality(T)
               PROVE  FALSE
    OBVIOUS
  <2>1. T = {}
    OBVIOUS
  <2> QED BY <2>1, FS_EmptySet
<1>2. ASSUME NEW j \in Nat, j \in Good
      PROVE  j + 1 \in Good
  <2> SUFFICES ASSUME NEW T \in SUBSET (1 .. j + 1), NEW m \in 1 .. Cardinality(T)
               PROVE  \E x \in T : Cardinality(UpTo(T, x)) = m
    OBVIOUS
  <2> DEFINE U == T \ {j + 1}
  <2>1. U \in SUBSET (1 .. j)
    OBVIOUS
  <2>2. \A l \in 1 .. Cardinality(U) : \E x \in U : Cardinality(UpTo(U, x)) = l
    BY <1>2, <2>1
  <2>3. \A x \in U : UpTo(T, x) = UpTo(U, x)
    BY <2>1 DEF UpTo
  <2>4. CASE j + 1 \notin T
    <3>1. T = U
      BY <2>4
    <3> QED BY <2>2, <3>1
  <2>5. CASE j + 1 \in T
    <3>1. T = U \cup {j + 1} /\ j + 1 \notin U
      BY <2>5
    <3>2. IsFiniteSet(U) /\ Cardinality(U) \in Nat
      BY <2>1, UpToIsFinite
    <3>3. Cardinality(T) = Cardinality(U) + 1
      <4> HIDE DEF U
      <4> QED BY <3>1, <3>2, FS_AddElement
    <3>4. UpTo(T, j + 1) = T
      <4>1. \A y \in T : y <= j + 1
        OBVIOUS
      <4> QED BY <4>1 DEF UpTo
    <3>5. m = Cardinality(T) \/ m \in 1 .. Cardinality(U)
      BY <3>2, <3>3
    <3> QED BY <2>2, <2>3, <2>5, <3>4, <3>5
  <2> QED BY <2>4, <2>5
<1> HIDE DEF Good
<1>3. k \in Good
  BY <1>1, <1>2, AllNumbers
<1> QED BY <1>3 DEF Good

\* Numbers that are all above do not change what is up to one.
LEMMA UpToStays ==
    ASSUME NEW k \in Nat, NEW l \in Nat, NEW S \in SUBSET (1 .. k), NEW T \in SUBSET (k + 1 .. l),
           NEW x \in S
    PROVE  UpTo(S \cup T, x) = UpTo(S, x)
<1>1. \A y \in T : ~(y <= x)
  OBVIOUS
<1> QED BY <1>1 DEF UpTo

----------------------------------------------------------------------------
(***************************************************************************)
(* The inductive invariant.                                                *)
(***************************************************************************)

\* The sockets that are in a list of them.
Listed(closing) == {closing[n] : n \in DOMAIN closing}

\* Where each program may be; what it still has to close is set only on its way out.
ClientPlace(program) ==
    /\ program.pc \in {"open", "connect", "send", "closing", "stopped"}
    /\ program.pc \notin {"closing", "stopped"} => program = At(program.pc)
    /\ program.closing \in {<< >>, <<"client">>}
    /\ program.pc = "stopped" => program.closing = << >>

ServerPlace(program) ==
    /\ program.pc \in {"open", "bind", "listen", "accept", "receive", "closing", "stopped"}
    /\ program.pc \notin {"closing", "stopped"} => program = At(program.pc)
    /\ program.closing \in {<< >>, <<"listener">>, EndOfServer}
    /\ program.pc = "stopped" => program.closing = << >>

\* The sockets that a program has at its place.
ClientHolds(program) ==
    IF program.pc \in {"connect", "send"} THEN {"client"} ELSE Listed(program.closing)

ServerHolds(program) ==
    IF program.pc \in {"bind", "listen", "accept"} THEN {"listener"}
    ELSE IF program.pc = "receive" THEN {"accepted", "listener"} ELSE Listed(program.closing)

\* They are those that are open, on whichever way a program has come to its place.
Holding ==
    /\ ClientPlace(client) /\ ServerPlace(server)
    /\ open = ClientHolds(client) \cup ServerHolds(server)

\* What was said is what has been received followed by what is on its way, until a connection is
\* closed; then the rest may be lost.
Delivery ==
    /\ client.pc \in {"open", "connect"} => connection = "none"
    /\ client.pc = "send" => connection # "none"
    /\ server.pc = "receive" \/ server.closing = EndOfServer => connection = "accepted"
    /\ connection = "none" => said = << >> /\ received = << >> /\ stream = << >>
    /\ connection # "closed" => said = received \o stream
    /\ \E rest \in Seq(Byte) : said = received \o rest
    /\ server.why = "disconnected" => received = said /\ client.pc \in {"closing", "stopped"}

\* The bytes behind the last line that has ended, and that one of some lines asks to stop.
Rest(bytes) == SubSeq(bytes, 1 + Max(Ends(bytes) \cup {0}), Len(bytes))

HasStop(lines) == \E n \in DOMAIN lines : lines[n] = Disconnect

\* A server that has taken some bytes, in whatever pieces, has made of them what there is in them.
CutOf(c, bytes) ==
    LinesFit(bytes) =>
        /\ c.printed = UpToStop(Lines(bytes))
        /\ c.requested = HasStop(Lines(bytes))
        /\ ~c.requested => c.line = Rest(bytes)

\* Why a program stops is what the bytes say; and fgets has cut a line only where it was too
\* long for the client's input.
Requests ==
    /\ server.pc \notin {"closing", "stopped"} => ~cutter.requested
    /\ server.why = "requested" => cutter.requested
    /\ server.why = "disconnected" => ~cutter.requested
    /\ client.why # "requested" => ~HasStop(Lines(said))
    /\ (client.pc = "send" /\ stdin # << >>) =>
           Rest(said) = << >> \/ Len(Rest(said)) >= InputSize - 1

IInv == TypeOK /\ Holding /\ Delivery /\ CutOf(cutter, received) /\ Requests

----------------------------------------------------------------------------
(***************************************************************************)
(* Lines: what a byte more, or bytes without an end, make of them.         *)
(***************************************************************************)

LEMMA Constants ==
    /\ LF \in Byte /\ CR \in Byte /\ LF # CR
    /\ Disconnect \in Seq(Byte) /\ Disconnect # << >> /\ Len(Disconnect) \in Nat \ {0}
    /\ \A n \in 1 .. Len(Disconnect) : Disconnect[n] # LF /\ Disconnect[n] # CR
    /\ LineSize \in Nat \ {0} /\ ReceivedSize \in Nat \ {0} /\ InputSize \in Nat
    /\ Len(Disconnect) + 2 < InputSize
    /\ Typed \subseteq Seq(Byte)
<1>1. Disconnect \in Seq(Byte \ {LF, CR}) /\ Disconnect # << >>
  BY ChatAssumption
<1>2. \A n \in 1 .. Len(Disconnect) : Disconnect[n] \in Byte \ {LF, CR}
  BY <1>1, ElementOfSeq
<1>3. Disconnect \in Seq(Byte)
  <2>1. Byte \ {LF, CR} \subseteq Byte
    OBVIOUS
  <2> QED BY <1>1, <2>1, SeqMonotonic
<1>4. Len(Disconnect) \in Nat \ {0}
  BY <1>1, <1>3, EmptySeq
<1> QED BY <1>1, <1>2, <1>3, <1>4, ChatAssumption

LEMMA PartOfFirst ==
    ASSUME NEW S, NEW s \in Seq(S), NEW t \in Seq(S), NEW m \in Nat \ {0}, NEW n \in 0 .. Len(s)
    PROVE  SubSeq(s \o t, m, n) = SubSeq(s, m, n)
<1>1. CASE m <= n
  <2>1. Len(s) \in Nat
    BY LenProperties
  <2>2. m \in 1 .. Len(s) /\ n \in 1 .. Len(s)
    BY <1>1, <2>1
  <2> QED BY <2>2, SubSeqOfConcat1
<1>2. CASE n < m
  <2>1. m \in Int /\ n \in Int
    OBVIOUS
  <2> QED BY <1>2, <2>1, SubSeqEmpty
<1>3. Len(s) \in Nat
  BY LenProperties
<1> QED BY <1>1, <1>2, <1>3

LEMMA PartIsSeq ==
    ASSUME NEW S, NEW s \in Seq(S), NEW m \in Nat \ {0}, NEW n \in Int, n <= Len(s)
    PROVE  /\ SubSeq(s, m, n) \in Seq(S)
           /\ Len(SubSeq(s, m, n)) = IF m <= n THEN n - m + 1 ELSE 0
           /\ \A i \in 1 .. n - m + 1 : SubSeq(s, m, n)[i] = s[m + i - 1]
<1>1. Len(s) \in Nat /\ m \in Int
  BY LenProperties
<1>2. \A i \in m .. n : s[i] \in S
  <2>1. \A i \in m .. n : i \in 1 .. Len(s)
    BY <1>1
  <2> QED BY <2>1, ElementOfSeq
<1> QED BY <1>1, <1>2, SubSeqProperties

LEMMA StrippedIs ==
    ASSUME NEW line \in Seq(Byte)
    PROVE  /\ Stripped(line) \in Seq(Byte)
           /\ Len(Stripped(line)) \in {Len(line) - 1, Len(line)}
           /\ Stripped(line) = Disconnect => line = Disconnect \/ line = Disconnect \o <<CR>>
<1>1. Len(line) \in Nat
  BY LenProperties
<1>2. CASE EndsInCR(line)
  <2>1. Len(line) \in Nat \ {0} /\ line[Len(line)] = CR
    BY <1>2, EmptySeq DEF EndsInCR, Last
  <2>2. Stripped(line) = SubSeq(line, 1, Len(line) - 1)
    BY <1>2 DEF Stripped, Front
  <2>3. /\ SubSeq(line, 1, Len(line) - 1) \in Seq(Byte)
        /\ Len(SubSeq(line, 1, Len(line) - 1)) = Len(line) - 1
    <3> DEFINE k == Len(line) - 1
    <3>1. k \in Int /\ k <= Len(line) /\ 1 \in Nat \ {0} /\ k \in Nat
      BY <2>1
    <3> HIDE DEF k
    <3>2. /\ SubSeq(line, 1, k) \in Seq(Byte)
          /\ Len(SubSeq(line, 1, k)) = IF 1 <= k THEN k - 1 + 1 ELSE 0
      BY <3>1, PartIsSeq
    <3>3. SubSeq(line, 1, k) \in Seq(Byte) /\ Len(SubSeq(line, 1, k)) = k
      BY <3>1, <3>2
    <3> QED BY <3>3 DEF k
  <2>4. line = SubSeq(line, 1, Len(line) - 1) \o <<CR>>
    <3>1. SubSeq(line, 1, Len(line)) = SubSeq(line, 1, Len(line) - 1) \o <<line[Len(line)]>>
      <4>1. 1 \in 1 .. Len(line) /\ Len(line) \in 1 .. Len(line)
        BY <2>1
      <4> QED BY <4>1, SubSeqRecursiveSecond
    <3> QED BY <2>1, <3>1, SubSeqFull
  <2> QED BY <1>1, <2>2, <2>3, <2>4
<1>3. CASE ~EndsInCR(line)
  BY <1>3 DEF Stripped
<1> QED BY SMTT(30), <1>2, <1>3

LEMMA EndsAre ==
    ASSUME NEW bytes \in Seq(Byte)
    PROVE  /\ Len(bytes) \in Nat
           /\ Ends(bytes) = {n \in 1 .. Len(bytes) : bytes[n] = LF}
           /\ Ends(bytes) \in SUBSET (1 .. Len(bytes))
           /\ IsFiniteSet(Ends(bytes)) /\ Cardinality(Ends(bytes)) \in Nat
<1>1. Len(bytes) \in Nat /\ DOMAIN bytes = 1 .. Len(bytes)
  BY LenProperties
<1>2. Ends(bytes) = {n \in 1 .. Len(bytes) : bytes[n] = LF}
  BY <1>1 DEF Ends
<1>3. Ends(bytes) \in SUBSET (1 .. Len(bytes))
  BY <1>2
<1> QED BY <1>1, <1>2, <1>3, UpToIsFinite

\* Two numbers with as many below them are the same.
LEMMA NthUnique ==
    ASSUME NEW k \in Nat, NEW S \in SUBSET (1 .. k), NEW x \in S, NEW y \in S,
           Cardinality(UpTo(S, x)) = Cardinality(UpTo(S, y))
    PROVE  x = y
<1> SUFFICES ASSUME NEW u \in S, NEW v \in S, u < v,
                    Cardinality(UpTo(S, u)) = Cardinality(UpTo(S, v))
             PROVE  FALSE
  <2>1. x \in Nat /\ y \in Nat
    OBVIOUS
  <2> QED BY <2>1
<1>1. u \in Nat /\ v \in Nat
  OBVIOUS
<1>2. IsFiniteSet(UpTo(S, v))
  BY <1>1, UpToIsFinite
<1>3. UpTo(S, u) \in SUBSET UpTo(S, v)
  <2> SUFFICES ASSUME NEW z \in UpTo(S, u)
               PROVE  z \in UpTo(S, v)
    OBVIOUS
  <2>1. z \in S /\ z <= u
    BY DEF UpTo
  <2>2. z <= v
    BY <1>1, <2>1
  <2> QED BY <2>1, <2>2 DEF UpTo
<1>4. v \in UpTo(S, v) /\ v \notin UpTo(S, u)
  BY <1>1 DEF UpTo
<1> QED BY <1>2, <1>3, <1>4, FS_Subset

LEMMA NthEndIs ==
    ASSUME NEW bytes \in Seq(Byte), NEW n \in 1 .. Cardinality(Ends(bytes))
    PROVE  /\ NthEnd(bytes, n) \in Ends(bytes)
           /\ Cardinality(UpTo(Ends(bytes), NthEnd(bytes, n))) = n
<1>1. \E x \in Ends(bytes) : Cardinality(UpTo(Ends(bytes), x)) = n
  BY ZenonT(40), EndsAre, NthExists
<1>2. NthEnd(bytes, n) = CHOOSE x \in Ends(bytes) : Cardinality(UpTo(Ends(bytes), x)) = n
  BY Zenon DEF NthEnd, UpTo
<1> QED BY <1>1, <1>2, Zenon

LEMMA BeforeIs ==
    ASSUME NEW bytes \in Seq(Byte), NEW end \in Nat
    PROVE  /\ Max({n \in Ends(bytes) : n < end} \cup {0}) \in 0 .. Len(bytes)
           /\ end > 0 => Max({n \in Ends(bytes) : n < end} \cup {0}) < end
           /\ LineTo(bytes, end) = SubSeq(bytes, 1 + Max({n \in Ends(bytes) : n < end} \cup {0}), end - 1)
<1> DEFINE S == {n \in Ends(bytes) : n < end} \cup {0}
<1>1. S \in SUBSET (0 .. Len(bytes)) /\ S # {} /\ Len(bytes) \in Nat
  BY EndsAre
<1>2. Max(S) \in S
  <2> HIDE DEF S
  <2> QED BY <1>1, MaxIs
<1>3. Max(S) = 0 \/ Max(S) < end
  BY <1>2
<1>4. LineTo(bytes, end) = SubSeq(bytes, 1 + Max(S), end - 1)
  BY DEF LineTo
<1>5. Max(S) \in 0 .. Len(bytes)
  BY <1>1, <1>2
<1> HIDE DEF S
<1> QED BY <1>3, <1>4, <1>5 DEF S

LEMMA RestIs ==
    ASSUME NEW bytes \in Seq(Byte)
    PROVE  /\ Max(Ends(bytes) \cup {0}) \in Ends(bytes) \cup {0}
           /\ Max(Ends(bytes) \cup {0}) \in 0 .. Len(bytes)
           /\ \A n \in Ends(bytes) : n <= Max(Ends(bytes) \cup {0})
           /\ Rest(bytes) \in Seq(Byte)
           /\ Len(Rest(bytes)) = Len(bytes) - Max(Ends(bytes) \cup {0})
<1> DEFINE S    == Ends(bytes) \cup {0}
           last == Max(S)
<1>1. S \in SUBSET (0 .. Len(bytes)) /\ S # {} /\ Len(bytes) \in Nat
  BY EndsAre
<1>2. last \in S /\ \A n \in S : last >= n
  <2> HIDE DEF S
  <2> QED BY <1>1, MaxIs
<1>3. last \in 0 .. Len(bytes)
  BY <1>1, <1>2
<1>4. Rest(bytes) = SubSeq(bytes, 1 + last, Len(bytes))
  BY DEF Rest
<1>5. \A n \in Ends(bytes) : n <= last
  <2> HIDE DEF last
  <2> SUFFICES ASSUME NEW n \in Ends(bytes)
               PROVE  n <= last
    OBVIOUS
  <2>1. n \in S /\ n \in Nat
    BY <1>1
  <2>2. last >= n
    BY <1>2, <2>1
  <2> QED BY <1>1, <1>3, <2>1, <2>2
<1> HIDE DEF last
<1>6. /\ SubSeq(bytes, 1 + last, Len(bytes)) \in Seq(Byte)
      /\ Len(SubSeq(bytes, 1 + last, Len(bytes))) = Len(bytes) - last
  <2> DEFINE first == 1 + last
  <2>1. first \in Nat \ {0} /\ Len(bytes) \in Int /\ Len(bytes) <= Len(bytes)
    BY <1>1, <1>3
  <2> HIDE DEF first
  <2>2. /\ SubSeq(bytes, first, Len(bytes)) \in Seq(Byte)
        /\ Len(SubSeq(bytes, first, Len(bytes)))
              = IF first <= Len(bytes) THEN Len(bytes) - first + 1 ELSE 0
    BY <2>1, PartIsSeq
  <2> QED BY <1>1, <1>3, <2>2 DEF first
<1> QED BY <1>2, <1>3, <1>4, <1>5, <1>6 DEF last

\* Bytes that follow do not change where lines end, nor the lines before them.
LEMMA EndsOfConcat ==
    ASSUME NEW bytes \in Seq(Byte), NEW more \in Seq(Byte)
    PROVE  LET T == {Len(bytes) + n : n \in Ends(more)}
           IN  /\ Ends(bytes \o more) = Ends(bytes) \cup T
               /\ T \in SUBSET (Len(bytes) + 1 .. Len(bytes) + Len(more))
               /\ \A end \in Ends(bytes) :
                     {n \in Ends(bytes \o more) : n < end} = {n \in Ends(bytes) : n < end}
<1> DEFINE k == Len(bytes)
           l == Len(more)
           both == bytes \o more
           T == {k + n : n \in Ends(more)}
<1>1. k \in Nat /\ l \in Nat
  BY LenProperties
<1>2. both \in Seq(Byte) /\ Len(both) = k + l
      /\ \A i \in 1 .. k + l : both[i] = IF i <= k THEN bytes[i] ELSE more[i - k]
  BY ConcatProperties
<1>3. Ends(bytes) = {n \in 1 .. k : bytes[n] = LF} /\ Ends(more) = {n \in 1 .. l : more[n] = LF}
  BY EndsAre
<1>4. Ends(both) = {n \in 1 .. k + l : both[n] = LF}
  BY <1>2, EndsAre
<1> HIDE DEF k, l, both
<1>5. ASSUME NEW n \in Ends(both)
      PROVE  n \in Ends(bytes) \cup T
  <2>1. CASE n <= k
    BY <1>1, <1>2, <1>3, <1>4, <2>1
  <2>2. CASE ~(n <= k)
    <3>1. n - k \in 1 .. l /\ more[n - k] = LF /\ n = k + (n - k)
      BY <1>1, <1>2, <1>4, <2>2
    <3> QED BY <1>3, <3>1
  <2> QED BY <2>1, <2>2
<1>6. ASSUME NEW n \in Ends(bytes)
      PROVE  n \in Ends(both)
  <2>1. n \in 1 .. k + l /\ n <= k /\ bytes[n] = LF
    BY <1>1, <1>3
  <2> QED BY <1>2, <1>4, <2>1
<1>7. ASSUME NEW n \in T
      PROVE  n \in Ends(both) /\ n \in k + 1 .. k + l
  <2>1. PICK i \in Ends(more) : n = k + i
    OBVIOUS
  <2>2. i \in 1 .. l /\ more[i] = LF
    BY <1>3
  <2>3. n \in 1 .. k + l /\ ~(n <= k) /\ n - k = i /\ n \in k + 1 .. k + l
    BY <1>1, <2>1, <2>2
  <2> QED BY <1>2, <1>4, <2>2, <2>3
<1> HIDE DEF T
<1>8. Ends(both) = Ends(bytes) \cup T
  BY <1>5, <1>6, <1>7
<1>9. ASSUME NEW end \in Ends(bytes)
      PROVE  {n \in Ends(both) : n < end} = {n \in Ends(bytes) : n < end}
  <2>1. \A n \in T : ~(n < end)
    BY <1>1, <1>3, <1>7
  <2> QED BY <1>8, <2>1
<1>10. T \in SUBSET (k + 1 .. k + l)
  BY <1>7
<1> QED BY <1>8, <1>9, <1>10 DEF T, k, l, both

LEMMA LinesAre ==
    ASSUME NEW bytes \in Seq(Byte)
    PROVE  /\ Lines(bytes) \in Seq(Seq(Byte))
           /\ Len(Lines(bytes)) = Cardinality(Ends(bytes))
           /\ \A n \in 1 .. Cardinality(Ends(bytes)) :
                 Lines(bytes)[n] = Stripped(LineTo(bytes, NthEnd(bytes, n)))
<1> DEFINE k == Cardinality(Ends(bytes))
<1>1. k \in Nat
  BY EndsAre
<1>2. ASSUME NEW n \in 1 .. k
      PROVE  Stripped(LineTo(bytes, NthEnd(bytes, n))) \in Seq(Byte)
  <2> DEFINE end == NthEnd(bytes, n)
             first == 1 + Max({m \in Ends(bytes) : m < end} \cup {0})
  <2>1. end \in 1 .. Len(bytes) /\ Len(bytes) \in Nat
    BY NthEndIs, EndsAre
  <2> HIDE DEF end
  <2>2. end \in Nat /\ end - 1 \in Int /\ end - 1 <= Len(bytes)
    BY <2>1
  <2>3. Max({m \in Ends(bytes) : m < end} \cup {0}) \in 0 .. Len(bytes)
        /\ LineTo(bytes, end) = SubSeq(bytes, first, end - 1)
    BY <2>2, BeforeIs
  <2>4. first \in Nat \ {0}
    BY <2>1, <2>3
  <2> HIDE DEF first
  <2>5. LineTo(bytes, end) \in Seq(Byte)
    BY <2>2, <2>3, <2>4, PartIsSeq
  <2> QED BY <2>5, StrippedIs DEF end
<1>3. Lines(bytes) = [n \in 1 .. k |-> Stripped(LineTo(bytes, NthEnd(bytes, n)))]
  BY DEF Lines
<1> HIDE DEF k
<1>4. Lines(bytes) \in [1 .. k -> Seq(Byte)]
  BY <1>2, <1>3
<1>5. Lines(bytes) \in Seq(Seq(Byte)) /\ Len(Lines(bytes)) = k
  BY <1>1, <1>4
<1> QED BY <1>3, <1>5 DEF k

LEMMA NthEndStays ==
    ASSUME NEW bytes \in Seq(Byte), NEW more \in Seq(Byte), NEW n \in 1 .. Cardinality(Ends(bytes))
    PROVE  /\ n \in 1 .. Cardinality(Ends(bytes \o more))
           /\ NthEnd(bytes \o more, n) = NthEnd(bytes, n)
<1> DEFINE both == bytes \o more
           S == Ends(bytes)
           T == {Len(bytes) + m : m \in Ends(more)}
           end == NthEnd(bytes, n)
<1>1. both \in Seq(Byte) /\ Len(bytes) \in Nat /\ Len(bytes) + Len(more) \in Nat
  BY ConcatProperties, LenProperties
<1>2. Ends(both) = S \cup T /\ T \in SUBSET (Len(bytes) + 1 .. Len(bytes) + Len(more))
  BY EndsOfConcat
<1>3. S \in SUBSET (1 .. Len(bytes)) /\ Cardinality(S) \in Nat
  BY EndsAre
<1>4. end \in S /\ Cardinality(UpTo(S, end)) = n
  BY NthEndIs
<1> HIDE DEF S, T, end
<1>6. end \in Ends(both) /\ Cardinality(UpTo(Ends(both), end)) = n
  <2> DEFINE k == Len(bytes)
             l == Len(bytes) + Len(more)
  <2>1. k \in Nat /\ l \in Nat /\ S \in SUBSET (1 .. k) /\ T \in SUBSET (k + 1 .. l)
    BY <1>1, <1>2, <1>3
  <2> HIDE DEF k, l
  <2>2. UpTo(S \cup T, end) = UpTo(S, end)
    BY ZenonT(40), <1>4, <2>1, UpToStays
  <2> QED BY <1>2, <1>4, <2>2
<1>7. Ends(both) \in SUBSET (1 .. Len(both)) /\ Len(both) \in Nat
      /\ IsFiniteSet(Ends(both)) /\ Cardinality(Ends(both)) \in Nat
  BY <1>1, EndsAre
<1> HIDE DEF both
<1>8. n \in 1 .. Cardinality(Ends(both))
  <2>1. S \in SUBSET Ends(both)
    BY <1>2
  <2>2. Cardinality(S) <= Cardinality(Ends(both))
    BY <1>7, <2>1, FS_Subset
  <2> QED BY <1>3, <1>7, <2>2 DEF S
<1>9. NthEnd(both, n) \in Ends(both) /\ Cardinality(UpTo(Ends(both), NthEnd(both, n))) = n
  BY <1>1, <1>8, NthEndIs
<1>10. NthEnd(both, n) = end
  BY <1>6, <1>7, <1>9, NthUnique
<1> QED BY <1>8, <1>10 DEF both, end

LEMMA LinesStay ==
    ASSUME NEW bytes \in Seq(Byte), NEW more \in Seq(Byte), NEW n \in 1 .. Len(Lines(bytes))
    PROVE  n \in 1 .. Len(Lines(bytes \o more)) /\ Lines(bytes \o more)[n] = Lines(bytes)[n]
<1> DEFINE both == bytes \o more
           end == NthEnd(bytes, n)
           last == Max({m \in Ends(bytes) : m < end} \cup {0})
<1>1. both \in Seq(Byte) /\ Len(bytes) \in Nat
  BY ConcatProperties, LenProperties
<1>2. n \in 1 .. Cardinality(Ends(bytes)) /\ Lines(bytes)[n] = Stripped(LineTo(bytes, end))
  BY LinesAre
<1>3. n \in 1 .. Cardinality(Ends(both)) /\ NthEnd(both, n) = end
  BY <1>2, NthEndStays
<1>4. end \in Ends(bytes) /\ end \in 1 .. Len(bytes)
  BY <1>2, NthEndIs, EndsAre
<1>5. n \in 1 .. Len(Lines(both)) /\ Lines(both)[n] = Stripped(LineTo(both, end))
  BY <1>1, <1>3, LinesAre
<1> HIDE DEF both, end
<1>6. LineTo(both, end) = LineTo(bytes, end)
  <2>1. {m \in Ends(both) : m < end} = {m \in Ends(bytes) : m < end}
    BY <1>4, EndsOfConcat DEF both
  <2>2. end \in Nat
    BY <1>1, <1>4
  <2>3. LineTo(both, end) = SubSeq(both, 1 + last, end - 1)
        /\ LineTo(bytes, end) = SubSeq(bytes, 1 + last, end - 1) /\ last \in 0 .. Len(bytes)
    BY <1>1, <2>1, <2>2, BeforeIs
  <2> DEFINE first == 1 + last
  <2>4. first \in Nat \ {0} /\ end - 1 \in 0 .. Len(bytes)
    BY <1>1, <1>4, <2>3
  <2> HIDE DEF last
  <2>5. LineTo(both, end) = SubSeq(both, first, end - 1)
        /\ LineTo(bytes, end) = SubSeq(bytes, first, end - 1)
    BY <2>3
  <2> HIDE DEF first
  <2>6. SubSeq(both, first, end - 1) = SubSeq(bytes, first, end - 1)
    BY <2>4, PartOfFirst DEF both
  <2> QED BY <2>5, <2>6
<1> QED BY <1>2, <1>5, <1>6 DEF both

\* Bytes without an end only lengthen the rest.
LEMMA NoEnd ==
    ASSUME NEW bytes \in Seq(Byte), NEW more \in Seq(Byte), \A n \in 1 .. Len(more) : more[n] # LF
    PROVE  Lines(bytes \o more) = Lines(bytes) /\ Rest(bytes \o more) = Rest(bytes) \o more
<1> DEFINE both == bytes \o more
           last == Max(Ends(bytes) \cup {0})
           k == Len(bytes)
           l == Len(more)
<1>1. both \in Seq(Byte) /\ Len(both) = k + l /\ k \in Nat /\ l \in Nat
  BY ConcatProperties, LenProperties
<1>2. Ends(both) = Ends(bytes)
  <2> DEFINE T == {Len(bytes) + n : n \in Ends(more)}
  <2>1. Ends(more) = {}
    BY EndsAre
  <2>2. T = {}
    BY <2>1
  <2>3. Ends(both) = Ends(bytes) \cup T
    BY EndsOfConcat
  <2> HIDE DEF T, both
  <2> QED BY <2>2, <2>3
<1>3. Lines(both) = Lines(bytes)
  <2>1. Lines(both) \in Seq(Seq(Byte)) /\ Lines(bytes) \in Seq(Seq(Byte))
        /\ Len(Lines(both)) = Len(Lines(bytes))
    BY <1>1, <1>2, LinesAre
  <2>2. \A n \in 1 .. Len(Lines(both)) : Lines(both)[n] = Lines(bytes)[n]
    BY <2>1, LinesStay
  <2> HIDE DEF both
  <2> QED BY <2>1, <2>2, SeqEqual
<1>4. last \in 0 .. k
  BY RestIs
<1>5. Rest(both) = SubSeq(both, 1 + last, k + l) /\ Rest(bytes) = SubSeq(bytes, 1 + last, k)
  BY <1>1, <1>2 DEF Rest
<1>6. SubSeq(both, 1 + last, k + l) = SubSeq(both, 1 + last, k) \o SubSeq(both, k + 1, k + l)
  <2> DEFINE m == 1 + last
             n == k + l
  <2> HIDE DEF both, last
  <2>1. m \in 1 .. Len(both) + 1 /\ k \in m - 1 .. Len(both) /\ n \in k .. Len(both)
    BY <1>1, <1>4
  <2> HIDE DEF k, m, n
  <2>2. SubSeq(both, m, k) \o SubSeq(both, k + 1, n) = SubSeq(both, m, n)
    BY <1>1, <2>1, ConcatAdjacentSubSeq
  <2> QED BY <2>2 DEF m, n
<1>7. SubSeq(both, 1 + last, k) = SubSeq(bytes, 1 + last, k)
  <2> DEFINE m == 1 + last
  <2>1. m \in Nat \ {0} /\ k \in 0 .. Len(bytes)
    BY <1>1, <1>4
  <2> HIDE DEF m
  <2>2. SubSeq(both, m, k) = SubSeq(bytes, m, k)
    BY <2>1, PartOfFirst
  <2> QED BY <2>2 DEF m
<1>8. SubSeq(both, k + 1, k + l) = more
  <2>1. CASE l = 0
    <3>1. more = << >>
      BY <2>1, EmptySeq
    <3>2. k + 1 \in Int /\ k + l \in Int /\ k + l < k + 1
      BY <1>1, <2>1
    <3>3. SubSeq(both, k + 1, k + l) = << >>
      <4> HIDE DEF both, k, l
      <4> QED BY <3>2, SubSeqEmpty
    <3> QED BY <3>1, <3>3
  <2>2. CASE l > 0
    <3> DEFINE m == k + 1
               n == k + l
    <3>1. m \in Len(bytes) + 1 .. Len(bytes) + Len(more) /\ n \in Len(bytes) + 1 .. Len(bytes) + Len(more)
          /\ m - Len(bytes) = 1 /\ n - Len(bytes) = l
      BY <1>1, <2>2
    <3> HIDE DEF m, n
    <3>2. SubSeq(both, m, n) = SubSeq(more, m - Len(bytes), n - Len(bytes))
      BY <3>1, SubSeqOfConcat2
    <3>3. SubSeq(both, m, n) = SubSeq(more, 1, Len(more))
      BY <3>1, <3>2
    <3>4. SubSeq(more, 1, Len(more)) = more
      BY SubSeqFull
    <3> QED BY <3>3, <3>4 DEF m, n
  <2> QED BY <1>1, <2>1, <2>2
<1> QED BY <1>3, <1>5, <1>6, <1>7, <1>8

\* An end makes a line of the rest.
LEMMA OneEnd ==
    ASSUME NEW bytes \in Seq(Byte)
    PROVE  /\ Lines(Append(bytes, LF)) = Append(Lines(bytes), Stripped(Rest(bytes)))
           /\ Rest(Append(bytes, LF)) = << >>
<1> DEFINE both == Append(bytes, LF)
           k == Len(bytes)
           c == Cardinality(Ends(bytes))
<1>1. both \in Seq(Byte) /\ Len(both) = k + 1 /\ k \in Nat /\ both = bytes \o <<LF>>
      /\ (\A n \in 1 .. k : both[n] = bytes[n]) /\ both[k + 1] = LF
  <2>1. LF \in Byte
    BY Constants
  <2> QED BY <2>1, AppendProperties, AppendIsConcat, LenProperties
<1>2. Ends(both) = Ends(bytes) \cup {k + 1}
  <2>1. Ends(both) = {n \in 1 .. k + 1 : both[n] = LF} /\ Ends(bytes) = {n \in 1 .. k : bytes[n] = LF}
    BY <1>1, EndsAre
  <2> HIDE DEF both, k
  <2>2. ASSUME NEW n \in 1 .. k + 1
        PROVE  n \in 1 .. k \/ n = k + 1
    BY <1>1
  <2> QED BY <1>1, <2>1, <2>2
<1>3. Ends(bytes) \in SUBSET (1 .. k) /\ IsFiniteSet(Ends(bytes)) /\ c \in Nat
  BY EndsAre
<1>4. Cardinality(Ends(both)) = c + 1
  <2>1. k + 1 \notin Ends(bytes)
    BY <1>1, <1>3
  <2> HIDE DEF both, k
  <2> QED BY <1>2, <1>3, <2>1, FS_AddElement
<1>5. \A n \in 1 .. c : Lines(both)[n] = Lines(bytes)[n]
  <2>1. <<LF>> \in Seq(Byte)
    BY Constants
  <2>2. Len(Lines(bytes)) = c
    BY LinesAre
  <2> SUFFICES ASSUME NEW n \in 1 .. c
               PROVE  Lines(both)[n] = Lines(bytes)[n]
    OBVIOUS
  <2>3. n \in 1 .. Len(Lines(bytes))
    BY <2>2
  <2>4. Lines(bytes \o <<LF>>)[n] = Lines(bytes)[n]
    BY <2>1, <2>3, LinesStay
  <2> QED BY <1>1, <2>4
<1>6. NthEnd(both, c + 1) = k + 1
  <2> DEFINE S == Ends(both)
             x == NthEnd(both, c + 1)
             n == c + 1
  <2>1. S \in SUBSET (1 .. k + 1) /\ k + 1 \in Nat /\ k + 1 \in S
    BY <1>1, <1>2, EndsAre
  <2>2. n \in 1 .. Cardinality(Ends(both))
    BY <1>3, <1>4
  <2> HIDE DEF n, both
  <2>3. NthEnd(both, n) \in Ends(both) /\ Cardinality(UpTo(Ends(both), NthEnd(both, n))) = n
    BY <1>1, <2>2, NthEndIs
  <2>4. x \in S /\ Cardinality(UpTo(S, x)) = c + 1
    BY <2>3 DEF n
  <2>5. UpTo(S, k + 1) = S
    <3>1. \A y \in S : y <= k + 1
      BY <2>1
    <3> HIDE DEF S
    <3> QED BY <3>1 DEF UpTo
  <2>6. Cardinality(UpTo(S, k + 1)) = c + 1
    BY <1>4, <2>5
  <2> HIDE DEF S, x, k, c
  <2>7. x = k + 1
    <3> DEFINE j == k + 1
    <3>1. S \in SUBSET (1 .. j) /\ j \in Nat /\ j \in S
          /\ Cardinality(UpTo(S, x)) = Cardinality(UpTo(S, j))
      BY <2>1, <2>4, <2>6
    <3> HIDE DEF j
    <3>2. x = j
      BY <2>4, <3>1, NthUnique
    <3> QED BY <3>2 DEF j
  <2> QED BY <2>7 DEF x
<1>7. LineTo(both, k + 1) = Rest(bytes)
  <2> DEFINE last == Max(Ends(bytes) \cup {0})
  <2>1. {n \in Ends(both) : n < k + 1} = Ends(bytes)
    <3>1. \A n \in Ends(bytes) : n < k + 1
      BY <1>1, <1>3
    <3>2. ~(k + 1 < k + 1)
      BY <1>1
    <3> HIDE DEF both, k
    <3> QED BY <1>2, <3>1, <3>2
  <2>2. k + 1 - 1 = k
    BY <1>1
  <2>3. LineTo(both, k + 1) = SubSeq(both, 1 + last, k)
    <3> DEFINE j == k + 1
    <3>1. j \in Nat /\ j - 1 = k /\ {n \in Ends(both) : n < j} = Ends(bytes)
      BY <1>1, <2>1
    <3> HIDE DEF j, k
    <3>2. LineTo(both, j) = SubSeq(both, 1 + Max(Ends(bytes) \cup {0}), j - 1)
      BY <1>1, <3>1, BeforeIs
    <3> QED BY <3>1, <3>2 DEF j
  <2>4. Rest(bytes) = SubSeq(bytes, 1 + last, k)
    BY DEF Rest
  <2>5. last \in 0 .. k
    BY RestIs
  <2> DEFINE m == 1 + last
  <2>6. m \in Nat \ {0} /\ k \in 0 .. Len(bytes) /\ <<LF>> \in Seq(Byte)
    BY <1>1, <2>5, Constants
  <2> HIDE DEF last
  <2>7. LineTo(both, k + 1) = SubSeq(both, m, k) /\ Rest(bytes) = SubSeq(bytes, m, k)
    BY <2>3, <2>4
  <2> HIDE DEF m
  <2>8. SubSeq(bytes \o <<LF>>, m, k) = SubSeq(bytes, m, k)
    BY <2>6, PartOfFirst
  <2> QED BY <1>1, <2>7, <2>8
<1>8. Lines(both) = Append(Lines(bytes), Stripped(Rest(bytes)))
  <2> DEFINE one  == Lines(both)
             many == Append(Lines(bytes), Stripped(Rest(bytes)))
  <2>1. Lines(bytes) \in Seq(Seq(Byte)) /\ Len(Lines(bytes)) = c
    BY LinesAre
  <2>2. Stripped(Rest(bytes)) \in Seq(Byte)
    BY RestIs, StrippedIs
  <2>3. /\ many \in Seq(Seq(Byte)) /\ Len(many) = c + 1
        /\ \A n \in 1 .. c : many[n] = Lines(bytes)[n]
        /\ many[c + 1] = Stripped(Rest(bytes))
    <3> HIDE DEF c
    <3> QED BY <2>1, <2>2, AppendProperties
  <2>4. /\ one \in Seq(Seq(Byte)) /\ Len(one) = c + 1
        /\ one[c + 1] = Stripped(LineTo(both, NthEnd(both, c + 1)))
    <3>1. c + 1 \in 1 .. c + 1
      BY <1>3
    <3> HIDE DEF c, both
    <3> QED BY <1>1, <1>4, <3>1, LinesAre
  <2>5. one[c + 1] = Stripped(Rest(bytes))
    BY <1>6, <1>7, <2>4
  <2> HIDE DEF one, many, c
  <2>6. \A n \in 1 .. c + 1 : n \in 1 .. c \/ n = c + 1
    BY <1>3
  <2>7. \A n \in 1 .. Len(one) : one[n] = many[n]
    BY <1>5, <2>3, <2>4, <2>5, <2>6 DEF one
  <2>8. one = many
    BY <2>3, <2>4, <2>7, SeqEqual
  <2> QED BY <2>8 DEF one, many
<1>9. Rest(both) = << >>
  <2>1. Max(Ends(both) \cup {0}) = k + 1
    <3>1. Max(Ends(both) \cup {0}) \in 0 .. k + 1 /\ k + 1 <= Max(Ends(both) \cup {0})
      BY <1>1, <1>2, RestIs
    <3> QED BY <1>1, <3>1
  <2>2. Rest(both) \in Seq(Byte) /\ Len(Rest(both)) = Len(both) - Max(Ends(both) \cup {0})
    <3> HIDE DEF both
    <3> QED BY <1>1, RestIs
  <2>3. Len(Rest(both)) = 0
    <3> HIDE DEF both, k
    <3> QED BY <1>1, <2>1, <2>2
  <2> QED BY <2>2, <2>3, EmptySeq
<1> QED BY <1>8, <1>9

LEMMA MinIs ==
    ASSUME NEW S, S \subseteq Nat, S # {}
    PROVE  Min(S) \in S /\ \A x \in S : Min(S) <= x
<1>1. \E x \in S : \A y \in S : x <= y
  BY LeastElement
<1> QED BY <1>1 DEF Min

\* A line more: printed, unless one before it asked to stop.
LEMMA LineMore ==
    ASSUME NEW lines \in Seq(Seq(Byte)), NEW l \in Seq(Byte)
    PROVE  /\ HasStop(Append(lines, l)) = (HasStop(lines) \/ l = Disconnect)
           /\ ~HasStop(lines) => UpToStop(lines) = lines /\ UpToStop(Append(lines, l)) = Append(lines, l)
           /\ HasStop(lines) => UpToStop(Append(lines, l)) = UpToStop(lines)
<1> DEFINE k == Len(lines)
           more == Append(lines, l)
           stops == {n \in DOMAIN lines : lines[n] = Disconnect}
           stops2 == {n \in DOMAIN more : more[n] = Disconnect}
<1>1. k \in Nat /\ DOMAIN lines = 1 .. k
  BY LenProperties
<1>2. more \in Seq(Seq(Byte)) /\ Len(more) = k + 1 /\ more = lines \o <<l>>
      /\ (\A n \in 1 .. k : more[n] = lines[n]) /\ more[k + 1] = l
  BY AppendProperties, AppendIsConcat
<1>3. DOMAIN more = 1 .. k + 1
  <2> HIDE DEF more, k
  <2> QED BY <1>2, LenProperties
<1>4. \A n \in 1 .. k + 1 : n \in 1 .. k \/ n = k + 1
  BY <1>1
<1>5. HasStop(lines) = (stops # {}) /\ HasStop(more) = (stops2 # {})
  <2>1. HasStop(lines) <=> stops # {}
    BY DEF HasStop
  <2>2. HasStop(more) <=> stops2 # {}
    <3> HIDE DEF more
    <3> QED BY DEF HasStop
  <2>3. HasStop(lines) \in BOOLEAN /\ HasStop(more) \in BOOLEAN
    BY DEF HasStop
  <2> QED BY <2>1, <2>2, <2>3
<1>6. UpToStop(lines) = IF stops = {} THEN lines ELSE SubSeq(lines, 1, Min(stops))
  BY DEF UpToStop
<1>7. UpToStop(more) = IF stops2 = {} THEN more ELSE SubSeq(more, 1, Min(stops2))
  <2> HIDE DEF more
  <2> QED BY DEF UpToStop
<1>8. stops \subseteq 1 .. k /\ stops2 = stops \cup (IF l = Disconnect THEN {k + 1} ELSE {})
  <2> HIDE DEF more
  <2>1. \A n \in 1 .. k : n \in 1 .. k + 1 /\ n # k + 1
    BY <1>1
  <2>2. k + 1 \in 1 .. k + 1
    BY <1>1
  <2> HIDE DEF k
  <2> QED BY <1>1, <1>2, <1>3, <1>4, <2>1, <2>2
<1> HIDE DEF more, stops, stops2
<1>9. (stops2 # {}) = (stops # {} \/ l = Disconnect)
  <2> HIDE DEF k
  <2> QED BY <1>8
<1>10. HasStop(more) = (HasStop(lines) \/ l = Disconnect)
  BY <1>5, <1>9
<1>11. CASE stops = {}
  <2>1. UpToStop(lines) = lines
    BY <1>6, <1>11
  <2>2. CASE l # Disconnect
    <3>1. stops2 = {}
      BY <1>8, <1>11, <2>2
    <3> QED BY <1>5, <1>7, <1>10, <1>11, <2>1, <3>1 DEF more
  <2>3. CASE l = Disconnect
    <3>1. stops2 = {k + 1}
      BY <1>8, <1>11, <2>3
    <3>2. Min(stops2) = k + 1
      <4>1. stops2 \subseteq Nat /\ stops2 # {}
        BY <1>1, <3>1
      <4> QED BY <3>1, <4>1, MinIs
    <3>3. UpToStop(more) = SubSeq(more, 1, Len(more))
      BY <1>2, <1>7, <3>1, <3>2
    <3>4. UpToStop(more) = more
      BY <1>2, <3>3, SubSeqFull
    <3> QED BY <1>5, <1>10, <1>11, <2>1, <3>4 DEF more
  <2> QED BY <2>2, <2>3
<1>12. CASE stops # {}
  <2>1. stops \subseteq Nat /\ stops2 \subseteq Nat /\ stops2 # {}
    <3>1. \A x \in 1 .. k : x \in Nat
      OBVIOUS
    <3>2. k + 1 \in Nat
      BY <1>1
    <3>3. (IF l = Disconnect THEN {k + 1} ELSE {}) \subseteq {k + 1}
      OBVIOUS
    <3> HIDE DEF k
    <3>4. stops2 \subseteq stops \cup {k + 1} /\ stops \subseteq stops2
      BY <1>8, <3>3
    <3> QED BY <1>8, <1>12, <3>1, <3>2, <3>4
  <2>2. Min(stops) \in stops /\ \A x \in stops : Min(stops) <= x
    BY <1>12, <2>1, MinIs
  <2>3. Min(stops2) \in stops2 /\ \A x \in stops2 : Min(stops2) <= x
    BY <2>1, MinIs
  <2>4. Min(stops) \in stops2 /\ Min(stops) \in 1 .. k
    BY <1>8, <2>2
  <2>5. Min(stops2) \in stops
    <3>1. Min(stops2) <= Min(stops)
      BY <2>3, <2>4
    <3>2. Min(stops2) # k + 1
      BY <1>1, <2>4, <3>1
    <3> QED BY <1>8, <2>3, <3>2
  <2>6. Min(stops2) = Min(stops)
    <3>1. Min(stops2) <= Min(stops) /\ Min(stops) <= Min(stops2)
      BY <2>2, <2>3, <2>4, <2>5
    <3>2. Min(stops2) \in Nat /\ Min(stops) \in Nat
      BY <2>1, <2>2, <2>3
    <3> QED BY <3>1, <3>2
  <2>7. UpToStop(more) = SubSeq(lines \o <<l>>, 1, Min(stops)) /\ UpToStop(lines) = SubSeq(lines, 1, Min(stops))
    BY <1>2, <1>6, <1>7, <1>12, <2>1, <2>6
  <2> DEFINE n == Min(stops)
  <2>8. n \in 0 .. Len(lines) /\ <<l>> \in Seq(Seq(Byte)) /\ 1 \in Nat \ {0}
    BY <1>1, <2>4
  <2> HIDE DEF n
  <2>9. SubSeq(lines \o <<l>>, 1, n) = SubSeq(lines, 1, n)
    BY <2>8, PartOfFirst
  <2> QED BY <1>5, <1>10, <1>12, <2>7, <2>9 DEF more, n
<1> QED BY <1>11, <1>12

LEMMA FitsBefore ==
    ASSUME NEW bytes \in Seq(Byte), NEW more \in Seq(Byte), LinesFit(bytes \o more)
    PROVE  LinesFit(bytes)
<1> DEFINE both == bytes \o more
           k == Len(bytes)
           l == Len(more)
<1>1. k \in Nat /\ l \in Nat /\ LineSize \in Nat
  BY LenProperties, Constants
<1>2. Len(both) = k + l /\ \A m \in 1 .. k : both[m] = bytes[m]
  <2>1. Len(both) = k + l /\ \A m \in 1 .. k + l : both[m] = IF m <= k THEN bytes[m] ELSE more[m - k]
    BY ConcatProperties
  <2> HIDE DEF both
  <2>2. \A m \in 1 .. k : m \in 1 .. k + l /\ m <= k
    BY <1>1
  <2> QED BY <2>1, <2>2
<1>3. \A n \in 1 .. Len(both) - LineSize : \E m \in n .. n + LineSize : both[m] = LF
  BY DEF LinesFit
<1> HIDE DEF both
<1>4. ASSUME NEW n \in 1 .. k - LineSize
      PROVE  \E m \in n .. n + LineSize : bytes[m] = LF
  <2>1. n \in 1 .. Len(both) - LineSize
    BY <1>1, <1>2
  <2>2. PICK m \in n .. n + LineSize : both[m] = LF
    BY <1>3, <2>1
  <2>3. m \in 1 .. k
    BY <1>1
  <2> QED BY <1>2, <2>2, <2>3
<1> QED BY <1>4 DEF LinesFit

LEMMA RestFits ==
    ASSUME NEW bytes \in Seq(Byte), NEW b \in Byte, b # LF, LinesFit(Append(bytes, b))
    PROVE  Len(Rest(bytes)) < LineSize
<1> DEFINE both == Append(bytes, b)
           k == Len(bytes)
           last == Max(Ends(bytes) \cup {0})
<1>1. Len(both) = k + 1 /\ (\A m \in 1 .. k : both[m] = bytes[m]) /\ both[k + 1] = b
      /\ k \in Nat /\ LineSize \in Nat \ {0}
  BY AppendProperties, LenProperties, Constants
<1>2. last \in 0 .. k /\ Len(Rest(bytes)) = k - last /\ \A m \in Ends(bytes) : m <= last
  BY RestIs
<1>3. Ends(bytes) = {m \in 1 .. k : bytes[m] = LF}
  BY EndsAre
<1>4. \A n \in 1 .. Len(both) - LineSize : \E m \in n .. n + LineSize : both[m] = LF
  BY DEF LinesFit
<1> HIDE DEF both, k, last
<1>5. ASSUME k - last >= LineSize
      PROVE  FALSE
  <2> DEFINE n == k + 1 - LineSize
  <2>1. n \in 1 .. Len(both) - LineSize /\ n + LineSize = k + 1 /\ n > last /\ n \in Nat
    BY <1>1, <1>2, <1>5
  <2> HIDE DEF n
  <2>2. PICK m \in n .. n + LineSize : both[m] = LF
    BY <1>4, <2>1
  <2>3. m # k + 1
    BY <1>1, <2>2
  <2>4. m \in 1 .. k /\ m > last
    BY <1>1, <1>2, <2>1, <2>3
  <2>5. m \in Ends(bytes)
    BY <1>1, <1>3, <2>2, <2>4
  <2> QED BY <1>2, <2>4, <2>5
<1> QED BY <1>1, <1>2, <1>5

----------------------------------------------------------------------------
(***************************************************************************)
(* The loop of the server takes a byte more, and then many.                *)
(***************************************************************************)

LEMMA LengthenIs ==
    ASSUME NEW c \in Cutters, NEW b \in Byte, Len(c.line) <= LineSize
    PROVE  /\ Lengthen(c, b) \in Cutters /\ Len(Lengthen(c, b).line) <= LineSize
           /\ Lengthen(c, b).printed = c.printed /\ Lengthen(c, b).requested = c.requested
           /\ Len(c.line) < LineSize => Lengthen(c, b).line = Append(c.line, b)
<1> DEFINE line == IF Len(c.line) < LineSize THEN Append(c.line, b) ELSE << >>
<1>1. c.line \in Seq(Byte) /\ Len(c.line) \in Nat /\ LineSize \in Nat \ {0}
  BY Constants, LenProperties DEF Cutters
<1>2. line \in Seq(Byte) /\ Len(line) <= LineSize
  <2>1. CASE Len(c.line) < LineSize
    <3>1. line = Append(c.line, b)
      BY <2>1
    <3>2. Append(c.line, b) \in Seq(Byte) /\ Len(Append(c.line, b)) = Len(c.line) + 1
      BY <1>1, AppendProperties
    <3> QED BY <1>1, <2>1, <3>1, <3>2
  <2>2. CASE ~(Len(c.line) < LineSize)
    <3>1. line = << >>
      BY <2>2
    <3> QED BY <1>1, <3>1, EmptySeq
  <2> QED BY <2>1, <2>2
<1>3. Len(c.line) < LineSize => line = Append(c.line, b)
  OBVIOUS
<1>4. Lengthen(c, b) = [c EXCEPT !.line = line]
  BY DEF Lengthen
<1> HIDE DEF line
<1> QED BY <1>2, <1>3, <1>4 DEF Cutters

LEMMA EndLineIs ==
    ASSUME NEW c \in Cutters
    PROVE  /\ EndLine(c) \in Cutters /\ Len(EndLine(c).line) <= LineSize /\ EndLine(c).line = << >>
           /\ EndLine(c).printed = Append(c.printed, Stripped(c.line))
           /\ EndLine(c).requested = (Stripped(c.line) = Disconnect)
<1>1. c.line \in Seq(Byte) /\ c.printed \in Seq(Seq(Byte)) /\ LineSize \in Nat \ {0}
  BY Constants DEF Cutters
<1>2. Stripped(c.line) \in Seq(Byte)
  BY <1>1, StrippedIs
<1>3. Append(c.printed, Stripped(c.line)) \in Seq(Seq(Byte))
  BY <1>1, <1>2, AppendProperties
<1>4. << >> \in Seq(Byte) /\ Len(<< >>) = 0
  BY EmptySeq
<1>5. (Stripped(c.line) = Disconnect) \in BOOLEAN
  OBVIOUS
<1> QED BY <1>1, <1>3, <1>4, <1>5 DEF EndLine, Cutters

LEMMA TakeByteOK ==
    ASSUME NEW c \in Cutters, Len(c.line) <= LineSize, NEW bytes \in Seq(Byte), NEW b \in Byte,
           CutOf(c, bytes)
    PROVE  /\ TakeByte(c, b) \in Cutters /\ Len(TakeByte(c, b).line) <= LineSize
           /\ CutOf(TakeByte(c, b), Append(bytes, b))
<1> DEFINE d == TakeByte(c, b)
           both == Append(bytes, b)
           lines == Lines(bytes)
<1>1. /\ c.requested => d = c
      /\ ~c.requested /\ b = LF => d = EndLine(c)
      /\ ~c.requested /\ b # LF => d = Lengthen(c, b)
  BY DEF TakeByte
<1>2. d \in Cutters /\ Len(d.line) <= LineSize
  BY <1>1, LengthenIs, EndLineIs
<1>3. both \in Seq(Byte) /\ both = bytes \o <<b>> /\ <<b>> \in Seq(Byte)
  BY AppendProperties, AppendIsConcat
<1>4. lines \in Seq(Seq(Byte)) /\ Rest(bytes) \in Seq(Byte) /\ Stripped(Rest(bytes)) \in Seq(Byte)
  BY LinesAre, RestIs, StrippedIs
<1>5. ASSUME LinesFit(both)
      PROVE  /\ d.printed = UpToStop(Lines(both))
             /\ d.requested = HasStop(Lines(both))
             /\ ~d.requested => d.line = Rest(both)
  <2>1. LinesFit(bytes)
    BY <1>3, <1>5, FitsBefore
  <2>2. c.printed = UpToStop(lines) /\ c.requested = HasStop(lines) /\ (~c.requested => c.line = Rest(bytes))
    BY <2>1 DEF CutOf
  <2>3. CASE b = LF
    <3> DEFINE l == Stripped(Rest(bytes))
    <3>1. Lines(both) = Append(lines, l) /\ Rest(both) = << >>
      BY <2>3, OneEnd
    <3> HIDE DEF d, both, lines, l
    <3>2. /\ HasStop(Append(lines, l)) = (HasStop(lines) \/ l = Disconnect)
          /\ ~HasStop(lines) => UpToStop(lines) = lines /\ UpToStop(Append(lines, l)) = Append(lines, l)
          /\ HasStop(lines) => UpToStop(Append(lines, l)) = UpToStop(lines)
      BY <1>4, LineMore DEF l
    <3>3. CASE c.requested
      BY <1>1, <2>2, <3>1, <3>2, <3>3
    <3>4. CASE ~c.requested
      <4>1. d = EndLine(c) /\ c.line = Rest(bytes)
        BY <1>1, <2>2, <2>3, <3>4
      <4>2. d.line = << >> /\ d.printed = Append(lines, l) /\ d.requested = (l = Disconnect)
        BY SMTT(30), <2>2, <3>2, <3>4, <4>1, EndLineIs DEF l
      <4> QED BY <2>2, <3>1, <3>2, <3>4, <4>2
    <3> QED BY <3>3, <3>4
  <2>4. CASE b # LF
    <3>1. Lines(both) = lines /\ Rest(both) = Rest(bytes) \o <<b>>
      <4>1. \A n \in 1 .. Len(<<b>>) : <<b>>[n] # LF
        BY <2>4
      <4> QED BY <1>3, <4>1, NoEnd
    <3>2. CASE c.requested
      BY <1>1, <2>2, <3>1, <3>2
    <3>3. CASE ~c.requested
      <4>1. Len(Rest(bytes)) < LineSize
        BY <1>5, <2>4, RestFits
      <4>2. d = Lengthen(c, b) /\ c.line = Rest(bytes)
        BY <1>1, <2>2, <2>4, <3>3
      <4>3. d.printed = c.printed /\ d.requested = c.requested /\ d.line = Append(Rest(bytes), b)
        <5> HIDE DEF d
        <5> QED BY <4>1, <4>2, LengthenIs
      <4>4. Append(Rest(bytes), b) = Rest(bytes) \o <<b>>
        BY <1>4, AppendIsConcat
      <4> QED BY <2>2, <3>1, <3>3, <4>3, <4>4
    <3> QED BY <3>2, <3>3
  <2> QED BY <2>3, <2>4
<1> QED BY <1>2, <1>5 DEF CutOf

\* FoldLeft over bytes is what is left after the last of them, each taken in its turn.
LEMMA FoldSteps ==
    ASSUME NEW c, NEW bytes \in Seq(Byte)
    PROVE  \E after : /\ after[0] = c
                      /\ \A m \in 1 .. Len(bytes) : after[m] = TakeByte(after[m - 1], bytes[m])
                      /\ FoldLeft(TakeByte, c, bytes) = after[Len(bytes)]
<1> DEFINE Folds(k, g) ==
             g = [s \in SUBSET (1 .. k) |->
                    IF s = {} THEN c ELSE TakeByte(g[s \ {Max(s)}], bytes[Max(s)])]
           Good == {k \in Nat : \E g : Folds(k, g)}
           n == Len(bytes)
<1>1. n \in Nat /\ DOMAIN bytes = 1 .. n
  BY LenProperties
<1>2. 0 \in Good
  <2> DEFINE g == [s \in SUBSET (1 .. 0) |-> c]
  <2>1. \A s \in SUBSET (1 .. 0) : s = {}
    <3>1. \A x : x \notin 1 .. 0
      OBVIOUS
    <3> QED BY <3>1
  <2>2. Folds(0, g)
    BY <2>1
  <2> QED BY <2>2
<1>3. ASSUME NEW k \in Nat, k \in Good
      PROVE  k + 1 \in Good
  <2>1. PICK g : Folds(k, g)
    BY <1>3
  <2> DEFINE h == [s \in SUBSET (1 .. k + 1) |->
                     IF k + 1 \in s THEN TakeByte(g[s \ {k + 1}], bytes[k + 1]) ELSE g[s]]
  <2>2. \A s \in SUBSET (1 .. k) : s \in SUBSET (1 .. k + 1) /\ k + 1 \notin s
    <3>1. \A x \in 1 .. k : x \in 1 .. k + 1 /\ x # k + 1
      OBVIOUS
    <3> QED BY <3>1
  <2>3. \A s \in SUBSET (1 .. k) : h[s] = g[s]
    BY <2>2
  <2>4. ASSUME NEW s \in SUBSET (1 .. k + 1), k + 1 \in s
        PROVE  s # {} /\ Max(s) = k + 1 /\ h[s] = TakeByte(h[s \ {Max(s)}], bytes[Max(s)])
    <3>1. s # {} /\ s \in SUBSET (0 .. k + 1) /\ k + 1 \in Nat
      BY <2>4
    <3>2. Max(s) \in s /\ \A x \in s : Max(s) >= x
      <4> DEFINE j == k + 1
      <4>1. s \in SUBSET (0 .. j) /\ j \in Nat
        BY <3>1
      <4> HIDE DEF j
      <4> QED BY <3>1, <4>1, MaxIs
    <3>3. Max(s) = k + 1
      <4>1. Max(s) >= k + 1 /\ Max(s) \in 1 .. k + 1
        BY <2>4, <3>2
      <4> QED BY <4>1
    <3>4. s \ {k + 1} \in SUBSET (1 .. k)
      <4>1. \A x \in 1 .. k + 1 : x # k + 1 => x \in 1 .. k
        OBVIOUS
      <4> QED BY <4>1
    <3>5. h[s] = TakeByte(g[s \ {k + 1}], bytes[k + 1])
      BY <2>4
    <3>6. h[s \ {k + 1}] = g[s \ {k + 1}]
      BY <2>3, <3>4
    <3> HIDE DEF h
    <3> QED BY <3>1, <3>3, <3>5, <3>6
  <2>5. ASSUME NEW s \in SUBSET (1 .. k + 1), k + 1 \notin s, s # {}
        PROVE  h[s] = TakeByte(h[s \ {Max(s)}], bytes[Max(s)])
    <3>1. s \in SUBSET (1 .. k)
      <4>1. \A x \in 1 .. k + 1 : x # k + 1 => x \in 1 .. k
        OBVIOUS
      <4> QED BY <2>5, <4>1
    <3>2. s \ {Max(s)} \in SUBSET (1 .. k)
      BY <3>1
    <3>3. g[s] = TakeByte(g[s \ {Max(s)}], bytes[Max(s)])
      BY <2>1, <2>5, <3>1
    <3>4. h[s] = g[s] /\ h[s \ {Max(s)}] = g[s \ {Max(s)}]
      BY <2>3, <3>1, <3>2
    <3> HIDE DEF h, Folds
    <3> QED BY <3>3, <3>4
  <2>6. h[{}] = c
    <3>1. {} \in SUBSET (1 .. k)
      OBVIOUS
    <3>2. g[{}] = c
      BY <2>1, <3>1
    <3>3. h[{}] = g[{}]
      BY <2>3, <3>1
    <3> HIDE DEF h, Folds
    <3> QED BY <3>2, <3>3
  <2>7. \A s \in SUBSET (1 .. k + 1) :
           h[s] = IF s = {} THEN c ELSE TakeByte(h[s \ {Max(s)}], bytes[Max(s)])
    <3> HIDE DEF h, Folds
    <3> QED BY <2>4, <2>5, <2>6
  <2>8. h = [s \in SUBSET (1 .. k + 1) |-> h[s]]
    OBVIOUS
  <2>9. Folds(k + 1, h)
    <3> HIDE DEF h
    <3> QED BY <2>7, <2>8
  <2> HIDE DEF h, Folds
  <2> QED BY <2>9
<1> HIDE DEF Good
<1>4. \E g : Folds(n, g)
  <2>1. n \in Good
    BY <1>1, <1>2, <1>3, AllNumbers
  <2> QED BY <2>1 DEF Good
<1> DEFINE iter == CHOOSE g : Folds(n, g)
<1>5. Folds(n, iter)
  <2> HIDE DEF Folds
  <2> QED BY <1>4
<1>6. FoldLeft(TakeByte, c, bytes) = iter[1 .. n]
  <2> DEFINE fold == CHOOSE g : g = [s \in SUBSET (DOMAIN bytes) |->
                       IF s = {} THEN c ELSE TakeByte(g[s \ {Max(s)}], bytes[Max(s)])]
  <2>1. FoldLeft(TakeByte, c, bytes) = fold[DOMAIN bytes]
    BY Zenon DEF FoldLeft, MapThenFoldSet
  <2> QED BY <1>1, <2>1
<1> HIDE DEF iter
<1>7. \A s \in SUBSET (1 .. n) :
         iter[s] = IF s = {} THEN c ELSE TakeByte(iter[s \ {Max(s)}], bytes[Max(s)])
  <2> DEFINE g == [s \in SUBSET (1 .. n) |->
                     IF s = {} THEN c ELSE TakeByte(iter[s \ {Max(s)}], bytes[Max(s)])]
  <2>1. iter = g
    BY <1>5
  <2>2. \A s \in SUBSET (1 .. n) :
           g[s] = IF s = {} THEN c ELSE TakeByte(iter[s \ {Max(s)}], bytes[Max(s)])
    OBVIOUS
  <2> HIDE DEF g
  <2> QED BY <2>1, <2>2
<1> HIDE DEF Folds
<1> DEFINE after == [m \in 0 .. n |-> iter[1 .. m]]
<1>8. after[0] = c
  <2>1. 1 .. 0 = {} /\ {} \in SUBSET (1 .. n)
    OBVIOUS
  <2>2. iter[{}] = c
    BY <1>7, <2>1
  <2>3. after[0] = iter[1 .. 0]
    BY <1>1
  <2> QED BY <2>1, <2>2, <2>3
<1>9. ASSUME NEW m \in 1 .. n
      PROVE  after[m] = TakeByte(after[m - 1], bytes[m])
  <2> DEFINE s == 1 .. m
  <2>1. s \in SUBSET (1 .. n) /\ m \in s /\ s # {} /\ m \in Nat
    <3>1. \A x \in 1 .. m : x \in 1 .. n
      BY <1>1
    <3>2. m \in 1 .. m
      BY <1>1
    <3> QED BY <3>1, <3>2
  <2>2. Max(s) = m
    <3>1. Max(s) \in s /\ \A x \in s : Max(s) >= x
      <4>1. s \in SUBSET (0 .. m)
        BY <2>1
      <4> HIDE DEF s
      <4> QED BY <2>1, <4>1, MaxIs
    <3> QED BY <2>1, <3>1
  <2>3. s \ {m} = 1 .. m - 1
    <3>1. \A x \in 1 .. m : x # m => x \in 1 .. m - 1
      BY <2>1
    <3>2. \A x \in 1 .. m - 1 : x \in 1 .. m /\ x # m
      BY <2>1
    <3> QED BY <3>1, <3>2
  <2>4. after[m] = iter[s] /\ after[m - 1] = iter[1 .. m - 1]
    BY <1>1, <2>1
  <2> HIDE DEF s, after
  <2>5. iter[s] = TakeByte(iter[s \ {Max(s)}], bytes[Max(s)])
    BY <1>7, <2>1
  <2>6. iter[s] = TakeByte(iter[1 .. m - 1], bytes[m])
    BY <2>2, <2>3, <2>5
  <2> QED BY <2>4, <2>6
<1>10. FoldLeft(TakeByte, c, bytes) = after[n]
  BY <1>1, <1>6
<1> HIDE DEF after
<1> QED BY <1>8, <1>9, <1>10

\* What the server has made of some bytes and then of those it receives is what is in all of them,
\* however they are grouped.
LEMMA FoldTakes ==
    ASSUME NEW c \in Cutters, Len(c.line) <= LineSize, NEW before \in Seq(Byte), NEW bytes \in Seq(Byte),
           CutOf(c, before)
    PROVE  /\ FoldLeft(TakeByte, c, bytes) \in Cutters
           /\ Len(FoldLeft(TakeByte, c, bytes).line) <= LineSize
           /\ CutOf(FoldLeft(TakeByte, c, bytes), before \o bytes)
           /\ bytes = << >> => FoldLeft(TakeByte, c, bytes) = c
<1> DEFINE n == Len(bytes)
<1>1. n \in Nat
  BY LenProperties
<1>2. PICK after : /\ after[0] = c
                   /\ \A m \in 1 .. n : after[m] = TakeByte(after[m - 1], bytes[m])
                   /\ FoldLeft(TakeByte, c, bytes) = after[n]
  BY FoldSteps
<1> DEFINE Sound(m) == /\ after[m] \in Cutters /\ Len(after[m].line) <= LineSize
                       /\ CutOf(after[m], before \o SubSeq(bytes, 1, m))
           Good == {m \in Nat : m <= n => Sound(m)}
<1>3. 0 \in Good
  <2>1. SubSeq(bytes, 1, 0) = << >>
    BY SubSeqEmpty
  <2>2. before \o << >> = before
    BY ConcatEmptySeq
  <2>3. Sound(0)
    BY <1>2, <2>1, <2>2
  <2> HIDE DEF Sound
  <2> QED BY <2>3
<1>4. ASSUME NEW m \in Nat, m \in Good
      PROVE  m + 1 \in Good
  <2> SUFFICES ASSUME m + 1 <= n
               PROVE  Sound(m + 1)
    <3> HIDE DEF Sound
    <3> QED OBVIOUS
  <2>1. Sound(m)
    <3>1. m <= n
      BY <1>1
    <3> HIDE DEF Sound
    <3> QED BY <1>4, <3>1
  <2> DEFINE some == SubSeq(bytes, 1, m)
             more == SubSeq(bytes, 1, m + 1)
             b == bytes[m + 1]
  <2>2. m + 1 \in 1 .. n /\ m + 1 - 1 = m
    BY <1>1
  <2>3. b \in Byte
    BY <2>2, ElementOfSeq
  <2>4. some \in Seq(Byte)
    <3>1. 1 \in Nat \ {0} /\ m \in Int /\ m <= Len(bytes)
      BY <1>1
    <3> QED BY <3>1, PartIsSeq
  <2>5. more = some \o <<b>>
    <3> DEFINE l == m + 1
    <3>1. 1 \in 1 .. Len(bytes) /\ l \in 1 .. Len(bytes) /\ l - 1 = m
      BY <1>1, <2>2
    <3> HIDE DEF l
    <3>2. SubSeq(bytes, 1, l) = SubSeq(bytes, 1, l - 1) \o <<bytes[l]>>
      BY <3>1, SubSeqRecursiveSecond
    <3> QED BY <3>1, <3>2 DEF l
  <2>6. before \o more = Append(before \o some, b) /\ before \o some \in Seq(Byte)
    <3> HIDE DEF some, b, more
    <3>1. <<b>> \in Seq(Byte) /\ before \o some \in Seq(Byte)
      BY <2>3, <2>4, ConcatProperties
    <3>2. before \o (some \o <<b>>) = (before \o some) \o <<b>>
      BY SMTT(30), <2>4, <3>1, ConcatAssociative
    <3>3. Append(before \o some, b) = (before \o some) \o <<b>>
      BY <2>3, <3>1, AppendIsConcat
    <3> QED BY <2>5, <3>1, <3>2, <3>3
  <2>7. after[m + 1] = TakeByte(after[m], b)
    BY <1>2, <2>2
  <2>8. /\ after[m] \in Cutters /\ Len(after[m].line) <= LineSize
        /\ CutOf(after[m], before \o some)
    BY <2>1
  <2> HIDE DEF some, b
  <2>9. /\ TakeByte(after[m], b) \in Cutters /\ Len(TakeByte(after[m], b).line) <= LineSize
        /\ CutOf(TakeByte(after[m], b), Append(before \o some, b))
    BY <2>3, <2>6, <2>8, TakeByteOK
  <2> QED BY <2>6, <2>7, <2>9
<1>5. Sound(n)
  <2> HIDE DEF Good
  <2>1. n \in Good
    BY <1>1, <1>3, <1>4, AllNumbers
  <2> HIDE DEF Sound
  <2> QED BY <1>1, <2>1 DEF Good
<1>6. SubSeq(bytes, 1, n) = bytes
  BY SubSeqFull
<1>7. bytes = << >> => n = 0
  BY EmptySeq
<1> QED BY <1>2, <1>5, <1>6, <1>7

----------------------------------------------------------------------------
(***************************************************************************)
(* What the client sends.                                                  *)
(***************************************************************************)

LEMMA FgetsIs ==
    ASSUME NEW bytes \in Seq(Byte)
    PROVE  /\ FgetsCount(bytes) \in 0 .. Len(bytes) /\ Len(bytes) \in Nat
           /\ \A m \in 1 .. FgetsCount(bytes) - 1 : bytes[m] # LF
           /\ \/ FgetsCount(bytes) = Len(bytes)
              \/ FgetsCount(bytes) = InputSize - 1
              \/ FgetsCount(bytes) > 0 /\ bytes[FgetsCount(bytes)] = LF
<1> DEFINE k == Len(bytes)
           Stops == {n \in Nat : n = k \/ n = InputSize - 1 \/ (n > 0 /\ n <= k /\ bytes[n] = LF)}
<1>1. k \in Nat /\ InputSize \in Nat /\ InputSize > 2
  <2>1. Len(Disconnect) + 2 < InputSize /\ Len(Disconnect) \in Nat /\ InputSize \in Nat
    BY Constants
  <2> QED BY <2>1, LenProperties
<1>2. PICK x \in Stops : \A y \in Stops : x <= y
  <2>1. Stops \subseteq Nat /\ k \in Stops
    BY <1>1
  <2> HIDE DEF Stops
  <2> QED BY <2>1, LeastElement
<1>3. x \in 0 .. k /\ x < InputSize
  <2>1. k \in Stops /\ InputSize - 1 \in Stops /\ x \in Nat
    BY <1>1
  <2> HIDE DEF k, Stops
  <2>2. x <= k /\ x <= InputSize - 1
    BY <1>2, <2>1
  <2> QED BY <1>1, <2>1, <2>2
<1>4. ASSUME NEW m \in 1 .. x - 1
      PROVE  bytes[m] # LF
  <2>1. m \in Nat /\ m > 0 /\ m <= k /\ m < x
    BY <1>1, <1>3
  <2>2. m \notin Stops
    <3> HIDE DEF Stops
    <3> QED BY <1>2, <1>3, <2>1
  <2> QED BY <2>1, <2>2
<1>5. x = k \/ x = InputSize - 1 \/ (x > 0 /\ bytes[x] = LF)
  BY <1>2
<1>6. \E n \in 0 .. Len(bytes) :
         /\ n < InputSize
         /\ \A m \in 1 .. n - 1 : bytes[m] # LF
         /\ n = Len(bytes) \/ n = InputSize - 1 \/ (n > 0 /\ bytes[n] = LF)
  BY <1>3, <1>4, <1>5
<1> HIDE DEF k
<1> DEFINE P(n) == /\ n < InputSize
                   /\ \A m \in 1 .. n - 1 : bytes[m] # LF
                   /\ n = Len(bytes) \/ n = InputSize - 1 \/ (n > 0 /\ bytes[n] = LF)
<1>7. FgetsCount(bytes) = CHOOSE n \in 0 .. Len(bytes) : P(n)
  BY DEF FgetsCount
<1>8. \E n \in 0 .. Len(bytes) : P(n)
  BY <1>6
<1> HIDE DEF P
<1>9. FgetsCount(bytes) \in 0 .. Len(bytes) /\ P(FgetsCount(bytes))
  BY <1>7, <1>8
<1> QED BY <1>1, <1>9 DEF P, k

LEMMA OneLine ==
    ASSUME NEW bytes \in Seq(Byte), NEW body \in Seq(Byte), \A n \in 1 .. Len(body) : body[n] # LF
    PROVE  /\ Rest(bytes) \o body \in Seq(Byte) /\ body \o <<LF>> \in Seq(Byte)
           /\ Lines(bytes \o (body \o <<LF>>)) = Append(Lines(bytes), Stripped(Rest(bytes) \o body))
           /\ Rest(bytes \o (body \o <<LF>>)) = << >>
<1>1. LF \in Byte /\ <<LF>> \in Seq(Byte) /\ bytes \o body \in Seq(Byte) /\ body \o <<LF>> \in Seq(Byte)
  <2>1. LF \in Byte
    BY Constants
  <2> QED BY <2>1, ConcatProperties
<1>2. bytes \o (body \o <<LF>>) = Append(bytes \o body, LF)
  <2>1. bytes \o (body \o <<LF>>) = (bytes \o body) \o <<LF>>
    BY <1>1, ConcatAssociative
  <2>2. Append(bytes \o body, LF) = (bytes \o body) \o <<LF>>
    BY <1>1, AppendIsConcat
  <2> QED BY <2>1, <2>2
<1>3. Lines(bytes \o body) = Lines(bytes) /\ Rest(bytes \o body) = Rest(bytes) \o body
  BY NoEnd
<1>4. /\ Lines(Append(bytes \o body, LF)) = Append(Lines(bytes \o body), Stripped(Rest(bytes \o body)))
      /\ Rest(Append(bytes \o body, LF)) = << >>
  BY <1>1, OneEnd
<1>5. Rest(bytes) \o body \in Seq(Byte)
  BY RestIs, ConcatProperties
<1> QED BY <1>1, <1>2, <1>3, <1>4, <1>5

\* A line that asks the server to stop is one for which the client stops too, if it has all of
\* the line in its input.
LEMMA AsksAlike ==
    ASSUME NEW body \in Seq(Byte), Stripped(body) = Disconnect
    PROVE  AsksToStop(body \o <<LF>>)
<1> DEFINE d == Disconnect
           k == Len(d)
<1>1. LF \in Byte /\ CR \in Byte /\ d \in Seq(Byte) /\ k \in Nat \ {0}
  BY Constants
<1>2. <<LF>> \in Seq(Byte) /\ <<CR>> \in Seq(Byte) /\ <<CR, LF>> \in Seq(Byte)
      /\ Len(<<LF>>) = 1 /\ Len(<<CR, LF>>) = 2 /\ <<CR, LF>> = <<CR>> \o <<LF>>
  BY <1>1
<1>3. PICK t \in {<<LF>>, <<CR, LF>>} : body \o <<LF>> = d \o t
  <2>1. body = d \/ body = d \o <<CR>>
    BY StrippedIs
  <2>2. (d \o <<CR>>) \o <<LF>> = d \o <<CR, LF>>
    <3> DEFINE c == <<CR>>
               l == <<LF>>
    <3>1. c \in Seq(Byte) /\ l \in Seq(Byte) /\ <<CR, LF>> = c \o l
      BY <1>2
    <3> HIDE DEF c, l, d
    <3>2. (d \o c) \o l = d \o (c \o l)
      BY SMTT(30), <1>1, <3>1, ConcatAssociative
    <3>3. (d \o c) \o l = d \o <<CR, LF>>
      BY <3>1, <3>2
    <3> QED BY <3>3 DEF c, l
  <2> QED BY <2>1, <2>2
<1>4. t \in Seq(Byte) /\ Len(t) \in Nat /\ \A i \in 1 .. Len(t) : t[i] \in {LF, CR}
  <2>1. CASE t = <<LF>>
    <3>1. \A i \in 1 .. 1 : <<LF>>[i] \in {LF, CR}
      OBVIOUS
    <3> QED BY <1>2, <2>1, <3>1
  <2>2. CASE t = <<CR, LF>>
    <3>1. \A i \in 1 .. 2 : <<CR, LF>>[i] \in {LF, CR}
      <4>1. \A i \in 1 .. 2 : i = 1 \/ i = 2
        OBVIOUS
      <4> QED BY <4>1
    <3> QED BY <1>2, <2>2, <3>1
  <2> QED BY <2>1, <2>2
<1>5. Len(d \o t) = k + Len(t) /\ \A i \in 1 .. k + Len(t) : (d \o t)[i] = IF i <= k THEN d[i] ELSE t[i - k]
  BY <1>1, <1>4, ConcatProperties
<1>6. SubSeq(d \o t, 1, k) = d
  <2>1. 1 \in Nat \ {0} /\ k \in 0 .. Len(d)
    BY <1>1
  <2>2. SubSeq(d \o t, 1, k) = SubSeq(d, 1, k)
    BY <1>1, <1>4, <2>1, PartOfFirst
  <2> QED BY <1>1, <2>2, SubSeqFull
<1>7. ASSUME NEW m \in k + 1 .. Len(d \o t)
      PROVE  (d \o t)[m] \in {LF, CR}
  <2>1. m \in 1 .. k + Len(t) /\ ~(m <= k) /\ m - k \in 1 .. Len(t)
    BY <1>1, <1>4, <1>5
  <2>2. (d \o t)[m] = t[m - k]
    BY <1>5, <2>1
  <2> QED BY <1>4, <2>1, <2>2
<1>8. k \in 0 .. Len(d \o t)
  BY <1>1, <1>4, <1>5
<1> HIDE DEF k
<1>9. AsksToStop(d \o t)
  BY <1>6, <1>7, <1>8 DEF AsksToStop
<1> QED BY <1>3, <1>9

\* What the client has in its input is a first part of what is left to be typed.
LEMMA InputIs ==
    ASSUME NEW bytes \in Seq(Byte), NEW n \in 0 .. FgetsCount(bytes)
    PROVE  LET input == SubSeq(bytes, 1, FgetsCount(bytes))
           IN  /\ input \in Seq(Byte) /\ Len(input) = FgetsCount(bytes)
               /\ SubSeq(input, 1, n) \in Seq(Byte) /\ Len(SubSeq(input, 1, n)) = n
               /\ \A i \in 1 .. n : SubSeq(input, 1, n)[i] = bytes[i]
               /\ SubSeq(bytes, Len(input) + 1, Len(bytes)) \in Seq(Byte)
               /\ FgetsCount(bytes) = Len(bytes) => SubSeq(bytes, Len(input) + 1, Len(bytes)) = << >>
<1> DEFINE f == FgetsCount(bytes)
           input == SubSeq(bytes, 1, f)
           k == Len(bytes)
<1>1. f \in 0 .. k /\ k \in Nat /\ f \in Nat /\ f \in Int /\ f <= k /\ 1 \in Nat \ {0}
      /\ n \in Nat /\ n \in Int /\ n <= f
  BY FgetsIs
<1> HIDE DEF f
<1>2. input \in Seq(Byte) /\ Len(input) = f /\ \A i \in 1 .. f : input[i] = bytes[i]
  <2>1. /\ SubSeq(bytes, 1, f) \in Seq(Byte)
        /\ Len(SubSeq(bytes, 1, f)) = IF 1 <= f THEN f - 1 + 1 ELSE 0
        /\ \A i \in 1 .. f - 1 + 1 : SubSeq(bytes, 1, f)[i] = bytes[1 + i - 1]
    BY <1>1, PartIsSeq
  <2>2. Len(input) = f
    BY <1>1, <2>1
  <2>3. \A i \in 1 .. f : i \in 1 .. f - 1 + 1 /\ 1 + i - 1 = i
    BY <1>1
  <2>4. \A i \in 1 .. f : input[i] = bytes[i]
    <3> SUFFICES ASSUME NEW i \in 1 .. f PROVE input[i] = bytes[i]
      OBVIOUS
    <3>1. SubSeq(bytes, 1, f)[i] = bytes[1 + i - 1]
      BY <2>1, <2>3
    <3> QED BY <2>3, <3>1
  <2> QED BY <2>1, <2>2, <2>4
<1> HIDE DEF input
<1>3. /\ SubSeq(input, 1, n) \in Seq(Byte) /\ Len(SubSeq(input, 1, n)) = n
      /\ \A i \in 1 .. n : SubSeq(input, 1, n)[i] = bytes[i]
  <2>1. /\ SubSeq(input, 1, n) \in Seq(Byte)
        /\ Len(SubSeq(input, 1, n)) = IF 1 <= n THEN n - 1 + 1 ELSE 0
        /\ \A i \in 1 .. n - 1 + 1 : SubSeq(input, 1, n)[i] = input[1 + i - 1]
    BY <1>1, <1>2, PartIsSeq
  <2>2. Len(SubSeq(input, 1, n)) = n
    BY <1>1, <2>1
  <2>3. \A i \in 1 .. n : i \in 1 .. n - 1 + 1 /\ 1 + i - 1 = i /\ i \in 1 .. f
    BY <1>1
  <2>4. \A i \in 1 .. n : SubSeq(input, 1, n)[i] = bytes[i]
    <3> SUFFICES ASSUME NEW i \in 1 .. n PROVE SubSeq(input, 1, n)[i] = bytes[i]
      OBVIOUS
    <3>1. SubSeq(input, 1, n)[i] = input[1 + i - 1]
      BY <2>1, <2>3
    <3> QED BY <1>2, <2>3, <3>1
  <2> QED BY <2>1, <2>2, <2>4
<1>4. SubSeq(bytes, Len(input) + 1, k) \in Seq(Byte)
  <2> DEFINE m == Len(input) + 1
  <2>1. m \in Nat \ {0} /\ k \in Int /\ k <= Len(bytes)
    BY <1>1, <1>2
  <2> HIDE DEF m, k
  <2> QED BY <2>1, PartIsSeq DEF m
<1>5. f = k => SubSeq(bytes, Len(input) + 1, k) = << >>
  <2> DEFINE m == Len(input) + 1
  <2>1. f = k => m \in Int /\ k \in Int /\ k < m
    BY <1>1, <1>2
  <2> HIDE DEF m, k
  <2> QED BY <2>1, SubSeqEmpty DEF m
<1> QED BY <1>2, <1>3, <1>4, <1>5 DEF f, input

\* What the client sends of its input asks the server to stop only if the client stops too; and the
\* next input begins a line, or continues one that is too long to ask.
LEMMA SendsRight ==
    ASSUME NEW before \in Seq(Byte), ~HasStop(Lines(before)),
           Rest(before) = << >> \/ Len(Rest(before)) >= InputSize - 1,
           NEW bytes \in Seq(Byte), NEW n \in 0 .. FgetsCount(bytes)
    PROVE  LET input == SubSeq(bytes, 1, FgetsCount(bytes))
               after == before \o SubSeq(input, 1, n)
           IN  /\ ~AsksToStop(input) \/ n < Len(input) => ~HasStop(Lines(after))
               /\ (n = Len(input) /\ SubSeq(bytes, Len(input) + 1, Len(bytes)) # << >>) =>
                     Rest(after) = << >> \/ Len(Rest(after)) >= InputSize - 1
<1> DEFINE f     == FgetsCount(bytes)
           input == SubSeq(bytes, 1, f)
           piece == SubSeq(input, 1, n)
           after == before \o piece
<1>1. f \in 0 .. Len(bytes) /\ Len(bytes) \in Nat /\ f \in Nat /\ n \in Nat /\ n <= f
      /\ InputSize \in Nat /\ Len(Disconnect) \in Nat /\ Len(Disconnect) + 2 < InputSize
  BY FgetsIs, Constants
<1>2. (\A m \in 1 .. f - 1 : bytes[m] # LF)
      /\ (f = Len(bytes) \/ f = InputSize - 1 \/ (f > 0 /\ bytes[f] = LF))
  BY FgetsIs
<1>3. /\ input \in Seq(Byte) /\ Len(input) = f
      /\ piece \in Seq(Byte) /\ Len(piece) = n /\ \A i \in 1 .. n : piece[i] = bytes[i]
      /\ f = Len(bytes) => SubSeq(bytes, Len(input) + 1, Len(bytes)) = << >>
  BY InputIs
<1>4. Lines(before) \in Seq(Seq(Byte)) /\ Rest(before) \in Seq(Byte) /\ Len(Rest(before)) \in Nat
  BY LinesAre, RestIs, LenProperties
<1>5. CASE \A i \in 1 .. n : bytes[i] # LF
  <2> HIDE DEF piece
  <2>1. \A i \in 1 .. Len(piece) : piece[i] # LF
    BY <1>3, <1>5
  <2>2. Lines(after) = Lines(before) /\ Rest(after) = Rest(before) \o piece
    BY <1>3, <2>1, NoEnd
  <2>3. Len(Rest(after)) = Len(Rest(before)) + n
    BY <1>3, <1>4, <2>2, ConcatProperties
  <2>4. ASSUME n = f, f # Len(bytes)
        PROVE  Len(Rest(after)) >= InputSize - 1
    <3>1. ~(f > 0 /\ bytes[f] = LF)
      <4>1. f > 0 => f \in 1 .. n
        BY <1>1, <2>4
      <4> QED BY <1>5, <4>1
    <3>2. n = InputSize - 1
      BY <1>2, <2>4, <3>1
    <3> QED BY <1>1, <1>4, <2>3, <3>2
  <2> QED BY <1>3, <2>2, <2>4 DEF piece
<1>6. CASE ~(\A i \in 1 .. n : bytes[i] # LF)
  <2>1. n = f /\ f \in Nat \ {0} /\ bytes[f] = LF
    <3>1. PICK i \in 1 .. n : bytes[i] = LF
      BY <1>6
    <3>2. ~(i \in 1 .. f - 1)
      BY <1>2, <3>1
    <3>3. i = f /\ n = f /\ f # 0
      BY <1>1, <3>1, <3>2
    <3> QED BY <1>1, <3>1, <3>3
  <2> DEFINE body == SubSeq(input, 1, f - 1)
  <2>2. piece = input
    <3> HIDE DEF input
    <3> QED BY <1>3, <2>1, SubSeqFull
  <2>3. /\ body \in Seq(Byte) /\ Len(body) = f - 1
        /\ \A i \in 1 .. Len(body) : body[i] # LF
    <3> DEFINE k == f - 1
    <3>1. k \in 0 .. f /\ k \in Nat
      BY <2>1
    <3> HIDE DEF k, f
    <3>2. /\ SubSeq(input, 1, k) \in Seq(Byte) /\ Len(SubSeq(input, 1, k)) = k
          /\ \A i \in 1 .. k : SubSeq(input, 1, k)[i] = bytes[i]
      BY <3>1, InputIs DEF f
    <3>3. \A i \in 1 .. k : bytes[i] # LF
      BY <1>2 DEF k
    <3> QED BY <3>2, <3>3 DEF k
  <2>4. input = body \o <<LF>>
    <3>1. 1 \in 1 .. Len(input) /\ f \in 1 .. Len(input)
      BY <1>3, <2>1
    <3>2. input[f] = LF
      BY <1>3, <2>1, <2>2
    <3> HIDE DEF input, f
    <3>3. SubSeq(input, 1, f) = SubSeq(input, 1, f - 1) \o <<input[f]>>
      BY <1>3, <3>1, SubSeqRecursiveSecond
    <3>4. SubSeq(input, 1, f) = input
      BY <1>3, SubSeqFull
    <3> QED BY <3>2, <3>3, <3>4
  <2> HIDE DEF body, f
  <2> DEFINE line == Rest(before) \o body
  <2>5. /\ line \in Seq(Byte) /\ Lines(before \o (body \o <<LF>>)) = Append(Lines(before), Stripped(line))
        /\ Rest(before \o (body \o <<LF>>)) = << >>
    BY <2>3, OneLine
  <2>6. after = before \o (body \o <<LF>>)
    BY <2>2, <2>4
  <2>7. Stripped(line) = Disconnect => AsksToStop(input)
    <3> SUFFICES ASSUME Stripped(line) = Disconnect
                 PROVE  AsksToStop(input)
      OBVIOUS
    <3>1. Len(line) = Len(Rest(before)) + Len(body) /\ Len(body) \in Nat
      BY <1>4, <2>3, ConcatProperties, LenProperties
    <3>2. Len(Disconnect) \in {Len(line) - 1, Len(line)}
      BY <2>5, StrippedIs
    <3>3. ~(Len(Rest(before)) >= InputSize - 1)
      BY <1>1, <1>4, <3>1, <3>2
    <3>4. line = body
      BY <2>3, <3>3, ConcatEmptySeq
    <3> QED BY <2>3, <2>4, <3>4, AsksAlike
  <2>8. Stripped(line) \in Seq(Byte)
    BY <2>5, StrippedIs
  <2> HIDE DEF line, input
  <2>9. HasStop(Lines(after)) => AsksToStop(input)
    <3>1. HasStop(Append(Lines(before), Stripped(line))) = (HasStop(Lines(before)) \/ Stripped(line) = Disconnect)
      BY <1>4, <2>8, LineMore
    <3> QED BY <2>5, <2>6, <2>7, <3>1
  <2>10. Rest(after) = << >> /\ n = Len(input)
    BY <1>3, <2>1, <2>5, <2>6
  <2>11. ~(n < Len(input))
    BY <1>3, <2>1, <1>1
  <2> HIDE DEF after
  <2>12. /\ ~AsksToStop(input) \/ n < Len(input) => ~HasStop(Lines(after))
         /\ Rest(after) = << >>
    BY <2>9, <2>10, <2>11
  <2> QED BY <2>12 DEF after, piece, input, f
<1> QED BY <1>5, <1>6

\* A '\r' that ends a line is taken off.
LEMMA WithCR ==
    ASSUME NEW d \in Seq(Byte), \A i \in 1 .. Len(d) : d[i] # LF
    PROVE  /\ Append(d, CR) \in Seq(Byte) /\ Append(d, CR) \o <<LF>> = d \o <<CR, LF>>
           /\ \A i \in 1 .. Len(Append(d, CR)) : Append(d, CR)[i] # LF
           /\ Stripped(Append(d, CR)) = d
<1> DEFINE a == Append(d, CR)
           c == <<CR>>
           l == <<LF>>
           k == Len(d)
<1>1. LF \in Byte /\ CR \in Byte /\ LF # CR
  BY Constants
<1>2. c \in Seq(Byte) /\ l \in Seq(Byte) /\ <<CR, LF>> = c \o l
  BY <1>1
<1>3. a = d \o c
  BY <1>1, AppendIsConcat
<1>4. a \in Seq(Byte) /\ a # << >> /\ Len(a) = k + 1 /\ (\A i \in 1 .. k : a[i] = d[i]) /\ a[k + 1] = CR
      /\ k \in Nat
  BY <1>1, AppendProperties, LenProperties
<1> HIDE DEF a, c, l
<1>5. a \o l = d \o <<CR, LF>>
  <2>1. (d \o c) \o l = d \o (c \o l)
    BY SMTT(30), <1>2, ConcatAssociative
  <2> QED BY <1>2, <1>3, <2>1
<1>6. \A i \in 1 .. k + 1 : a[i] # LF
  <2>1. \A i \in 1 .. k + 1 : i \in 1 .. k \/ i = k + 1
    BY <1>4
  <2> QED BY <1>1, <1>4, <2>1
<1>7. Stripped(a) = d
  <2>1. Stripped(a) = SubSeq(a, 1, Len(a) - 1)
    BY <1>4 DEF Stripped, EndsInCR, Last, Front
  <2>2. Len(a) - 1 = k /\ k \in 0 .. Len(d) /\ 1 \in Nat \ {0}
    BY <1>4
  <2>3. SubSeq(d \o c, 1, k) = SubSeq(d, 1, k)
    BY <1>2, <2>2, PartOfFirst
  <2>4. SubSeq(d, 1, k) = d
    BY SubSeqFull
  <2> QED BY <1>3, <2>1, <2>2, <2>3, <2>4
<1> QED BY <1>4, <1>5, <1>6, <1>7 DEF a, l

\* A last line that asks to stop is one of the lines.
LEMMA LastLineAsks ==
    ASSUME said \in Seq(Byte), LastInputIsLine
    PROVE  HasStop(Lines(said))
<1> DEFINE d == Disconnect
           k == Len(d)
<1>1. LF \in Byte /\ CR \in Byte /\ d \in Seq(Byte) /\ d # << >> /\ k \in Nat \ {0}
      /\ \A i \in 1 .. k : d[i] # LF /\ d[i] # CR
  BY Constants
<1>2. Len(said) \in Nat
  BY LenProperties
<1>3. PICK n \in 1 .. Len(said) :
         /\ n = 1 \/ said[n - 1] = LF
         /\ SubSeq(said, n, Len(said)) \in {d \o <<LF>>, d \o <<CR, LF>>}
  BY DEF LastInputIsLine
<1> DEFINE head == SubSeq(said, 1, n - 1)
<1>4. head \in Seq(Byte) /\ said = head \o SubSeq(said, n, Len(said))
  <2> DEFINE j == n - 1
  <2>1. 1 \in 1 .. Len(said) + 1 /\ j \in 1 - 1 .. Len(said) /\ Len(said) \in j .. Len(said)
        /\ j + 1 = n /\ j \in Int /\ j <= Len(said) /\ 1 \in Nat \ {0}
    BY <1>2
  <2> HIDE DEF j
  <2>2. SubSeq(said, 1, j) \o SubSeq(said, j + 1, Len(said)) = SubSeq(said, 1, Len(said))
    BY <2>1, ConcatAdjacentSubSeq
  <2>3. SubSeq(said, 1, Len(said)) = said
    BY SubSeqFull
  <2>4. SubSeq(said, 1, j) \in Seq(Byte)
    BY <2>1, PartIsSeq
  <2> QED BY <2>1, <2>2, <2>3, <2>4 DEF j
<1>5. Rest(head) = << >>
  <2>1. CASE n = 1
    <3>1. head = << >>
      BY <2>1, SubSeqEmpty
    <3> HIDE DEF head
    <3>2. Rest(head) \in Seq(Byte) /\ Len(Rest(head)) = Len(head) - Max(Ends(head) \cup {0})
          /\ Max(Ends(head) \cup {0}) \in 0 .. Len(head) /\ Len(head) = 0
      BY <1>4, <3>1, RestIs, EmptySeq
    <3>3. Len(Rest(head)) = 0
      BY <3>2
    <3> QED BY <3>2, <3>3, EmptySeq
  <2>2. CASE n # 1
    <3> DEFINE j == n - 1
               front == SubSeq(said, 1, j - 1)
    <3>1. 1 \in 1 .. Len(said) /\ j \in 1 .. Len(said) /\ said[j] = LF /\ j - 1 \in Int /\ j - 1 <= Len(said)
          /\ 1 \in Nat \ {0}
      BY <1>2, <1>3, <2>2
    <3> HIDE DEF j
    <3>2. SubSeq(said, 1, j) = SubSeq(said, 1, j - 1) \o <<said[j]>>
      BY <3>1, SubSeqRecursiveSecond
    <3>3. front \in Seq(Byte)
      BY <3>1, PartIsSeq
    <3> HIDE DEF front
    <3>4. Append(front, LF) = front \o <<LF>>
      BY <1>1, <3>3, AppendIsConcat
    <3>5. head = Append(front, LF)
      BY <3>1, <3>2, <3>4 DEF j, front
    <3>6. Rest(Append(front, LF)) = << >>
      BY <3>3, OneEnd
    <3> QED BY <3>5, <3>6
  <2> QED BY <2>1, <2>2
<1>6. PICK body \in Seq(Byte) : /\ SubSeq(said, n, Len(said)) = body \o <<LF>>
                                /\ \A i \in 1 .. Len(body) : body[i] # LF
                                /\ Stripped(body) = d
  <2>1. CASE SubSeq(said, n, Len(said)) = d \o <<LF>>
    <3>1. Stripped(d) = d
      <4>1. d[Len(d)] # CR
        BY <1>1
      <4> QED BY <4>1 DEF Stripped, EndsInCR, Last
    <3> QED BY <1>1, <2>1, <3>1
  <2>2. CASE SubSeq(said, n, Len(said)) = d \o <<CR, LF>>
    <3>1. /\ Append(d, CR) \in Seq(Byte) /\ Append(d, CR) \o <<LF>> = d \o <<CR, LF>>
          /\ \A i \in 1 .. Len(Append(d, CR)) : Append(d, CR)[i] # LF
          /\ Stripped(Append(d, CR)) = d
      BY <1>1, WithCR
    <3> QED BY <2>2, <3>1
  <2> QED BY <1>3, <2>1, <2>2
<1> HIDE DEF head, d
<1>7. Lines(head \o (body \o <<LF>>)) = Append(Lines(head), Stripped(Rest(head) \o body))
  BY <1>4, <1>6, OneLine
<1>8. Rest(head) \o body = body
  BY <1>5, ConcatEmptySeq
<1>9. HasStop(Append(Lines(head), d)) = (HasStop(Lines(head)) \/ d = Disconnect)
  BY <1>1, <1>4, LinesAre, LineMore
<1> QED BY <1>4, <1>6, <1>7, <1>8, <1>9 DEF d

\* What has been received is a first part of what was said.
LEMMA StopsStay ==
    ASSUME NEW bytes \in Seq(Byte), NEW more \in Seq(Byte), HasStop(Lines(bytes))
    PROVE  HasStop(Lines(bytes \o more))
<1> DEFINE both == bytes \o more
<1>1. both \in Seq(Byte)
  BY ConcatProperties
<1>2. PICK n \in DOMAIN Lines(bytes) : Lines(bytes)[n] = Disconnect
  BY DEF HasStop
<1>3. n \in 1 .. Len(Lines(bytes))
  BY LinesAre, LenProperties
<1>4. n \in 1 .. Len(Lines(both)) /\ Lines(both)[n] = Lines(bytes)[n]
  BY <1>3, LinesStay
<1> HIDE DEF both
<1>5. n \in DOMAIN Lines(both)
  BY <1>1, <1>4, LinesAre, LenProperties
<1>6. HasStop(Lines(both))
  BY <1>2, <1>4, <1>5 DEF HasStop
<1> QED BY <1>6 DEF both


----------------------------------------------------------------------------
(***************************************************************************)
(* The invariant is inductive.                                             *)
(***************************************************************************)

LEMMA Closings ==
    /\ Listed(<< >>) = {} /\ Listed(<<"client">>) = {"client"} /\ Listed(<<"listener">>) = {"listener"}
    /\ Listed(EndOfServer) = {"accepted", "listener"}
    /\ Head(EndOfServer) = "accepted" /\ Tail(EndOfServer) = <<"listener">>
    /\ Head(<<"listener">>) = "listener" /\ Tail(<<"listener">>) = << >>
    /\ Head(<<"client">>) = "client" /\ Tail(<<"client">>) = << >>
    /\ EndOfServer # << >> /\ <<"listener">> # << >> /\ <<"client">> # << >>
    /\ EndOfServer # <<"listener">>
<1>1. /\ Len(<< >>) = 0 /\ Len(<<"client">>) = 1 /\ Len(<<"listener">>) = 1 /\ Len(EndOfServer) = 2
      /\ EndOfServer[1] = "accepted" /\ EndOfServer[2] = "listener"
  BY DEF EndOfServer
<1>2. /\ DOMAIN << >> = {} /\ DOMAIN <<"client">> = {1} /\ DOMAIN <<"listener">> = {1}
      /\ DOMAIN EndOfServer = {1, 2}
  BY DEF EndOfServer
<1>3. /\ Listed(<< >>) = {} /\ Listed(<<"client">>) = {"client"}
      /\ Listed(<<"listener">>) = {"listener"}
  BY <1>2 DEF Listed
<1>4. Listed(EndOfServer) = {"accepted", "listener"}
  BY <1>1, <1>2 DEF Listed
<1>5. Head(EndOfServer) = "accepted" /\ Tail(EndOfServer) = <<"listener">>
  BY DEF EndOfServer
<1>6. /\ Head(<<"listener">>) = "listener" /\ Tail(<<"listener">>) = << >>
      /\ Head(<<"client">>) = "client" /\ Tail(<<"client">>) = << >>
  OBVIOUS
<1> QED
  BY <1>1, <1>3, <1>4, <1>5, <1>6

\* What a program is when it goes on and when it leaves.
LEMMA Programs ==
    ASSUME NEW place \in {"open", "bind", "listen", "accept", "receive", "connect", "send"},
           NEW closing \in {<< >>, <<"client">>, <<"listener">>, EndOfServer},
           NEW why \in {"none", "failed", "disconnected", "requested", "end"}
    PROVE  /\ At(place) \in Program /\ At(place).pc = place
           /\ At(place).closing = << >> /\ At(place).why = "none"
           /\ Leave(closing, why) \in Program /\ Leave(closing, why).pc = "closing"
           /\ Leave(closing, why).closing = closing /\ Leave(closing, why).why = why
  BY DEF At, Leave, Program

LEMMA ClosedIs ==
    ASSUME NEW p \in Program, p.pc = "closing"
    PROVE  /\ Closed(p) \in Program /\ Closed(p).why = p.why
           /\ Closed(p).pc = (IF p.closing = << >> THEN "stopped" ELSE "closing")
           /\ Closed(p).closing = (IF p.closing = << >> THEN << >> ELSE Tail(p.closing))
<1>1. p = [pc |-> p.pc, closing |-> p.closing, why |-> p.why]
  BY DEF Program
<1>2. p.closing = << >> => Closed(p) = [pc |-> "stopped", closing |-> p.closing, why |-> p.why]
  BY <1>1 DEF Closed, Program
<1>3. p.closing # << >> => Closed(p) = [pc |-> p.pc, closing |-> Tail(p.closing), why |-> p.why]
  BY <1>1 DEF Closed, Program
<1>4. p.closing # << >> => Tail(p.closing) \in {<< >>, <<"listener">>}
  BY Closings DEF Program
<1>5. CASE p.closing = << >>
  BY <1>2, <1>5 DEF Program
<1>6. CASE p.closing # << >>
  <2> DEFINE rest == Tail(p.closing)
             none == << >>
  <2>1. /\ Closed(p) = [pc |-> "closing", closing |-> rest, why |-> p.why]
        /\ rest \in {none, <<"client">>, <<"listener">>, EndOfServer}
        /\ p.why \in {"none", "failed", "disconnected", "requested", "end"}
    BY <1>3, <1>4, <1>6 DEF Program
  <2>2. Closed(p) \in Program
    <3> HIDE DEF rest
    <3> QED
      BY <2>1 DEF Program
  <2>3. Closed(p).pc = "closing" /\ Closed(p).closing = rest /\ Closed(p).why = p.why
    <3> HIDE DEF rest
    <3> QED
      BY <2>1
  <2> QED
    BY <1>6, <2>2, <2>3
<1> QED
  BY <1>5, <1>6

\* Which sockets each program has, at each place.
LEMMA Holds ==
    ASSUME NEW p, NEW q
    PROVE  /\ ClientPlace(p) => ClientHolds(p) \subseteq {"client"}
           /\ ServerPlace(q) => ServerHolds(q) \subseteq {"listener", "accepted"}
  BY Closings DEF ClientPlace, ClientHolds, ServerPlace, ServerHolds

LEMMA NothingYet ==
    /\ << >> \in Seq(Byte) /\ << >> \o << >> = << >> /\ Lines(<< >>) = << >> /\ ~HasStop(Lines(<< >>))
    /\ UpToStop(Lines(<< >>)) = << >> /\ Rest(<< >>) = << >>
<1> DEFINE none == << >>
<1>1. none \in Seq(Byte) /\ Len(none) = 0 /\ none \o none = << >> /\ DOMAIN none = {}
  BY EmptySeq
<1>2. Ends(none) = {}
  BY <1>1 DEF Ends
<1>3. Lines(none) \in Seq(Seq(Byte)) /\ Len(Lines(none)) = Cardinality(Ends(none))
  BY <1>1, LinesAre
<1>4. Cardinality(Ends(none)) = 0
  BY <1>2, FS_EmptySet
<1>5. Lines(none) = << >>
  BY <1>3, <1>4, EmptySeq
<1>6. ~HasStop(Lines(none)) /\ UpToStop(Lines(none)) = << >>
  <2>1. {n \in DOMAIN none : none[n] = Disconnect} = {}
    BY <1>1
  <2> QED
    BY <1>1, <1>5, <2>1 DEF HasStop, UpToStop
<1>7. Rest(none) \in Seq(Byte) /\ Len(Rest(none)) = Len(none) - Max(Ends(none) \cup {0})
      /\ Max(Ends(none) \cup {0}) \in 0 .. Len(none)
  BY <1>1, RestIs
<1>8. Len(Rest(none)) = 0
  <2>1. Max(Ends(none) \cup {0}) = 0
    BY <1>1, <1>7
  <2> QED
    BY <1>1, <1>7, <2>1
<1>9. Rest(none) = << >>
  BY <1>7, <1>8, EmptySeq
<1> QED
  BY <1>1, <1>5, <1>6, <1>9

LEMMA InitOK == Init => IInv
<1> SUFFICES ASSUME Init PROVE IInv
  OBVIOUS
<1>1. /\ stdin \in Seq(Byte) /\ said = << >> /\ received = << >> /\ stream = << >> /\ open = {}
      /\ connection = "none" /\ listening = FALSE
      /\ client = At("open") /\ server = At("open")
      /\ cutter = [line |-> << >>, printed |-> << >>, requested |-> FALSE]
  BY SMTT(30), Constants DEF Init, NetworkInit, At
<1>2. /\ At("open") \in Program /\ At("open").pc = "open" /\ At("open").closing = << >>
      /\ At("open").why = "none"
  BY Programs
<1>3. TypeOK
  <2>1. NetworkTypeOK /\ {stdin, said, received} \subseteq Seq(Byte) /\ {client, server} \subseteq Program
    BY <1>1, <1>2, NothingYet DEF NetworkTypeOK
  <2>2. cutter \in Cutters /\ cutter.line = << >>
    BY <1>1, EmptySeq DEF Cutters
  <2>3. Len(cutter.line) <= LineSize
    <3>1. Len(cutter.line) = 0
      BY <2>2
    <3> QED
      BY <3>1, Constants
  <2> QED
    BY <2>1, <2>2, <2>3 DEF TypeOK
<1>4. Holding
  BY <1>1, <1>2, Closings DEF Holding, ClientPlace, ServerPlace, ClientHolds, ServerHolds
<1>5. Delivery
  <2>1. \E rest \in Seq(Byte) : said = received \o rest
    BY <1>1, NothingYet
  <2> QED
    BY <1>1, <1>2, <2>1, NothingYet, Closings DEF Delivery
<1>6. CutOf(cutter, received)
  <2>1. cutter.printed = << >> /\ cutter.requested = FALSE /\ cutter.line = << >>
    BY <1>1
  <2>2. HasStop(Lines(<< >>)) = FALSE
    BY NothingYet DEF HasStop
  <2> QED
    BY <1>1, <2>1, <2>2, NothingYet DEF CutOf
<1>7. Requests
  BY <1>1, <1>2, NothingYet DEF Requests
<1> QED
  BY <1>3, <1>4, <1>5, <1>6, <1>7 DEF IInv

\* A step of the server that receives nothing keeps the invariant, if it has at its new place
\* the sockets that go with it.
LEMMA ServerMoves ==
    ASSUME IInv, NEW p, server' = p, p \in Program, ServerPlace(p),
           UNCHANGED <<clientVars, cutter, received>>, stream' = stream, listening' \in BOOLEAN,
           \/ connection' = connection
           \/ connection \in {"pending", "accepted"} /\ connection' = "closed"
           \/ connection = "pending" /\ connection' = "accepted",
           open' = ClientHolds(client) \cup ServerHolds(p),
           p.why \in {server.why, "none", "failed"},
           p.pc \notin {"closing", "stopped"} => server.pc \notin {"closing", "stopped"},
           p.pc = "receive" \/ p.closing = EndOfServer => connection' = "accepted"
    PROVE  IInv'
<1>1. TypeOK /\ Holding /\ Delivery /\ CutOf(cutter, received) /\ Requests
  BY DEF IInv
<1>2. /\ stdin' = stdin /\ client' = client /\ said' = said /\ cutter' = cutter
      /\ received' = received
  BY DEF clientVars
<1>3. TypeOK'
  <2>1. ClientHolds(client) \cup ServerHolds(p) \subseteq Sockets
    BY <1>1, Holds DEF Holding, Sockets
  <2> QED
    BY <1>1, <1>2, <2>1 DEF TypeOK, NetworkTypeOK
<1>4. Holding'
  BY <1>1, <1>2 DEF Holding
<1>5. Delivery'
  <2>1. (\E rest \in Seq(Byte) : said = received \o rest)'
    BY <1>1, <1>2 DEF Delivery
  <2>2. (server.why = "disconnected" => received = said /\ client.pc \in {"closing", "stopped"})'
    BY <1>1, <1>2 DEF Delivery
  <2>3. (/\ client.pc \in {"open", "connect"} => connection = "none"
         /\ client.pc = "send" => connection # "none"
         /\ server.pc = "receive" \/ server.closing = EndOfServer => connection = "accepted"
         /\ connection = "none" => said = << >> /\ received = << >> /\ stream = << >>
         /\ connection # "closed" => said = received \o stream)'
    BY <1>1, <1>2 DEF Delivery
  <2> QED
    BY <2>1, <2>2, <2>3 DEF Delivery
<1>6. CutOf(cutter', received')
  BY <1>1, <1>2
<1>7. Requests'
  BY <1>1, <1>2 DEF Requests
<1> QED
  BY <1>3, <1>4, <1>5, <1>6, <1>7 DEF IInv

\* The same of the client, while it sends nothing.
LEMMA ClientMoves ==
    ASSUME IInv, NEW p, client' = p, p \in Program, ClientPlace(p),
           UNCHANGED <<serverVars, stdin, said>>, stream' = stream, listening' \in BOOLEAN,
           \/ connection' = connection
           \/ connection = "none" /\ connection' = "pending",
           open' = ClientHolds(p) \cup ServerHolds(server),
           p.why \in {client.why, "none", "failed", "end"},
           p.pc \in {"open", "connect"} => connection' = "none",
           p.pc = "send" => client.pc = "connect" /\ connection' # "none",
           client.pc \in {"closing", "stopped"} => p.pc \in {"closing", "stopped"} /\ p.why = client.why
    PROVE  IInv'
<1>1. TypeOK /\ Holding /\ Delivery /\ CutOf(cutter, received) /\ Requests
  BY DEF IInv
<1>2. /\ stdin' = stdin /\ server' = server /\ said' = said /\ cutter' = cutter
      /\ received' = received
  BY DEF serverVars
<1>3. TypeOK'
  <2>1. ClientHolds(p) \cup ServerHolds(server) \subseteq Sockets
    BY <1>1, Holds DEF Holding, Sockets
  <2> QED
    BY <1>1, <1>2, <2>1 DEF TypeOK, NetworkTypeOK
<1>4. Holding'
  BY <1>1, <1>2 DEF Holding
<1>5. Delivery'
  <2>1. (\E rest \in Seq(Byte) : said = received \o rest)'
    BY <1>1, <1>2 DEF Delivery
  <2>2. (server.why = "disconnected" => received = said /\ client.pc \in {"closing", "stopped"})'
    BY <1>1, <1>2 DEF Delivery
  <2>3. (/\ client.pc \in {"open", "connect"} => connection = "none"
         /\ client.pc = "send" => connection # "none"
         /\ server.pc = "receive" \/ server.closing = EndOfServer => connection = "accepted"
         /\ connection = "none" => said = << >> /\ received = << >> /\ stream = << >>
         /\ connection # "closed" => said = received \o stream)'
    BY <1>1, <1>2 DEF Delivery
  <2> QED
    BY <2>1, <2>2, <2>3 DEF Delivery
<1>6. CutOf(cutter', received')
  BY <1>1, <1>2
<1>7. Requests'
  <2>1. client.pc = "connect" => Rest(said) = << >>
    BY <1>1, NothingYet DEF Delivery
  <2>2. client.why # "requested" => ~HasStop(Lines(said))
    BY <1>1 DEF Requests
  <2>3. client'.why # "requested" => client.why # "requested"
    <3>1. CASE client.pc \in {"closing", "stopped"}
      BY <3>1
    <3>2. CASE client.pc \notin {"closing", "stopped"}
      <4>1. client = At(client.pc)
        BY SMTT(30), <1>1, <3>2 DEF Holding, ClientPlace
      <4>2. client.why = "none"
        BY <1>1, <3>2, <4>1, Programs DEF Holding, ClientPlace
      <4> QED
        BY <4>2
    <3> QED
      BY <3>1, <3>2
  <2> QED
    BY <1>1, <1>2, <2>1, <2>2, <2>3 DEF Requests
<1> QED
  BY <1>3, <1>4, <1>5, <1>6, <1>7 DEF IInv

\* What is true of the server at its place, and of the client.
LEMMA ServerIs ==
    ASSUME IInv
    PROVE  /\ server \in Program /\ ServerPlace(server) /\ connection \in {"none", "pending", "accepted", "closed"}
           /\ listening \in BOOLEAN
           /\ open = ClientHolds(client) \cup ServerHolds(server)
           /\ ClientHolds(client) \subseteq {"client"}
           /\ server.pc \notin {"closing", "stopped"} => server.why = "none" /\ server.closing = << >>
           /\ server.pc = "open" => ServerHolds(server) = {}
           /\ server.pc \in {"bind", "listen", "accept"} => ServerHolds(server) = {"listener"}
           /\ server.pc = "receive" => ServerHolds(server) = {"accepted", "listener"}
           /\ server.pc = "closing" => ServerHolds(server) = Listed(server.closing)
<1>1. /\ server \in Program /\ ServerPlace(server) /\ listening \in BOOLEAN
      /\ connection \in {"none", "pending", "accepted", "closed"}
      /\ open = ClientHolds(client) \cup ServerHolds(server) /\ ClientHolds(client) \subseteq {"client"}
  BY SMTT(30), Holds DEF IInv, TypeOK, NetworkTypeOK, Holding
<1>2. server.pc \notin {"closing", "stopped"} => server.why = "none" /\ server.closing = << >>
  BY <1>1, Programs DEF ServerPlace
<1> QED
  BY <1>1, <1>2, Closings DEF ServerHolds

LEMMA ClientIs ==
    ASSUME IInv
    PROVE  /\ client \in Program /\ ClientPlace(client) /\ connection \in {"none", "pending", "accepted", "closed"}
           /\ listening \in BOOLEAN
           /\ open = ClientHolds(client) \cup ServerHolds(server)
           /\ ServerHolds(server) \subseteq {"listener", "accepted"}
           /\ client.pc \notin {"closing", "stopped"} => client.why = "none" /\ client.closing = << >>
           /\ client.pc = "open" => ClientHolds(client) = {}
           /\ client.pc \in {"connect", "send"} => ClientHolds(client) = {"client"}
           /\ client.pc = "closing" => ClientHolds(client) = Listed(client.closing)
<1>1. /\ client \in Program /\ ClientPlace(client) /\ listening \in BOOLEAN
      /\ connection \in {"none", "pending", "accepted", "closed"}
      /\ open = ClientHolds(client) \cup ServerHolds(server)
      /\ ServerHolds(server) \subseteq {"listener", "accepted"}
  BY SMTT(30), Holds DEF IInv, TypeOK, NetworkTypeOK, Holding
<1>2. client.pc \notin {"closing", "stopped"} => client.why = "none" /\ client.closing = << >>
  BY <1>1, Programs DEF ClientPlace
<1> QED
  BY <1>1, <1>2, Closings DEF ClientHolds

LEMMA ServerGoes ==
    ASSUME NEW place \in {"open", "bind", "listen", "accept", "receive"},
           NEW closing \in {<< >>, <<"listener">>, EndOfServer},
           NEW why \in {"none", "failed", "disconnected", "requested"}
    PROVE  /\ ServerPlace(At(place)) /\ ServerPlace(Leave(closing, why))
           /\ ServerHolds(Leave(closing, why)) = Listed(closing)
           /\ ServerHolds(At(place)) = (IF place = "open" THEN {} ELSE IF place = "receive"
                                        THEN {"accepted", "listener"} ELSE {"listener"})
<1>1. /\ At(place).pc = place /\ At(place).closing = << >>
      /\ Leave(closing, why).pc = "closing" /\ Leave(closing, why).closing = closing
  BY Programs
<1>2. ServerPlace(At(place))
  BY <1>1 DEF ServerPlace
<1>3. ServerPlace(Leave(closing, why)) /\ ServerHolds(Leave(closing, why)) = Listed(closing)
  BY <1>1 DEF ServerPlace, ServerHolds
<1> QED
  BY <1>1, <1>2, <1>3, Closings DEF ServerHolds

LEMMA ClientGoes ==
    ASSUME NEW place \in {"open", "connect", "send"}, NEW closing \in {<< >>, <<"client">>},
           NEW why \in {"none", "failed", "requested", "end"}
    PROVE  /\ ClientPlace(At(place)) /\ ClientPlace(Leave(closing, why))
           /\ ClientHolds(Leave(closing, why)) = Listed(closing)
           /\ ClientHolds(At(place)) = (IF place = "open" THEN {} ELSE {"client"})
<1>1. /\ At(place).pc = place /\ At(place).closing = << >>
      /\ Leave(closing, why).pc = "closing" /\ Leave(closing, why).closing = closing
  BY SMTT(30), Programs
<1>2. ClientPlace(At(place))
  BY <1>1 DEF ClientPlace
<1>3. ClientPlace(Leave(closing, why)) /\ ClientHolds(Leave(closing, why)) = Listed(closing)
  BY <1>1 DEF ClientPlace, ClientHolds
<1> QED
  BY <1>1, <1>2, <1>3, Closings DEF ClientHolds

\* A server that a call has failed for leaves, with what it has.
LEMMA ServerLeaves ==
    ASSUME IInv, NEW closing \in {<< >>, <<"listener">>, EndOfServer},
           server' = Leave(closing, "failed"), UNCHANGED <<clientVars, cutter, received>>,
           stream' = stream, listening' \in BOOLEAN,
           \/ connection' = connection
           \/ connection \in {"pending", "accepted"} /\ connection' = "closed",
           open' = ClientHolds(client) \cup Listed(closing),
           closing = EndOfServer => connection' = "accepted"
    PROVE  IInv'
<1> DEFINE p == Leave(closing, "failed")
<1>1. p \in Program /\ ServerPlace(p) /\ ServerHolds(p) = Listed(closing)
  BY SMTT(30), Programs, ServerGoes
<1>2. p.pc = "closing" /\ p.closing = closing /\ p.why = "failed"
  BY SMTT(30), Programs
<1> HIDE DEF p
<1> QED
  <2>1. server' = p
    BY SMTT(30) DEF p
  <2> QED
    BY <1>1, <1>2, <2>1, ServerMoves

\* A server whose call has succeeded goes on.
LEMMA ServerGoesOn ==
    ASSUME IInv, NEW place \in {"bind", "listen", "accept"},
           server' = At(place), UNCHANGED <<clientVars, cutter, received>>,
           stream' = stream, listening' \in BOOLEAN, connection' = connection,
           server.pc \notin {"closing", "stopped"},
           open' = ClientHolds(client) \cup {"listener"}
    PROVE  IInv'
<1> DEFINE p == At(place)
<1>1. p \in Program /\ p.pc = place /\ p.closing = << >> /\ p.why = "none"
  BY Programs
<1>2. ServerPlace(p) /\ ServerHolds(p) = {"listener"}
  BY ServerGoes
<1>3. p.closing # EndOfServer /\ p.pc # "receive"
  BY <1>1, Closings
<1> HIDE DEF p
<1>4. server' = p
  BY DEF p
<1> QED
  BY <1>1, <1>2, <1>3, <1>4, ServerMoves

LEMMA ServerOpenOK == ASSUME IInv, NEW ok \in BOOLEAN, ServerOpen(ok) PROVE IInv'
<1>1. /\ UNCHANGED <<clientVars, cutter, received>> /\ stream' = stream /\ listening' = listening
      /\ connection' = connection /\ server.pc = "open"
      /\ open' = IF ok THEN open \cup {"listener"} ELSE open
      /\ server' = IF ok THEN At("bind") ELSE Leave(<< >>, "failed")
  BY DEF ServerOpen, SockOpen
<1>2. open = ClientHolds(client) /\ listening' \in BOOLEAN
  BY <1>1, ServerIs
<1>3. CASE ok
  <2>1. server' = At("bind") /\ open' = ClientHolds(client) \cup {"listener"}
    BY <1>1, <1>2, <1>3
  <2> QED
    BY <1>1, <1>2, <2>1, ServerGoesOn
<1>4. CASE ~ok
  BY <1>1, <1>2, <1>4, Closings, ServerLeaves
<1> QED
  BY <1>3, <1>4

LEMMA ServerBindOK == ASSUME IInv, NEW ok \in BOOLEAN, ServerBind(ok) PROVE IInv'
<1>1. /\ UNCHANGED <<clientVars, cutter, received>> /\ stream' = stream /\ listening' = listening
      /\ connection' = connection /\ server.pc = "bind" /\ open' = open
      /\ server' = IF ok THEN At("listen") ELSE Leave(<<"listener">>, "failed")
  BY DEF ServerBind, SockBind, network
<1>2. open = ClientHolds(client) \cup {"listener"} /\ listening' \in BOOLEAN
  BY <1>1, ServerIs
<1>3. CASE ok
  <2>1. server' = At("listen") /\ open' = ClientHolds(client) \cup {"listener"}
    BY <1>1, <1>2, <1>3
  <2> QED
    BY <1>1, <1>2, <2>1, ServerGoesOn
<1>4. CASE ~ok
  BY <1>1, <1>2, <1>4, Closings, ServerLeaves
<1> QED
  BY <1>3, <1>4

LEMMA ServerListenOK == ASSUME IInv, NEW ok \in BOOLEAN, ServerListen(ok) PROVE IInv'
<1>1. /\ UNCHANGED <<clientVars, cutter, received>> /\ stream' = stream /\ listening' = ok
      /\ connection' = connection /\ server.pc = "listen" /\ open' = open
      /\ server' = IF ok THEN At("accept") ELSE Leave(<<"listener">>, "failed")
  BY DEF ServerListen, SockListen
<1>2. open = ClientHolds(client) \cup {"listener"} /\ listening' \in BOOLEAN
  BY <1>1, ServerIs
<1>3. CASE ok
  <2>1. server' = At("accept") /\ open' = ClientHolds(client) \cup {"listener"}
    BY <1>1, <1>2, <1>3
  <2> QED
    BY <1>1, <1>2, <2>1, ServerGoesOn
<1>4. CASE ~ok
  BY <1>1, <1>2, <1>4, Closings, ServerLeaves
<1> QED
  BY <1>3, <1>4

\* A connection that has been taken and is of neither family is closed at once, by accept.
LEMMA ServerAcceptOK == ASSUME IInv, NEW ok \in BOOLEAN, ServerAccept(ok) PROVE IInv'
<1>1. /\ UNCHANGED <<clientVars, cutter, received>> /\ stream' = stream /\ listening' = listening
      /\ server.pc = "accept"
      /\ server' = IF ok THEN At("receive") ELSE Leave(<<"listener">>, "failed")
      /\ \/ ~ok /\ open' = open /\ connection' = connection
         \/ /\ connection = "pending" /\ connection' = (IF ok THEN "accepted" ELSE "closed")
            /\ open' = IF ok THEN open \cup {"accepted"} ELSE open
  BY DEF ServerAccept, SockAccept, network
<1>2. open = ClientHolds(client) \cup {"listener"} /\ listening' \in BOOLEAN
  BY <1>1, ServerIs
<1>3. CASE ok
  <2> DEFINE p == At("receive")
  <2>1. /\ p \in Program /\ ServerPlace(p) /\ ServerHolds(p) = {"accepted", "listener"}
        /\ p.pc = "receive" /\ p.closing = << >> /\ p.why = "none"
    BY Programs, ServerGoes
  <2>2. server' = p /\ open' = ClientHolds(client) \cup ServerHolds(p)
    BY <1>1, <1>2, <1>3, <2>1
  <2>3. connection = "pending" /\ connection' = "accepted"
    BY <1>1, <1>3
  <2> HIDE DEF p
  <2> QED
    BY SMTT(30), <1>1, <1>2, <2>1, <2>2, <2>3, ServerMoves
<1>4. CASE ~ok
  BY <1>1, <1>2, <1>4, Closings, ServerLeaves
<1> QED
  BY <1>3, <1>4

LEMMA ServerReceiveFailsOK == ASSUME IInv, ServerReceiveFails PROVE IInv'
<1>1. /\ UNCHANGED <<clientVars, cutter, received>> /\ stream' = stream /\ listening' = listening
      /\ server.pc = "receive" /\ server' = Leave(EndOfServer, "failed")
      /\ open' = open /\ connection' = connection
  BY DEF ServerReceiveFails, network
<1>2. open = ClientHolds(client) \cup Listed(EndOfServer) /\ listening' \in BOOLEAN
  BY <1>1, ServerIs, Closings
<1>3. connection = "accepted"
  BY <1>1 DEF IInv, Delivery
<1> QED
  BY <1>1, <1>2, <1>3, ServerLeaves

LEMMA ServerCloseOK == ASSUME IInv, ServerClose PROVE IInv'
<1> DEFINE p == Closed(server)
           c == server.closing
<1>1. /\ UNCHANGED <<clientVars, cutter, received>> /\ server.pc = "closing" /\ server' = p
      /\ IF c = << >> THEN UNCHANGED network ELSE SockClose(Head(c))
  BY DEF ServerClose, CloseNext
<1>2. /\ server \in Program /\ c \in {<< >>, <<"listener">>, EndOfServer} /\ listening \in BOOLEAN
      /\ open = ClientHolds(client) \cup Listed(c) /\ ClientHolds(client) \subseteq {"client"}
      /\ connection \in {"none", "pending", "accepted", "closed"}
      /\ c = EndOfServer => connection = "accepted"
  BY <1>1, ServerIs DEF IInv, Delivery, ServerPlace
<1>3. /\ p \in Program /\ p.why = server.why
      /\ p.pc = (IF c = << >> THEN "stopped" ELSE "closing")
      /\ p.closing = (IF c = << >> THEN << >> ELSE Tail(c))
  BY <1>1, <1>2, ClosedIs
<1> HIDE DEF p, c
<1>4. CASE c = << >>
  <2>1. /\ stream' = stream /\ listening' = listening /\ connection' = connection /\ open' = open
    BY <1>1, <1>4 DEF network
  <2>2. ServerPlace(p) /\ ServerHolds(p) = Listed(c) /\ p.pc = "stopped" /\ p.closing # EndOfServer
    BY <1>3, <1>4, Closings DEF ServerPlace, ServerHolds
  <2> QED
    BY <1>1, <1>2, <1>3, <2>1, <2>2, ServerMoves
<1>5. CASE c = <<"listener">>
  <2>1. /\ stream' = stream /\ listening' = FALSE /\ open' = open \ {"listener"}
        /\ connection' = IF connection = "pending" THEN "closed" ELSE connection
    BY <1>1, <1>2, <1>5, Closings DEF SockClose
  <2>2. /\ p.pc = "closing" /\ p.closing = << >>
    BY <1>3, <1>5, Closings
  <2>3. ServerPlace(p) /\ ServerHolds(p) = {} /\ p.closing # EndOfServer
    BY <2>2, Closings DEF ServerPlace, ServerHolds
  <2>4. open' = ClientHolds(client) \cup ServerHolds(p)
    BY <1>2, <1>5, <2>1, <2>3, Closings
  <2>5. connection' = connection \/ (connection \in {"pending", "accepted"} /\ connection' = "closed")
    BY <2>1
  <2> QED
    BY <1>1, <1>3, <2>1, <2>2, <2>3, <2>4, <2>5, ServerMoves
<1>6. CASE c = EndOfServer
  <2>1. /\ stream' = stream /\ listening' = listening /\ open' = open \ {"accepted"}
        /\ connection' = "closed"
    BY <1>1, <1>2, <1>6, Closings DEF SockClose
  <2>2. /\ p.pc = "closing" /\ p.closing = <<"listener">>
    BY <1>3, <1>6, Closings
  <2>3. ServerPlace(p) /\ ServerHolds(p) = {"listener"} /\ p.closing # EndOfServer
    BY <2>2, Closings DEF ServerPlace, ServerHolds
  <2>4. open' = ClientHolds(client) \cup ServerHolds(p)
    BY <1>2, <1>6, <2>1, <2>3, Closings
  <2>5. connection \in {"pending", "accepted"} /\ listening' \in BOOLEAN
    BY <1>2, <1>6, <2>1
  <2> QED
    BY <1>1, <1>3, <2>1, <2>2, <2>3, <2>4, <2>5, ServerMoves
<1> QED
  BY <1>2, <1>4, <1>5, <1>6

LEMMA ClientLeaves ==
    ASSUME IInv, NEW closing \in {<< >>, <<"client">>}, NEW why \in {"failed", "end"},
           client' = Leave(closing, why), UNCHANGED <<serverVars, stdin, said>>, stream' = stream,
           listening' \in BOOLEAN, connection' = connection,
           client.pc \notin {"closing", "stopped"},
           open' = Listed(closing) \cup ServerHolds(server)
    PROVE  IInv'
<1> DEFINE p == Leave(closing, why)
<1>1. p \in Program /\ ClientPlace(p) /\ ClientHolds(p) = Listed(closing)
  BY SMTT(30), Programs, ClientGoes
<1>2. p.pc = "closing" /\ p.closing = closing /\ p.why = why
  BY Programs
<1> HIDE DEF p
<1> QED
  <2>1. client' = p
    BY SMTT(30) DEF p
  <2> QED
    BY <1>1, <1>2, <2>1, ClientMoves

LEMMA ClientOpenOK == ASSUME IInv, NEW ok \in BOOLEAN, ClientOpen(ok) PROVE IInv'
<1>1. /\ UNCHANGED <<serverVars, stdin, said>> /\ stream' = stream /\ listening' = listening
      /\ connection' = connection /\ client.pc = "open"
      /\ open' = IF ok THEN open \cup {"client"} ELSE open
      /\ client' = IF ok THEN At("connect") ELSE Leave(<< >>, "failed")
  BY DEF ClientOpen, SockOpen
<1>2. open = ServerHolds(server) /\ listening' \in BOOLEAN /\ connection = "none"
  BY <1>1, ClientIs DEF IInv, Delivery
<1>3. CASE ok
  <2> DEFINE p == At("connect")
  <2>1. /\ p \in Program /\ ClientPlace(p) /\ ClientHolds(p) = {"client"} /\ p.pc = "connect"
        /\ p.closing = << >> /\ p.why = "none"
    BY Programs, ClientGoes
  <2>2. client' = p /\ open' = ClientHolds(p) \cup ServerHolds(server)
    BY <1>1, <1>2, <1>3, <2>1
  <2> HIDE DEF p
  <2> QED
    BY SMTT(30), <1>1, <1>2, <2>1, <2>2, ClientMoves
<1>4. CASE ~ok
  BY <1>1, <1>2, <1>4, Closings, ClientLeaves
<1> QED
  BY <1>3, <1>4

LEMMA ClientConnectOK == ASSUME IInv, NEW ok \in BOOLEAN, ClientConnect(ok) PROVE IInv'
<1>1. /\ UNCHANGED <<serverVars, stdin, said>> /\ stream' = stream /\ listening' = listening
      /\ connection' = (IF ok THEN "pending" ELSE connection)
      /\ client.pc = "connect" /\ open' = open
      /\ client' = IF ok THEN At("send") ELSE Leave(<<"client">>, "failed")
  BY DEF ClientConnect, SockConnect
<1>2. /\ open = {"client"} \cup ServerHolds(server) /\ listening' \in BOOLEAN
      /\ connection = "none"
  BY <1>1, ClientIs DEF IInv, Delivery
<1>3. CASE ok
  <2> DEFINE p == At("send")
  <2>1. /\ p \in Program /\ ClientPlace(p) /\ ClientHolds(p) = {"client"} /\ p.pc = "send"
        /\ p.closing = << >> /\ p.why = "none"
    BY Programs, ClientGoes
  <2>2. client' = p /\ open' = ClientHolds(p) \cup ServerHolds(server) /\ connection' = "pending"
    BY <1>1, <1>2, <1>3, <2>1
  <2> HIDE DEF p
  <2> QED
    BY <1>1, <1>2, <2>1, <2>2, ClientMoves
<1>4. CASE ~ok
  BY <1>1, <1>2, <1>4, Closings, ClientLeaves
<1> QED
  BY <1>3, <1>4

LEMMA ClientEndOK == ASSUME IInv, ClientEnd PROVE IInv'
<1>1. /\ UNCHANGED <<serverVars, stdin, said>> /\ stream' = stream /\ listening' = listening
      /\ connection' = connection /\ client.pc = "send" /\ open' = open
      /\ client' = Leave(<<"client">>, "end")
  BY DEF ClientEnd, network
<1>2. open = Listed(<<"client">>) \cup ServerHolds(server) /\ listening' \in BOOLEAN
  BY <1>1, ClientIs, Closings
<1> QED
  BY <1>1, <1>2, ClientLeaves

LEMMA ClientCloseOK == ASSUME IInv, ClientClose PROVE IInv'
<1> DEFINE p == Closed(client)
           c == client.closing
<1>1. /\ UNCHANGED <<serverVars, stdin, said>> /\ client.pc = "closing" /\ client' = p
      /\ IF c = << >> THEN UNCHANGED network ELSE SockClose(Head(c))
  BY DEF ClientClose, CloseNext
<1>2. /\ client \in Program /\ c \in {<< >>, <<"client">>} /\ listening \in BOOLEAN
      /\ open = Listed(c) \cup ServerHolds(server)
      /\ ServerHolds(server) \subseteq {"listener", "accepted"}
      /\ connection \in {"none", "pending", "accepted", "closed"}
  BY <1>1, ClientIs DEF ClientPlace
<1>3. /\ p \in Program /\ p.why = client.why
      /\ p.pc = (IF c = << >> THEN "stopped" ELSE "closing")
      /\ p.closing = (IF c = << >> THEN << >> ELSE Tail(c))
  BY <1>1, <1>2, ClosedIs
<1> HIDE DEF p, c
<1>4. CASE c = << >>
  <2>1. /\ stream' = stream /\ listening' = listening /\ connection' = connection /\ open' = open
    BY <1>1, <1>4 DEF network
  <2>2. ClientPlace(p) /\ ClientHolds(p) = Listed(c) /\ p.pc = "stopped"
    BY <1>3, <1>4, Closings DEF ClientPlace, ClientHolds
  <2> QED
    BY <1>1, <1>2, <1>3, <2>1, <2>2, ClientMoves
<1>5. CASE c = <<"client">>
  <2>1. /\ stream' = stream /\ listening' = listening /\ open' = open \ {"client"}
        /\ connection' = connection
    BY <1>1, <1>2, <1>5, Closings DEF SockClose
  <2>2. /\ p.pc = "closing" /\ p.closing = << >>
    BY <1>3, <1>5, Closings
  <2>3. ClientPlace(p) /\ ClientHolds(p) = {}
    BY <2>2, Closings DEF ClientPlace, ClientHolds
  <2>4. open' = ClientHolds(p) \cup ServerHolds(server)
    BY <1>2, <1>5, <2>1, <2>3, Closings
  <2> QED
    BY <1>1, <1>2, <1>3, <2>1, <2>2, <2>3, <2>4, ClientMoves
<1> QED
  BY <1>2, <1>4, <1>5

\* Receiving takes from the front of what is on its way, and the lines are cut of it as they
\* would be of everything that has been received.
LEMMA ServerReceiveOK == ASSUME IInv, NEW n \in 0 .. ReceivedSize, ServerReceive(n) PROVE IInv'
<1> DEFINE bytes == SubSeq(stream, 1, n)
           rest == SubSeq(stream, n + 1, Len(stream))
           all == received \o bytes
           c == FoldLeft(TakeByte, cutter, bytes)
           p == IF n = 0 THEN Leave(EndOfServer, "disconnected")
                ELSE IF c.requested THEN Leave(EndOfServer, "requested") ELSE server
<1>1. TypeOK /\ Holding /\ Delivery /\ CutOf(cutter, received) /\ Requests
  BY DEF IInv
<1>2. /\ stream \in Seq(Byte) /\ received \in Seq(Byte) /\ said \in Seq(Byte) /\ cutter \in Cutters
      /\ Len(cutter.line) <= LineSize
  BY <1>1 DEF TypeOK, NetworkTypeOK
<1>3. /\ server.pc = "receive" /\ n <= Len(stream) /\ n \in Nat
      /\ n = 0 => stream = << >> /\ "client" \notin open
      /\ stream' = rest /\ open' = open /\ listening' = listening /\ connection' = connection
      /\ received' = all /\ cutter' = c /\ server' = p
      /\ stdin' = stdin /\ client' = client /\ said' = said
  BY Constants DEF ServerReceive, SockReceive, clientVars
<1>4. /\ server \in Program /\ server.why = "none" /\ server.closing = << >>
      /\ ServerHolds(server) = {"accepted", "listener"} /\ connection = "accepted"
      /\ open = ClientHolds(client) \cup {"accepted", "listener"} /\ ~cutter.requested
  BY <1>1, <1>3, ServerIs DEF Delivery, Requests
<1>5. bytes \in Seq(Byte) /\ rest \in Seq(Byte) /\ bytes \o rest = stream /\ (n = 0 => bytes = << >>)
  <2>1. /\ Len(stream) \in Nat /\ 1 \in Nat \ {0} /\ n + 1 \in Nat \ {0} /\ n \in Int
        /\ Len(stream) \in Int /\ Len(stream) <= Len(stream)
    BY <1>2, <1>3, LenProperties
  <2>2. /\ bytes \in Seq(Byte) /\ Len(bytes) = (IF 1 <= n THEN n - 1 + 1 ELSE 0)
        /\ \A i \in 1 .. n - 1 + 1 : bytes[i] = stream[1 + i - 1]
    BY <1>2, <1>3, <2>1, PartIsSeq
  <2>3. /\ rest \in Seq(Byte)
        /\ Len(rest) = (IF n + 1 <= Len(stream) THEN Len(stream) - (n + 1) + 1 ELSE 0)
        /\ \A i \in 1 .. Len(stream) - (n + 1) + 1 : rest[i] = stream[n + 1 + i - 1]
    BY <1>2, <2>1, PartIsSeq
  <2> DEFINE k == Len(stream)
             both == bytes \o rest
  <2>4. /\ both \in Seq(Byte) /\ Len(both) = Len(bytes) + Len(rest)
        /\ \A i \in 1 .. Len(bytes) + Len(rest) :
              both[i] = IF i <= Len(bytes) THEN bytes[i] ELSE rest[i - Len(bytes)]
    BY <2>2, <2>3, ConcatProperties
  <2>5. Len(bytes) = n /\ Len(rest) = k - n /\ k \in Nat /\ n \in Nat /\ n <= k
    <3> HIDE DEF bytes, rest, k
    <3>1. k \in Nat /\ k = Len(stream)
      BY <2>1 DEF k
    <3> QED
      BY <1>3, <2>2, <2>3, <3>1
  <2>6. Len(both) = k
    <3> HIDE DEF bytes, rest, both, k
    <3> QED
      BY <2>4, <2>5
  <2>7. ASSUME NEW i \in 1 .. k PROVE both[i] = stream[i]
    <3>1. i \in Int /\ 1 <= i /\ i <= k /\ i \in 1 .. Len(bytes) + Len(rest)
      <4> HIDE DEF bytes, rest, k
      <4> QED
        BY <2>5
    <3>2. CASE i <= n
      <4>1. both[i] = bytes[i]
        BY <2>4, <2>5, <3>1, <3>2
      <4>2. i \in 1 .. n - 1 + 1 /\ 1 + i - 1 = i
        BY <2>5, <3>1, <3>2
      <4> QED
        BY <2>2, <4>1, <4>2
    <3>3. CASE i > n
      <4>1. both[i] = rest[i - n]
        BY <2>4, <2>5, <3>1, <3>3
      <4>2. i - n \in 1 .. Len(stream) - (n + 1) + 1 /\ n + 1 + (i - n) - 1 = i
        BY <2>5, <3>1, <3>3
      <4>3. rest[i - n] = stream[n + 1 + (i - n) - 1]
        BY <2>3, <4>2
      <4> QED
        BY <4>1, <4>2, <4>3
    <3> QED
      BY SMTT(30), <2>5, <3>1, <3>2, <3>3
  <2>8. both = stream
    BY <1>2, <2>4, <2>6, <2>7, SeqEqual
  <2>9. n = 0 => bytes = << >>
    BY <2>2, <2>5, EmptySeq
  <2> QED
    BY <2>2, <2>3, <2>8, <2>9
<1> HIDE DEF bytes, rest
<1>6. /\ c \in Cutters /\ Len(c.line) <= LineSize /\ CutOf(c, all) /\ (bytes = << >> => c = cutter)
  BY <1>1, <1>2, <1>5, FoldTakes
<1>7. all \in Seq(Byte) /\ (n = 0 => all = received)
  <2>1. all \in Seq(Byte)
    BY <1>2, <1>5, ConcatProperties
  <2>2. received \o << >> = received
    BY <1>2, ConcatEmptySeq
  <2> QED
    BY <1>5, <2>1, <2>2
<1>8. received \o (bytes \o rest) = all \o rest
  <2>1. received \in Seq(Byte) /\ bytes \in Seq(Byte) /\ rest \in Seq(Byte)
    BY <1>2, <1>5
  <2>2. (received \o bytes) \o rest = received \o (bytes \o rest)
    BY ONLY SMTT(30), <2>1, ConcatAssociative
  <2> QED
    BY <2>2
<1>9. said = all \o rest
  BY <1>1, <1>4, <1>5, <1>8 DEF Delivery
<1> HIDE DEF c, all
<1>10. /\ p \in Program /\ ServerPlace(p) /\ ServerHolds(p) = {"accepted", "listener"}
       /\ p.pc \in {"receive", "closing"}
       /\ p.pc = "receive" => n # 0 /\ ~c.requested /\ p.why = "none"
       /\ p.why \in {"none", "disconnected", "requested"}
       /\ p.why = "requested" => c.requested
       /\ p.why = "disconnected" => n = 0
  <2> DEFINE Left(why) == Leave(EndOfServer, why)
  <2>4. ASSUME NEW why \in {"disconnected", "requested"}
        PROVE  /\ Left(why) \in Program /\ ServerPlace(Left(why)) /\ Left(why).pc = "closing"
               /\ ServerHolds(Left(why)) = {"accepted", "listener"} /\ Left(why).why = why
    <3>1. Left(why) \in Program /\ Left(why).pc = "closing" /\ Left(why).why = why
      BY Programs
    <3>2. ServerPlace(Left(why)) /\ ServerHolds(Left(why)) = Listed(EndOfServer)
      BY ServerGoes
    <3> HIDE DEF Left
    <3> QED
      BY SMTT(30), <3>1, <3>2, Closings
  <2>1. CASE n = 0
    <3>1. p = Left("disconnected")
      BY <2>1
    <3> HIDE DEF Left
    <3> QED
      BY <2>1, <2>4, <3>1
  <2>2. CASE n # 0 /\ c.requested
    <3>1. p = Left("requested")
      BY <2>2
    <3> HIDE DEF Left
    <3> QED
      BY <2>2, <2>4, <3>1
  <2>3. CASE n # 0 /\ ~c.requested
    BY <1>3, <1>4, <2>3, ServerIs
  <2> HIDE DEF p
  <2> QED
    BY <2>1, <2>2, <2>3
<1> HIDE DEF p
<1>11. TypeOK'
  BY <1>1, <1>3, <1>5, <1>6, <1>7, <1>10 DEF TypeOK, NetworkTypeOK
<1>12. Holding'
  BY <1>1, <1>3, <1>4, <1>10 DEF Holding
<1>13. n = 0 => all = said /\ client.pc \in {"closing", "stopped"}
  <2> SUFFICES ASSUME n = 0 PROVE all = said /\ client.pc \in {"closing", "stopped"}
    OBVIOUS
  <2>1. stream = << >> /\ "client" \notin open
    BY <1>3
  <2>2. said = received \o << >> /\ received \o << >> = received
    BY <1>1, <1>2, <1>4, <2>1, ConcatEmptySeq DEF Delivery
  <2>3. client.pc \notin {"open", "connect", "send"}
    BY <1>1, <1>4, <2>1 DEF Delivery, Holding, ClientHolds
  <2> QED
    BY <1>1, <1>7, <2>2, <2>3 DEF Holding, ClientPlace
<1>14. Delivery'
  <2>1. (\E more \in Seq(Byte) : said = received \o more)'
    BY <1>3, <1>5, <1>9
  <2>2. (server.why = "disconnected" => received = said /\ client.pc \in {"closing", "stopped"})'
    BY <1>3, <1>10, <1>13
  <2>3. (/\ client.pc \in {"open", "connect"} => connection = "none"
         /\ client.pc = "send" => connection # "none"
         /\ server.pc = "receive" \/ server.closing = EndOfServer => connection = "accepted"
         /\ connection = "none" => said = << >> /\ received = << >> /\ stream = << >>
         /\ connection # "closed" => said = received \o stream)'
    BY <1>1, <1>3, <1>4, <1>9 DEF Delivery
  <2> QED
    BY <2>1, <2>2, <2>3 DEF Delivery
<1>15. CutOf(cutter', received')
  BY <1>3, <1>6
<1>16. Requests'
  BY <1>1, <1>3, <1>4, <1>5, <1>6, <1>10 DEF Requests
<1> QED
  BY <1>11, <1>12, <1>14, <1>15, <1>16 DEF IInv

\* Sending puts the piece at the end of what is on its way, and a client that goes on has not
\* asked to stop.
LEMMA ClientSendOK == ASSUME IInv, NEW n \in 0 .. InputSize - 1, ClientSend(n) PROVE IInv'
<1> DEFINE f == FgetsCount(stdin)
           input == SubSeq(stdin, 1, f)
           piece == SubSeq(input, 1, n)
           next == SubSeq(stdin, Len(input) + 1, Len(stdin))
           after == said \o piece
           asked == AsksToStop(input)
           p == IF n < Len(input) THEN Leave(<<"client">>, "failed")
                ELSE IF asked THEN Leave(<<"client">>, "requested") ELSE client
<1>1. TypeOK /\ Holding /\ Delivery /\ CutOf(cutter, received) /\ Requests
  BY DEF IInv
<1>2. /\ stream \in Seq(Byte) /\ received \in Seq(Byte) /\ said \in Seq(Byte) /\ stdin \in Seq(Byte)
  BY <1>1 DEF TypeOK, NetworkTypeOK
<1>3. /\ client.pc = "send" /\ stdin # << >> /\ n <= Len(input)
      /\ stream' = (IF connection = "closed" THEN stream ELSE stream \o piece)
      /\ open' = open /\ listening' = listening /\ connection' = connection
      /\ said' = after /\ stdin' = next /\ client' = p
      /\ server' = server /\ cutter' = cutter /\ received' = received
  BY DEF ClientSend, SockSend, serverVars
<1>4. f \in 0 .. Len(stdin) /\ Len(stdin) \in Nat
  BY <1>2, FgetsIs
<1>5. input \in Seq(Byte) /\ Len(input) = f
  <2>1. 0 \in 0 .. FgetsCount(stdin)
    BY <1>4
  <2> QED
    BY <1>2, <2>1, InputIs
<1>6. n \in 0 .. FgetsCount(stdin)
  <2>1. n \in Nat /\ 0 <= n
    BY Constants
  <2>2. n <= f /\ f \in Nat
    BY <1>3, <1>4, <1>5
  <2> QED
    BY <2>1, <2>2
<1>7. piece \in Seq(Byte) /\ next \in Seq(Byte)
  BY <1>2, <1>6, InputIs
<1>8. /\ client \in Program /\ client.why = "none" /\ client.closing = << >> /\ ClientPlace(client)
      /\ ClientHolds(client) = {"client"} /\ open = {"client"} \cup ServerHolds(server)
      /\ connection # "none" /\ server.why # "disconnected"
  BY <1>1, <1>3, ClientIs DEF Delivery
<1>9. ~HasStop(Lines(said)) /\ (Rest(said) = << >> \/ Len(Rest(said)) >= InputSize - 1)
  BY <1>1, <1>3, <1>8 DEF Requests
<1>10. /\ ~asked \/ n < Len(input) => ~HasStop(Lines(after))
       /\ (n = Len(input) /\ next # << >>) => Rest(after) = << >> \/ Len(Rest(after)) >= InputSize - 1
  BY <1>2, <1>6, <1>9, SendsRight
<1>11. after \in Seq(Byte) /\ stream \o piece \in Seq(Byte)
  BY <1>2, <1>7, ConcatProperties
<1>12. ASSUME NEW rest \in Seq(Byte), said = received \o rest
       PROVE  rest \o piece \in Seq(Byte) /\ after = received \o (rest \o piece)
  <2>1. received \in Seq(Byte) /\ rest \in Seq(Byte) /\ piece \in Seq(Byte)
    BY <1>2, <1>7
  <2>2. (received \o rest) \o piece = received \o (rest \o piece)
    <3> HIDE DEF piece
    <3> QED
      BY ONLY SMTT(30), <2>1, ConcatAssociative
  <2>3. rest \o piece \in Seq(Byte)
    BY ONLY <2>1, ConcatProperties
  <2> QED
    BY <1>12, <2>2, <2>3
<1>13. f \in Nat /\ n \in Nat /\ (n < Len(input) \/ n = Len(input))
  BY <1>4, <1>5, <1>6
<1> HIDE DEF asked, input, piece, next, after
<1>14. /\ p \in Program /\ ClientPlace(p) /\ ClientHolds(p) = {"client"}
       /\ p.pc \in {"send", "closing"} /\ (p.pc = "send" => n = Len(input))
       /\ p.why # "requested" => ~asked \/ n < Len(input)
  <2> DEFINE Left(why) == Leave(<<"client">>, why)
  <2>1. ASSUME NEW why \in {"failed", "requested"}
        PROVE  /\ Left(why) \in Program /\ ClientPlace(Left(why)) /\ Left(why).pc = "closing"
               /\ ClientHolds(Left(why)) = {"client"} /\ Left(why).why = why
    <3>1. Left(why) \in Program /\ Left(why).pc = "closing" /\ Left(why).why = why
      BY Programs
    <3>2. ClientPlace(Left(why)) /\ ClientHolds(Left(why)) = Listed(<<"client">>)
      BY ClientGoes
    <3> HIDE DEF Left
    <3> QED
      BY SMTT(30), <3>1, <3>2, Closings
  <2>2. CASE n < Len(input)
    <3>1. p = Left("failed")
      BY <2>2
    <3> HIDE DEF Left
    <3> QED
      BY <2>1, <2>2, <3>1
  <2>3. CASE ~(n < Len(input)) /\ asked
    <3>1. p = Left("requested")
      BY <2>3
    <3> HIDE DEF Left
    <3> QED
      BY <2>1, <2>3, <3>1
  <2>4. CASE ~(n < Len(input)) /\ ~asked
    <3>1. p = client
      BY <2>4
    <3> QED
      BY <1>3, <1>8, <1>13, <2>4, <3>1
  <2> HIDE DEF p
  <2> QED
    BY <2>2, <2>3, <2>4
<1> HIDE DEF p
<1>15. TypeOK'
  BY <1>1, <1>3, <1>7, <1>11, <1>14 DEF TypeOK, NetworkTypeOK
<1>16. Holding'
  BY <1>1, <1>3, <1>8, <1>14 DEF Holding
<1>17. Delivery'
  <2>1. (\E rest \in Seq(Byte) : said = received \o rest)'
    <3>1. PICK rest \in Seq(Byte) : said = received \o rest
      BY <1>1 DEF Delivery
    <3>2. rest \o piece \in Seq(Byte) /\ said' = received' \o (rest \o piece)
      BY <1>3, <1>12, <3>1
    <3> QED
      BY <3>2
  <2>2. (connection # "closed" => said = received \o stream)'
    BY <1>1, <1>2, <1>3, <1>12 DEF Delivery
  <2>3. (/\ client.pc \in {"open", "connect"} => connection = "none"
         /\ client.pc = "send" => connection # "none"
         /\ server.pc = "receive" \/ server.closing = EndOfServer => connection = "accepted"
         /\ connection = "none" => said = << >> /\ received = << >> /\ stream = << >>)'
    BY <1>1, <1>3, <1>8, <1>14 DEF Delivery
  <2>4. (server.why = "disconnected" => received = said /\ client.pc \in {"closing", "stopped"})'
    BY <1>3, <1>8
  <2> QED
    BY <2>1, <2>2, <2>3, <2>4 DEF Delivery
<1>18. CutOf(cutter', received')
  BY <1>1, <1>3
<1>19. Requests'
  BY <1>1, <1>3, <1>10, <1>14 DEF Requests
<1> QED
  BY <1>15, <1>16, <1>17, <1>18, <1>19 DEF IInv

LEMMA NextOK == IInv /\ [Next]_vars => IInv'
<1> SUFFICES ASSUME IInv, [Next]_vars PROVE IInv'
  OBVIOUS
<1>1. CASE \E ok \in BOOLEAN : ServerOpen(ok) \/ ServerBind(ok) \/ ServerListen(ok) \/ ServerAccept(ok)
  BY <1>1, ServerOpenOK, ServerBindOK, ServerListenOK, ServerAcceptOK
<1>2. CASE \E n \in 0 .. ReceivedSize : ServerReceive(n)
  BY <1>2, ServerReceiveOK
<1>3. CASE ServerReceiveFails
  BY <1>3, ServerReceiveFailsOK
<1>4. CASE ServerClose
  BY <1>4, ServerCloseOK
<1>5. CASE \E ok \in BOOLEAN : ClientOpen(ok) \/ ClientConnect(ok)
  BY <1>5, ClientOpenOK, ClientConnectOK
<1>6. CASE \E n \in 0 .. InputSize - 1 : ClientSend(n)
  BY <1>6, ClientSendOK
<1>7. CASE ClientEnd
  BY <1>7, ClientEndOK
<1>8. CASE ClientClose
  BY <1>8, ClientCloseOK
<1>9. CASE UNCHANGED vars
  <2>1. /\ stdin' = stdin /\ client' = client /\ said' = said /\ server' = server
        /\ cutter' = cutter /\ received' = received /\ open' = open /\ listening' = listening
        /\ connection' = connection /\ stream' = stream
    BY <1>9 DEF vars, network, clientVars, serverVars
  <2>2. TypeOK' /\ Holding' /\ Delivery' /\ Requests'
    BY ZenonT(40), <2>1 DEF IInv, TypeOK, NetworkTypeOK, Holding, Delivery, Requests
  <2>3. CutOf(cutter', received')
    BY <2>1 DEF IInv
  <2> QED
    BY <2>2, <2>3 DEF IInv
<1>10. TRUE \in BOOLEAN /\ FALSE \in BOOLEAN
  OBVIOUS
<1>11. CASE Next
  BY <1>1, <1>2, <1>3, <1>4, <1>5, <1>6, <1>7, <1>8, <1>10, <1>11
     DEF Next, ServerRuns, ServerFails, ClientNext
<1> QED
  BY <1>9, <1>11

----------------------------------------------------------------------------
(***************************************************************************)
(* What follows from it.                                                   *)
(***************************************************************************)

\* The inductive invariant holds in every state.
THEOREM Invariance == Spec => []IInv
<1> QED
  BY InitOK, NextOK, PTL DEF Spec

\* The server's line stays within its array (network_tcp_server.c's line[1024]), whatever is
\* received and however long it goes without the end of a line.
THEOREM TypesAreKept == Spec => []TypeOK
<1>1. IInv => TypeOK
  BY DEF IInv
<1> QED
  BY <1>1, Invariance, PTL

\* For every grouping of the bytes by fgets, by the sends and by the receives, the server prints
\* the lines that would be cut of all of them at once, and says that the client has disconnected
\* only when it has received everything.
THEOREM GroupingIsHidden == Spec => []PiecesDoNotMatter
<1>1. IInv => PiecesDoNotMatter
  BY DEF IInv, CutOf, Delivery, PiecesDoNotMatter
<1> QED
  BY <1>1, Invariance, PTL

\* Both programs close what they have opened, on every way out of main.
THEOREM NoSocketIsLeft == Spec => []SocketsAreClosed
<1>1. ASSUME IInv PROVE SocketsAreClosed
  <2>1. server.pc = "stopped" => ServerHolds(server) = {}
    BY <1>1, Closings DEF IInv, Holding, ServerPlace, ServerHolds
  <2>2. client.pc = "stopped" => ClientHolds(client) = {}
    BY <1>1, Closings DEF IInv, Holding, ClientPlace, ClientHolds
  <2> QED
    BY <1>1, <2>1, <2>2, ServerIs, ClientIs DEF SocketsAreClosed
<1> QED
  BY <1>1, Invariance, PTL

\* The server stops on request only when the client has stopped for having asked it to; and when
\* the client's request was a line of its own, the server does not take it for a hang-up.
THEOREM TheyAgree == Spec => []AgreeOnTheEnd
<1>1. ASSUME IInv PROVE AgreeOnTheEnd
  <2> SUFFICES ASSUME LinesFit(said)
               PROVE  /\ server.why = "requested" => client.why = "requested"
                      /\ (client.why = "requested" /\ LastInputIsLine) => server.why # "disconnected"
    BY DEF AgreeOnTheEnd
  <2>1. TypeOK /\ Delivery /\ CutOf(cutter, received) /\ Requests
    BY <1>1 DEF IInv
  <2>2. said \in Seq(Byte) /\ received \in Seq(Byte)
    BY <2>1 DEF TypeOK
  <2>3. PICK rest \in Seq(Byte) : said = received \o rest
    BY <2>1 DEF Delivery
  <2>4. LinesFit(received)
    BY <2>2, <2>3, FitsBefore
  <2>5. cutter.requested = HasStop(Lines(received))
    BY <2>1, <2>4 DEF CutOf
  <2>6. HasStop(Lines(received)) => HasStop(Lines(said))
    BY <2>2, <2>3, StopsStay
  <2>7. server.why = "requested" => client.why = "requested"
    BY <2>1, <2>5, <2>6 DEF Requests
  <2>8. server.why = "disconnected" => ~HasStop(Lines(said))
    BY <2>1, <2>5 DEF Requests, Delivery
  <2>9. LastInputIsLine => HasStop(Lines(said))
    BY <2>2, LastLineAsks
  <2> QED
    BY <2>7, <2>8, <2>9
<1> QED
  BY <1>1, Invariance, PTL

----------------------------------------------------------------------------
(***************************************************************************)
(* The two programs are a client that sends lines and a server that prints *)
(* them.                                                                   *)
(***************************************************************************)

\* Lines that begin with some others.
Begins(all, lines) == Len(lines) <= Len(all) /\ \A n \in 1 .. Len(lines) : all[n] = lines[n]

\* More bytes leave the lines there are as they are.
LEMMA MoreLines ==
    ASSUME NEW bytes \in Seq(Byte), NEW more \in Seq(Byte)
    PROVE  Begins(Lines(bytes \o more), Lines(bytes))
<1> DEFINE both == bytes \o more
           k == Len(Lines(bytes))
<1>1. both \in Seq(Byte)
  BY ConcatProperties
<1>2. k \in Nat /\ Len(Lines(both)) \in Nat
  BY <1>1, LinesAre, LenProperties
<1>3. \A n \in 1 .. k : n \in 1 .. Len(Lines(both)) /\ Lines(both)[n] = Lines(bytes)[n]
  BY LinesStay
<1>4. k <= Len(Lines(both))
  <2> HIDE DEF k, both
  <2>1. k \in 1 .. k => k \in 1 .. Len(Lines(both))
    BY <1>3
  <2> QED BY <1>2, <2>1
<1> QED BY <1>3, <1>4 DEF Begins

\* The first lines of both are the same.
LEMMA FirstLines ==
    ASSUME NEW all \in Seq(Seq(Byte)), NEW lines \in Seq(Seq(Byte)), Begins(all, lines),
           NEW k \in 0 .. Len(lines)
    PROVE  SubSeq(all, 1, k) = SubSeq(lines, 1, k)
<1>1. Len(lines) \in Nat /\ Len(all) \in Nat /\ k \in Nat /\ k <= Len(lines) /\ k <= Len(all)
  BY LenProperties DEF Begins
<1>2. SubSeq(all, 1, k) = [n \in 1 .. k |-> all[n]]
  BY <1>1
<1>3. SubSeq(lines, 1, k) = [n \in 1 .. k |-> lines[n]]
  BY <1>1
<1>4. \A n \in 1 .. k : all[n] = lines[n]
  BY <1>1 DEF Begins
<1> QED BY <1>2, <1>3, <1>4

LEMMA BeginsIsPrefix ==
    ASSUME NEW all \in Seq(Seq(Byte)), NEW lines \in Seq(Seq(Byte)), Begins(all, lines)
    PROVE  IsPrefix(lines, all)
<1>1. Len(lines) \in Nat /\ Len(lines) \in 0 .. Len(lines) /\ Len(lines) <= Len(all)
  BY LenProperties DEF Begins
<1>2. SubSeq(all, 1, Len(lines)) = SubSeq(lines, 1, Len(lines))
  BY <1>1, FirstLines
<1>3. SubSeq(lines, 1, Len(lines)) = lines
  BY SubSeqFull
<1> QED BY <1>1, <1>2, <1>3 DEF IsPrefix

\* How far the lines go up to the one that asks to stop.
LEMMA UpToStopIs ==
    ASSUME NEW lines \in Seq(Seq(Byte))
    PROVE  \E k \in 0 .. Len(lines) :
              /\ UpToStop(lines) = SubSeq(lines, 1, k)
              /\ \A m \in 1 .. k - 1 : lines[m] # Disconnect
              /\ IF HasStop(lines) THEN k # 0 /\ lines[k] = Disconnect
                 ELSE k = Len(lines) /\ \A m \in 1 .. k : lines[m] # Disconnect
<1> DEFINE stops == {n \in DOMAIN lines : lines[n] = Disconnect}
<1>1. Len(lines) \in Nat /\ DOMAIN lines = 1 .. Len(lines)
  BY LenProperties
<1>2. HasStop(lines) <=> stops # {}
  BY DEF HasStop
<1>3. CASE stops = {}
  <2> DEFINE k == Len(lines)
  <2>1. UpToStop(lines) = lines /\ SubSeq(lines, 1, k) = lines
    BY <1>3, SubSeqFull DEF UpToStop
  <2>2. k \in 0 .. Len(lines) /\ \A m \in 1 .. k : lines[m] # Disconnect
    BY <1>1, <1>3
  <2>3. \A m \in 1 .. k - 1 : m \in 1 .. k
    BY <1>1
  <2> QED BY <1>2, <1>3, <2>1, <2>2, <2>3
<1>4. CASE stops # {}
  <2> DEFINE k == Min(stops)
  <2>1. stops \subseteq Nat /\ stops \subseteq 1 .. Len(lines)
    BY <1>1
  <2>2. k \in stops /\ \A x \in stops : k <= x
    <3> HIDE DEF stops
    <3> QED BY <1>4, <2>1, MinIs
  <2>3. UpToStop(lines) = SubSeq(lines, 1, k)
    BY <1>4 DEF UpToStop
  <2> HIDE DEF k
  <2>4. k \in 1 .. Len(lines) /\ lines[k] = Disconnect
    BY <1>1, <2>2
  <2>5. \A m \in 1 .. k - 1 : lines[m] # Disconnect
    <3> SUFFICES ASSUME NEW m \in 1 .. k - 1, lines[m] = Disconnect PROVE FALSE
      OBVIOUS
    <3>1. m \in 1 .. Len(lines) /\ m < k /\ m \in Nat /\ k \in Nat
      BY <1>1, <2>4
    <3>2. k <= m
      BY <1>1, <2>2, <3>1
    <3> QED BY <3>1, <3>2
  <2>6. k \in 0 .. Len(lines) /\ k # 0
    BY <1>1, <2>4
  <2> QED BY <1>2, <1>4, <2>3, <2>4, <2>5, <2>6
<1> QED BY <1>3, <1>4

\* The first states are first states of the line server.
LEMMA InitPromised == Init => Promised!Init
<1> SUFFICES ASSUME Init PROVE Promised!Init
  OBVIOUS
<1>1. said = << >> /\ cutter.printed = << >> /\ server.why = "none"
  BY DEF Init
<1>2. Lines(said) = << >>
  BY <1>1, NothingYet
<1>3. LinesFit(<< >>)
  <2>1. Len(<< >>) = 0 /\ LineSize \in Nat \ {0}
    BY EmptySeq, ChatAssumption
  <2>2. 1 .. 0 - LineSize = {}
    BY <2>1
  <2> QED BY <2>1, <2>2 DEF LinesFit
<1> QED BY Zenon, <1>1, <1>2, <1>3 DEF Promised!Init

\* A step that is to be shown to be one of the promised ones has not sent anything that has no room.
LEMMA StepPromised ==
    ASSUME IInv, NEW more \in Seq(Byte), said' = said \o more,
           LinesFit(said') /\ LinesFit(said) =>
              \/ Promised!Send
              \/ \E n \in Len(cutter.printed) + 1 .. Len(Lines(said)) : Promised!PrintTo(n)
              \/ Promised!HangUp
              \/ Promised!Fail
              \/ UNCHANGED <<Lines(said), cutter.printed, server.why>>
    PROVE  [Promised!Next]_(Promised!vars)
<1>1. said \in Seq(Byte)
  BY DEF IInv, TypeOK
<1>2. LinesFit(said') => LinesFit(said)
  BY <1>1, FitsBefore
<1>3. LinesFit(said)' <=> LinesFit(said')
  BY DEF LinesFit
<1>4. LinesFit(said) \in BOOLEAN /\ LinesFit(said') \in BOOLEAN
  BY DEF LinesFit
<1>5. CASE ~LinesFit(said')
  <2>1. LinesFit(said)' = FALSE
    BY <1>3, <1>5
  <2> QED BY Zenon, <2>1 DEF Promised!Next, Promised!Overflow
<1>6. CASE LinesFit(said')
  <2>1. LinesFit(said) /\ UNCHANGED LinesFit(said)
    BY <1>2, <1>3, <1>4, <1>6
  <2> QED BY Zenon, <1>6, <2>1 DEF Promised!Next, Promised!vars
<1> QED BY Zenon, <1>5, <1>6

\* Nothing of what is promised changes.
LEMMA SameSeen ==
    ASSUME IInv, said' = said, cutter' = cutter, server'.why = server.why
    PROVE  [Promised!Next]_(Promised!vars)
<1>1. << >> \in Seq(Byte) /\ said' = said \o << >>
  <2>1. said \in Seq(Byte)
    BY DEF IInv, TypeOK
  <2> QED BY <2>1, ConcatEmptySeq, EmptySeq
<1>2. UNCHANGED <<Lines(said), cutter.printed, server.why>>
  <2>1. Lines(said)' = Lines(said')
    BY Zenon DEF Lines, Ends, LineTo, NthEnd
  <2>2. Lines(said') = Lines(said) /\ cutter'.printed = cutter.printed
    BY Zenon
  <2> QED BY <2>1, <2>2
<1> QED BY Zenon, <1>1, <1>2, StepPromised

\* A server that leaves because a call has failed.
LEMMA FailPromised ==
    ASSUME IInv, said' = said, cutter' = cutter, server.why = "none", server'.why = "failed"
    PROVE  [Promised!Next]_(Promised!vars)
<1>1. << >> \in Seq(Byte) /\ said' = said \o << >>
  <2>1. said \in Seq(Byte)
    BY DEF IInv, TypeOK
  <2> QED BY <2>1, ConcatEmptySeq, EmptySeq
<1>2. UNCHANGED <<Lines(said), cutter.printed>>
  <2>1. Lines(said)' = Lines(said')
    BY Zenon DEF Lines, Ends, LineTo, NthEnd
  <2>2. Lines(said') = Lines(said) /\ cutter'.printed = cutter.printed
    BY Zenon
  <2> QED BY <2>1, <2>2
<1>3. Promised!Fail
  BY Zenon, <1>2 DEF Promised!Fail
<1> QED BY Zenon, <1>1, <1>3, StepPromised

\* What the client sends adds lines behind those that it has sent.
LEMMA SendPromised ==
    ASSUME IInv, NEW n \in 0 .. InputSize - 1, ClientSend(n)
    PROVE  [Promised!Next]_(Promised!vars)
<1> DEFINE input == SubSeq(stdin, 1, FgetsCount(stdin))
           more == SubSeq(input, 1, n)
<1>1. said \in Seq(Byte) /\ stdin \in Seq(Byte)
  BY DEF IInv, TypeOK
<1>2. said' = said \o more /\ n <= Len(input) /\ server' = server /\ cutter' = cutter
  BY DEF ClientSend, SockSend, serverVars
<1>3. more \in Seq(Byte)
  <2>1. FgetsCount(stdin) \in 0 .. Len(stdin)
    BY <1>1, FgetsIs
  <2>2. 0 \in 0 .. FgetsCount(stdin)
    BY <2>1
  <2>3. Len(input) = FgetsCount(stdin)
    BY <1>1, <2>2, InputIs
  <2>4. n \in 0 .. FgetsCount(stdin)
    BY <1>2, <2>1, <2>3, Constants
  <2> QED BY <1>1, <2>4, InputIs
<1> HIDE DEF more
<1>4. said' \in Seq(Byte)
  BY <1>1, <1>2, <1>3, ConcatProperties
<1>5. Lines(said)' = Lines(said')
  BY Zenon DEF Lines, Ends, LineTo, NthEnd
<1>6. Lines(said) \in Seq(Seq(Byte)) /\ Lines(said') \in Seq(Seq(Byte))
  BY <1>1, <1>4, LinesAre
<1>7. IsPrefix(Lines(said), Lines(said'))
  <2>1. Begins(Lines(said'), Lines(said))
    BY <1>1, <1>2, <1>3, MoreLines
  <2> QED BY <1>6, <2>1, BeginsIsPrefix
<1>8. Promised!Send
  <2>1. cutter'.printed = cutter.printed /\ server'.why = server.why
    BY Zenon, <1>2
  <2>2. Lines(said)' \in Seq(Seq(Byte)) /\ IsPrefix(Lines(said), Lines(said)')
    BY Zenon, <1>5, <1>6, <1>7
  <2> DEFINE now == Lines(said)
             next == Lines(said)'
  <2> HIDE DEF now, next
  <2>3. Promised!IsPrefix(now, next)
    BY Zenon, <2>2 DEF IsPrefix, Promised!IsPrefix, now, next
  <2> QED BY <2>1, <2>2, <2>3 DEF Promised!Send, now, next
<1> QED BY Zenon, <1>2, <1>3, <1>8, StepPromised

\* What a server prints of some bytes, and then of more, all of which have been said.
LEMMA PrintsOn ==
    ASSUME NEW all \in Seq(Seq(Byte)), NEW before \in Seq(Seq(Byte)), NEW after \in Seq(Seq(Byte)),
           Begins(after, before), Begins(all, after), ~HasStop(before)
    PROVE  \/ ~HasStop(after) /\ UpToStop(after) = UpToStop(before)
           \/ \E n \in Len(UpToStop(before)) + 1 .. Len(all) :
                 /\ \A m \in 1 .. n - 1 : all[m] # Disconnect
                 /\ UpToStop(after) = SubSeq(all, 1, n)
                 /\ all[n] = Disconnect <=> HasStop(after)
<1>1. Len(before) \in Nat /\ Len(after) \in Nat /\ Len(all) \in Nat
  BY LenProperties
<1>2. /\ Len(before) <= Len(after) /\ Len(after) <= Len(all)
      /\ \A m \in 1 .. Len(before) : after[m] = before[m]
      /\ \A m \in 1 .. Len(after) : all[m] = after[m]
  BY DEF Begins
<1>3. UpToStop(before) = before /\ \A m \in 1 .. Len(before) : before[m] # Disconnect
  <2>1. PICK k \in 0 .. Len(before) :
           /\ UpToStop(before) = SubSeq(before, 1, k)
           /\ k = Len(before) /\ \A m \in 1 .. k : before[m] # Disconnect
    BY UpToStopIs
  <2> QED BY <2>1, SubSeqFull
<1>4. PICK n \in 0 .. Len(after) :
         /\ UpToStop(after) = SubSeq(after, 1, n)
         /\ \A m \in 1 .. n - 1 : after[m] # Disconnect
         /\ IF HasStop(after) THEN n # 0 /\ after[n] = Disconnect
            ELSE n = Len(after) /\ \A m \in 1 .. n : after[m] # Disconnect
  BY UpToStopIs
<1>5. SubSeq(all, 1, n) = SubSeq(after, 1, n)
  BY FirstLines
<1>6. ASSUME n \in Len(before) + 1 .. Len(all)
      PROVE  \E k \in Len(UpToStop(before)) + 1 .. Len(all) :
                 /\ \A m \in 1 .. k - 1 : all[m] # Disconnect
                 /\ UpToStop(after) = SubSeq(all, 1, k)
                 /\ all[k] = Disconnect <=> HasStop(after)
  <2>1. n \in 1 .. Len(after) /\ \A m \in 1 .. n - 1 : m \in 1 .. Len(after)
    BY <1>1, <1>6
  <2>2. \A m \in 1 .. n - 1 : all[m] # Disconnect
    BY <1>2, <1>4, <2>1
  <2>3. all[n] = after[n]
    BY <1>2, <2>1
  <2>4. after[n] = Disconnect <=> HasStop(after)
    <3>1. ~HasStop(after) => n \in 1 .. n
      BY <1>1, <2>1
    <3> QED BY Zenon, <1>4, <3>1
  <2> QED BY Zenon, <1>3, <1>4, <1>5, <1>6, <2>2, <2>3, <2>4
<1>7. CASE n > Len(before)
  <2>1. n \in Len(before) + 1 .. Len(all)
    BY <1>1, <1>2, <1>7
  <2> QED BY Zenon, <1>6, <2>1
<1>8. CASE ~(n > Len(before))
  <2>1. ~HasStop(after)
    <3> SUFFICES ASSUME HasStop(after) PROVE FALSE
      OBVIOUS
    <3>1. n \in 1 .. Len(before) /\ after[n] = Disconnect
      BY <1>1, <1>4, <1>8
    <3> QED BY Zenon, <1>2, <1>3, <3>1
  <2>2. n = Len(after) /\ n = Len(before)
    BY <1>1, <1>2, <1>4, <1>8, <2>1
  <2>3. SubSeq(after, 1, n) = SubSeq(before, 1, n) /\ SubSeq(before, 1, n) = before
    <3>1. n \in 0 .. Len(before)
      BY <1>1, <2>2
    <3> QED BY <2>2, <3>1, FirstLines, SubSeqFull
  <2> QED BY Zenon, <1>3, <1>4, <2>1, <2>3
<1> QED BY Zenon, <1>7, <1>8

\* What is received prints some lines or none, or shows that the client has gone.
LEMMA ReceivePromised ==
    ASSUME IInv, NEW n \in 0 .. ReceivedSize, ServerReceive(n)
    PROVE  [Promised!Next]_(Promised!vars)
<1> DEFINE bytes == SubSeq(stream, 1, n)
           all == received \o bytes
           c == FoldLeft(TakeByte, cutter, bytes)
<1>1. IInv'
  BY ServerReceiveOK
<1>2. /\ said' = said /\ received' = all /\ server.pc = "receive" /\ cutter' = c /\ n <= Len(stream)
      /\ server' = IF n = 0 THEN Leave(EndOfServer, "disconnected")
                   ELSE IF c.requested THEN Leave(EndOfServer, "requested") ELSE server
  BY DEF ServerReceive, SockReceive, clientVars
<1>3. /\ said \in Seq(Byte) /\ received \in Seq(Byte) /\ stream \in Seq(Byte)
      /\ cutter \in Cutters /\ Len(cutter.line) <= LineSize /\ CutOf(cutter, received)
      /\ server.why = "none" /\ ~cutter.requested
  <2>1. server.why = "none" /\ ~cutter.requested
    BY <1>2, ServerIs DEF IInv, Requests
  <2> QED BY <2>1 DEF IInv, TypeOK, NetworkTypeOK
<1>4. bytes \in Seq(Byte) /\ (n = 0 => bytes = << >>)
  <2>1. n \in Int /\ n <= Len(stream) /\ 1 \in Nat \ {0}
    BY <1>2, Constants
  <2>2. bytes \in Seq(Byte) /\ Len(bytes) = IF 1 <= n THEN n - 1 + 1 ELSE 0
    BY <1>3, <2>1, PartIsSeq
  <2> QED BY <2>2, EmptySeq
<1> HIDE DEF bytes
<1>5. CutOf(c, all) /\ (n = 0 => c = cutter)
  BY <1>3, <1>4, FoldTakes
<1>6. all \in Seq(Byte) /\ (n = 0 => all = received)
  BY <1>3, <1>4, ConcatProperties, ConcatEmptySeq
<1> HIDE DEF all, c
<1>7. (\E rest \in Seq(Byte) : said = all \o rest) /\ (server'.why = "disconnected" => all = said)
  BY <1>1, <1>2 DEF IInv, Delivery
<1>8. PICK rest \in Seq(Byte) : said = all \o rest
  BY <1>7
<1>9. Lines(said)' = Lines(said)
  <2>1. Lines(said)' = Lines(said')
    BY Zenon DEF Lines, Ends, LineTo, NthEnd
  <2> QED BY <1>2, <2>1
<1>10. ASSUME LinesFit(said)
       PROVE  /\ cutter.printed = UpToStop(Lines(received)) /\ ~HasStop(Lines(received))
              /\ c.printed = UpToStop(Lines(all)) /\ c.requested = HasStop(Lines(all))
  <2>1. LinesFit(all)
    BY <1>6, <1>8, <1>10, FitsBefore
  <2>2. LinesFit(received)
    <3> QED BY <1>3, <1>4, <2>1, FitsBefore DEF all
  <2> QED BY <1>3, <1>5, <2>1, <2>2 DEF CutOf
<1>11. ASSUME LinesFit(said), n = 0
       PROVE  Promised!HangUp
  <2>1. server'.why = "disconnected"
    <3>1. server' = Leave(EndOfServer, "disconnected")
      BY <1>2, <1>11
    <3> QED BY <3>1 DEF Leave
  <2>2. said = received /\ cutter' = cutter
    BY <1>2, <1>5, <1>6, <1>7, <1>11, <2>1
  <2>3. UpToStop(Lines(said)) = Lines(said)
    <3> DEFINE lines == Lines(said)
    <3>1. lines \in Seq(Seq(Byte)) /\ ~HasStop(lines)
      BY <1>3, <1>10, <1>11, <2>2, LinesAre
    <3> HIDE DEF lines
    <3>2. PICK k \in 0 .. Len(lines) : UpToStop(lines) = SubSeq(lines, 1, k) /\ k = Len(lines)
      BY <3>1, UpToStopIs
    <3>3. UpToStop(lines) = lines
      BY <3>1, <3>2, SubSeqFull
    <3> QED BY <3>3 DEF lines
  <2>4. cutter.printed = Lines(said)
    BY <1>10, <1>11, <2>2, <2>3
  <2> QED BY Zenon, <1>3, <1>9, <2>1, <2>2, <2>4 DEF Promised!HangUp
<1>12. ASSUME LinesFit(said), n # 0
       PROVE  \/ \E k \in Len(cutter.printed) + 1 .. Len(Lines(said)) : Promised!PrintTo(k)
              \/ UNCHANGED <<Lines(said), cutter.printed, server.why>>
  <2>1. server'.why = IF c.requested THEN "requested" ELSE "none"
    <3>1. CASE c.requested
      <4>1. server' = Leave(EndOfServer, "requested")
        BY <1>2, <1>12, <3>1
      <4> QED BY <3>1, <4>1 DEF Leave
    <3>2. CASE ~c.requested
      <4>1. server' = server
        BY <1>2, <1>12, <3>2
      <4> QED BY <1>3, <3>2, <4>1
    <3> QED BY <3>1, <3>2
  <2>2. /\ cutter.printed = UpToStop(Lines(received)) /\ ~HasStop(Lines(received))
        /\ c.printed = UpToStop(Lines(all)) /\ c.requested = HasStop(Lines(all))
    BY <1>10, <1>12
  <2>3. Begins(Lines(all), Lines(received)) /\ Begins(Lines(said), Lines(all))
    <3>1. Begins(Lines(all), Lines(received))
      BY <1>3, <1>4, MoreLines DEF all
    <3>2. Begins(Lines(said), Lines(all))
      BY <1>6, <1>8, MoreLines
    <3> QED BY <3>1, <3>2
  <2>4. Lines(said) \in Seq(Seq(Byte)) /\ Lines(all) \in Seq(Seq(Byte)) /\ Lines(received) \in Seq(Seq(Byte))
    BY <1>3, <1>6, LinesAre
  <2> DEFINE lines == Lines(said)
  <2>5. \/ ~HasStop(Lines(all)) /\ UpToStop(Lines(all)) = UpToStop(Lines(received))
        \/ \E k \in Len(UpToStop(Lines(received))) + 1 .. Len(lines) :
              /\ \A m \in 1 .. k - 1 : lines[m] # Disconnect
              /\ UpToStop(Lines(all)) = SubSeq(lines, 1, k)
              /\ lines[k] = Disconnect <=> HasStop(Lines(all))
    BY <2>2, <2>3, <2>4, PrintsOn
  <2>6. CASE ~HasStop(Lines(all)) /\ UpToStop(Lines(all)) = UpToStop(Lines(received))
    <3>1. c.printed = cutter.printed /\ server'.why = server.why
      BY <1>3, <2>1, <2>2, <2>6
    <3> QED BY <1>2, <1>9, <3>1
  <2>7. ASSUME NEW k \in Len(UpToStop(Lines(received))) + 1 .. Len(lines),
               \A m \in 1 .. k - 1 : lines[m] # Disconnect,
               UpToStop(Lines(all)) = SubSeq(lines, 1, k),
               lines[k] = Disconnect <=> HasStop(Lines(all))
        PROVE  k \in Len(cutter.printed) + 1 .. Len(Lines(said)) /\ Promised!PrintTo(k)
    <3>1. k \in Len(cutter.printed) + 1 .. Len(Lines(said))
      BY Zenon, <2>2, <2>7
    <3>2. cutter'.printed = SubSeq(Lines(said), 1, k)
      BY Zenon, <1>2, <2>2, <2>7
    <3>3. server'.why = IF Lines(said)[k] = Disconnect THEN "requested" ELSE "none"
      <4>1. c.requested <=> Lines(said)[k] = Disconnect
        BY Zenon, <2>2, <2>7
      <4> QED BY Zenon, <2>1, <4>1
    <3> QED BY Zenon, <1>3, <1>9, <2>7, <3>1, <3>2, <3>3 DEF Promised!PrintTo
  <2> QED BY Zenon, <2>5, <2>6, <2>7
<1>13. << >> \in Seq(Byte) /\ said' = said \o << >>
  BY <1>2, <1>3, ConcatEmptySeq, EmptySeq
<1> QED BY Zenon, <1>11, <1>12, <1>13, StepPromised

\* Every step of the two programs.
LEMMA NextPromised == IInv /\ [Next]_vars => [Promised!Next]_(Promised!vars)
<1> SUFFICES ASSUME IInv, [Next]_vars PROVE [Promised!Next]_(Promised!vars)
  OBVIOUS
<1>1. ASSUME ServerFails PROVE [Promised!Next]_(Promised!vars)
  <2>1. /\ said' = said /\ cutter' = cutter
        /\ server.pc \in {"open", "bind", "listen", "accept", "receive"}
        /\ \E closing : server' = Leave(closing, "failed")
    BY <1>1 DEF ServerFails, ServerOpen, ServerBind, ServerListen, ServerAccept, ServerReceiveFails,
                clientVars
  <2>2. server'.why = "failed"
    BY <2>1 DEF Leave
  <2>3. server.why = "none"
    BY <2>1, ServerIs
  <2> QED BY <2>1, <2>2, <2>3, FailPromised
<1>2. ASSUME ServerOpen(TRUE) \/ ServerBind(TRUE) \/ ServerListen(TRUE) \/ ServerAccept(TRUE)
      PROVE  [Promised!Next]_(Promised!vars)
  <2>1. /\ said' = said /\ cutter' = cutter
        /\ server.pc \in {"open", "bind", "listen", "accept"}
        /\ \E place : server' = At(place)
    BY <1>2 DEF ServerOpen, ServerBind, ServerListen, ServerAccept, clientVars
  <2>2. server'.why = "none"
    BY <2>1 DEF At
  <2>3. server.why = "none"
    BY <2>1, ServerIs
  <2> QED BY <2>1, <2>2, <2>3, SameSeen
<1>3. ASSUME NEW n \in 0 .. ReceivedSize, ServerReceive(n) PROVE [Promised!Next]_(Promised!vars)
  BY <1>3, ReceivePromised
<1>4. ASSUME ServerClose PROVE [Promised!Next]_(Promised!vars)
  <2>1. said' = said /\ cutter' = cutter /\ server' = Closed(server) /\ server.pc = "closing"
    BY <1>4 DEF ServerClose, CloseNext, clientVars
  <2>2. server'.why = server.why
    BY <2>1, ServerIs, ClosedIs
  <2> QED BY <2>1, <2>2, SameSeen
<1>5. ASSUME NEW n \in 0 .. InputSize - 1, ClientSend(n) PROVE [Promised!Next]_(Promised!vars)
  BY <1>5, SendPromised
<1>6. ASSUME \/ \E ok \in BOOLEAN : ClientOpen(ok) \/ ClientConnect(ok)
             \/ ClientEnd \/ ClientClose \/ UNCHANGED vars
      PROVE  [Promised!Next]_(Promised!vars)
  <2>1. said' = said /\ cutter' = cutter /\ server' = server
    BY <1>6 DEF ClientOpen, ClientConnect, ClientEnd, ClientClose, vars, clientVars, serverVars
  <2> QED BY <2>1, SameSeen
<1> QED BY Zenon, <1>1, <1>2, <1>3, <1>4, <1>5, <1>6 DEF Next, ServerRuns, ClientNext

\* Both programs together are the line server: every step of theirs sends lines, prints lines that were sent
\* or says why the server stops, as LineServer allows, or shows nothing; until a line has no room.
THEOREM ExampleIsLineServer == Spec => ImplementsLineServer
<1>1. IInv /\ [Next]_vars => [Promised!Next]_(Promised!vars)
  BY NextPromised
<1> QED BY InitPromised, <1>1, Invariance, PTL DEF Spec, ImplementsLineServer, Promised!Spec
====
