---- MODULE Memory_proofs ----
(***************************************************************************)
(* Proofs about Memory and about MemoryDebug. The blocks of every memory,  *)
(* of any size, alignment and commit_size, are where they should be; and   *)
(* for every heap, size of the table, hash procedure and sequence of calls,*)
(* the table of the debugger has the blocks that are out, and its totals   *)
(* say how much that is.                                                   *)
(***************************************************************************)
EXTENDS Memory, MemoryDebug, Data_proofs, SequenceTheorems, TLAPS

----------------------------------------------------------------------------
\* cut_align_nb.

\* It rounds up, by less than a.
LEMMA AlignUp ==
    ASSUME NEW v \in Nat, NEW a \in Nat \ {0}
    PROVE  /\ AlignNb(v, a) \in Nat
           /\ v <= AlignNb(v, a)
           /\ AlignNb(v, a) <= v + (a - 1)
           /\ AlignNb(v, a) % a = 0
<1> DEFINE w == v + (a - 1)
           q == w \div a
<1>1. w \in Nat
  OBVIOUS
<1>2. q \in Nat /\ q * a <= w /\ w < q * a + a /\ q * a \in Nat
  BY <1>1
<1>3. (q * a) % a = 0
  BY <1>2
<1>4. AlignNb(v, a) = q * a
  BY DEF AlignNb
<1>5. v <= q * a
  BY <1>2
<1> QED BY <1>2, <1>3, <1>4, <1>5

\* It does not round above a multiple of a.
LEMMA AlignBelow ==
    ASSUME NEW v \in Nat, NEW a \in Nat \ {0}, NEW n \in Nat, n % a = 0, v <= n
    PROVE  AlignNb(v, a) <= n
<1> DEFINE k == n \div a
           q == (v + (a - 1)) \div a
<1>1. k \in Nat /\ n = k * a
  OBVIOUS
<1>2. q \in Nat /\ q <= k
  BY <1>1
<1>3. q * a <= k * a
  BY <1>1, <1>2
<1> QED BY <1>1, <1>3 DEF AlignNb

----------------------------------------------------------------------------
\* The invariant of a memory.

\* Where blocks are: behind the start; below current, except in a memory that turns; in a buffer
\* as far behind the start as was asked for, and in a memory that turns at the start of it or inside.
Placed ==
    \A b \in blocks :
        /\ mem.start <= b.start
        /\ b.upto <= given
        /\ mem.kind # "circular" => b.start + b.size <= current
        /\ mem.kind = "buffer" => b.start + b.size = mem.start + b.upto
        /\ mem.kind = "circular" => b.start = mem.start \/ b.start + b.size <= End

\* How far current can have come.
Position ==
    /\ mem.kind = "buffer" => current = mem.start + given
    /\ mem.kind = "arena" => current <= mem.start + spent

\* Since the block b was given, the circular memory has not turned: what it gave since lies
\* between the end of b and current.  Or it has: then this and what a turn uses at least is
\* behind the end of b.
SameLap(b) == b.start + b.size + (given - b.upto) = current
EarlierLap(b) ==
    b.start + b.size + (given - b.upto) >= current + mem.size - (MaxRequest - 1)

Laps == mem.kind = "circular" => \A b \in blocks : SameLap(b) \/ EarlierLap(b)

\* What the system lets the caller of an arena use.
Pages ==
    /\ caller = "new" => uncommitted = mem.start
    /\ caller \in {"new", "failed", "unmapped", "destroyed"} => blocks = {}
    /\ (caller = "ready" /\ mem.kind = "arena" /\ mem.system = "linux") => committed = Mapped
    /\ (caller = "ready" /\ mem.kind = "arena" /\ mem.system = "windows") =>
         /\ uncommitted = mem.start /\ mem.start <= committed
         /\ \A b \in blocks : b.start + b.size <= committed
    /\ caller = "lost" =>
         /\ mem.system = "windows"
         /\ spent > mem.size \/ mem.size % mem.commit_size # 0

MemoryInv == TypeOK /\ Placed /\ Position /\ Laps /\ Pages /\ BlocksDisjoint /\ IntactForATurn

\* The constants and the record in the form the steps below use.
LEMMA Types ==
    ASSUME TypeOK
    PROVE  /\ mem.kind \in {"buffer", "circular", "arena"}
           /\ mem.system \in {"linux", "windows"}
           /\ mem.start \in Nat /\ mem.size \in Nat
           /\ mem.alignment \in Nat \ {0} /\ mem.commit_size \in Nat \ {0}
           /\ MaxRequest \in Nat
           /\ Page \in Nat \ {0}
           /\ current \in Nat /\ mem.start <= current
           /\ uncommitted \in Nat /\ committed \in Nat
           /\ given \in Nat /\ spent \in Nat
           /\ \A b \in blocks : b.start \in Nat /\ b.size \in Nat /\ b.upto \in Nat
           /\ Mapped \in Nat /\ End \in Nat /\ End <= Mapped
<1>1. mem.kind \in {"buffer", "circular", "arena"} /\ mem.system \in {"linux", "windows"}
      /\ mem.start \in Nat /\ mem.size \in Nat
      /\ mem.alignment \in Nat \ {0} /\ mem.commit_size \in Nat \ {0}
  BY DEF TypeOK, IsMemory
<1>2. MaxRequest \in Nat /\ Page \in Nat \ {0}
  BY MemoryAssumption
<1>3. AlignNb(mem.size, Page) \in Nat /\ mem.size <= AlignNb(mem.size, Page)
  BY <1>1, <1>2, AlignUp
<1>4. \A b \in blocks : b.start \in Nat /\ b.size \in Nat /\ b.upto \in Nat
  BY DEF TypeOK, Block
<1> QED BY <1>1, <1>2, <1>3, <1>4 DEF TypeOK, Mapped, End

LEMMA RequestTypes == \A size \in Requests : size \in Nat /\ size <= MaxRequest
BY MemoryAssumption

\* A fresh memory satisfies the invariant.
THEOREM InitMemoryInv == InitMemory => MemoryInv
<1> SUFFICES ASSUME InitMemory PROVE MemoryInv
  OBVIOUS
<1>1. IsMemory(mem)
  BY MemoryAssumption DEF InitMemory
<1>2. mem.start \in Nat /\ mem.size \in Nat
  BY <1>1 DEF IsMemory
<1>3. TypeOK
  BY <1>1, <1>2 DEF InitMemory, TypeOK, End, Block
<1>4. Placed /\ Laps /\ BlocksDisjoint /\ IntactForATurn
  BY DEF InitMemory, Placed, Laps, BlocksDisjoint, IntactForATurn
<1>5. Position
  BY <1>2 DEF InitMemory, Position
<1>6. Pages
  BY <1>2 DEF InitMemory, Pages
<1> QED BY <1>3, <1>4, <1>5, <1>6 DEF MemoryInv

----------------------------------------------------------------------------
\* Steps.

\* What giving a block does to the variables.
LEMMA GiveChanges ==
    ASSUME TypeOK, NEW size \in Requests, NEW start \in Nat, mem.start <= start,
           Give(start, size)
    PROVE  /\ mem' = mem
           /\ current' = start + size /\ given' = given + size
           /\ spent' \in Nat /\ spent' = spent + size + mem.alignment - 1
           /\ current' \in Nat /\ mem.start <= current' /\ given' \in Nat
           /\ blocks' = blocks \cup {[start |-> start, size |-> size, upto |-> given + size]}
           /\ blocks' \subseteq Block
<1>1. size \in Nat
  BY RequestTypes
<1>2. mem.alignment \in Nat \ {0} /\ given \in Nat /\ spent \in Nat /\ mem.start \in Nat
  BY Types
<1>3. mem' = mem /\ current' = start + size /\ given' = given + size
      /\ spent' = spent + size + mem.alignment - 1
      /\ blocks' = blocks \cup {[start |-> start, size |-> size, upto |-> given + size]}
  BY DEF Give
<1>4. [start |-> start, size |-> size, upto |-> given + size] \in Block
  BY <1>1, <1>2 DEF Block
<1>5. blocks \subseteq Block
  BY DEF TypeOK
<1> QED BY <1>1, <1>2, <1>3, <1>4, <1>5

\* In a memory that does not turn, a block behind current is behind all the others.
LEMMA GiveBehind ==
    ASSUME MemoryInv, NEW size \in Requests, NEW start \in Nat, current <= start,
           mem.kind # "circular",
           mem.kind = "arena" => start % mem.alignment = 0,
           mem.kind = "buffer" => start = mem.start + given,
           Give(start, size)
    PROVE  Placed' /\ BlocksDisjoint' /\ Laps' /\ IntactForATurn'
<1> DEFINE new == [start |-> start, size |-> size, upto |-> given + size]
<1>0. TypeOK /\ Placed /\ BlocksDisjoint
  BY DEF MemoryInv
<1>1. size \in Nat
  BY RequestTypes
<1>2. /\ mem.kind \in {"buffer", "circular", "arena"}
      /\ mem.start \in Nat /\ current \in Nat /\ mem.start <= current
      /\ given \in Nat
      /\ \A b \in blocks : b.start \in Nat /\ b.size \in Nat /\ b.upto \in Nat
  BY <1>0, Types
<1>3. mem' = mem /\ current' = start + size /\ given' = given + size
      /\ blocks' = blocks \cup {new}
  BY <1>0, <1>2, GiveChanges
<1>4. End' = End
  BY <1>3 DEF End
<1>5. \A b \in blocks : mem.start <= b.start /\ b.upto <= given /\ b.start + b.size <= current
  BY <1>0 DEF Placed
<1>6. ASSUME NEW b \in blocks'
      PROVE  /\ mem.start <= b.start
             /\ b.upto <= given'
             /\ b.start + b.size <= current'
             /\ mem.kind = "buffer" => b.start + b.size = mem.start + b.upto
             /\ mem.kind = "arena" => b.start % mem.alignment = 0
  <2>1. CASE b \in blocks
    <3>1. mem.kind = "buffer" => b.start + b.size = mem.start + b.upto
      BY <1>0, <2>1 DEF Placed
    <3>2. mem.kind = "arena" => b.start % mem.alignment = 0
      BY <1>0, <1>2, <2>1 DEF BlocksDisjoint
    <3>3. b.start + b.size <= current' /\ b.upto <= given' /\ mem.start <= b.start
      BY <1>1, <1>2, <1>3, <1>5, <2>1
    <3> QED BY <3>1, <3>2, <3>3
  <2>2. CASE b = new
    BY <1>1, <1>2, <1>3, <2>2
  <2> QED BY <1>3, <2>1, <2>2
<1>7. Placed'
  BY <1>3, <1>4, <1>6 DEF Placed
<1>8. ASSUME NEW b \in blocks', NEW c \in blocks', b # c PROVE ~Overlap(b, c)
  <2>1. CASE b \in blocks /\ c \in blocks
    BY <1>0, <1>2, <1>8, <2>1 DEF BlocksDisjoint
  <2>2. CASE b \in blocks /\ c = new
    <3>1. b.start + b.size <= c.start /\ b.start \in Nat /\ b.size \in Nat /\ c.start \in Nat
      BY <1>2, <1>5, <2>2
    <3> QED BY <3>1 DEF Overlap
  <2>3. CASE c \in blocks /\ b = new
    <3>1. c.start + c.size <= b.start /\ c.start \in Nat /\ c.size \in Nat /\ b.start \in Nat
      BY <1>2, <1>5, <2>3
    <3> QED BY <3>1 DEF Overlap
  <2> QED BY <1>3, <1>8, <2>1, <2>2, <2>3
<1>9. BlocksDisjoint'
  BY <1>3, <1>6, <1>8 DEF BlocksDisjoint, Overlap
<1>10. Laps' /\ IntactForATurn'
  BY <1>3 DEF Laps, IntactForATurn
<1> QED BY <1>7, <1>9, <1>10

LEMMA BufferAllocateKeeps ==
    ASSUME MemoryInv, NEW size \in Requests, BufferAllocate(size) PROVE MemoryInv'
<1>0. TypeOK /\ Pages /\ Position
  BY DEF MemoryInv
<1>1. Give(current, size) /\ mem.kind = "buffer" /\ caller = "ready"
      /\ uncommitted' = uncommitted /\ committed' = committed /\ caller' = caller
  BY DEF BufferAllocate
<1>2. current \in Nat /\ mem.start <= current
  BY <1>0, Types
<1>3. /\ mem' = mem /\ current' = current + size /\ given' = given + size
      /\ given' \in Nat /\ spent' \in Nat
      /\ current' \in Nat /\ mem.start <= current'
      /\ blocks' \subseteq Block
  BY <1>0, <1>1, <1>2, GiveChanges
<1>4. TypeOK'
  BY <1>0, <1>1, <1>3 DEF TypeOK
<1>a. current = mem.start + given
  BY <1>0, <1>1 DEF Position
<1>5. Placed' /\ BlocksDisjoint' /\ Laps' /\ IntactForATurn'
  BY <1>1, <1>2, <1>a, GiveBehind
<1>6. Position'
  <2>1. size \in Nat /\ mem.start \in Nat /\ given \in Nat
    BY <1>0, RequestTypes, Types
  <2> QED BY <1>1, <1>3, <1>a, <2>1 DEF Position
<1>7. Pages'
  BY <1>1, <1>3 DEF Pages
<1> QED BY <1>4, <1>5, <1>6, <1>7 DEF MemoryInv

LEMMA CircularAllocateKeeps ==
    ASSUME MemoryInv, NEW size \in Requests, CircularAllocate(size) PROVE MemoryInv'
<1> DEFINE start == NextInTurn(size)
           new == [start |-> start, size |-> size, upto |-> given + size]
<1>0. TypeOK /\ Pages /\ Position /\ Placed /\ Laps /\ IntactForATurn
  BY DEF MemoryInv
<1>1. Give(start, size) /\ mem.kind = "circular" /\ caller = "ready"
      /\ uncommitted' = uncommitted /\ committed' = committed /\ caller' = caller
  BY DEF CircularAllocate
<1>2. /\ mem.start \in Nat /\ mem.size \in Nat /\ current \in Nat /\ mem.start <= current
      /\ given \in Nat /\ MaxRequest \in Nat
      /\ \A b \in blocks : b.start \in Nat /\ b.size \in Nat /\ b.upto \in Nat
  BY <1>0, Types
<1>3. size \in Nat /\ size <= MaxRequest
  BY RequestTypes
<1>5. /\ start \in Nat /\ mem.start <= start
      /\ \/ start = current /\ start + size <= mem.start + mem.size
         \/ start = mem.start /\ current + size > mem.start + mem.size
  BY <1>1, <1>2, <1>3 DEF NextInTurn, End
<1> HIDE DEF start
<1>6. /\ mem' = mem /\ current' = start + size /\ given' = given + size /\ given' \in Nat
      /\ spent' \in Nat /\ current' \in Nat /\ mem.start <= current'
      /\ blocks' = blocks \cup {new}
      /\ blocks' \subseteq Block
  BY <1>0, <1>1, <1>5, GiveChanges
<1>7. TypeOK'
  BY <1>0, <1>1, <1>6 DEF TypeOK
<1>8. Position'
  BY <1>1, <1>6 DEF Position
<1>9. Pages'
  BY <1>1, <1>6 DEF Pages
<1>10. Placed'
  <2> SUFFICES ASSUME NEW b \in blocks'
               PROVE  /\ mem.start <= b.start /\ b.upto <= given'
                      /\ b.start = mem.start \/ b.start + b.size <= End
    BY <1>1, <1>6 DEF Placed, End
  <2>1. CASE b \in blocks
    <3>1. /\ mem.start <= b.start /\ b.upto <= given
          /\ b.start = mem.start \/ b.start + b.size <= End
      BY <1>0, <1>1, <2>1 DEF Placed
    <3> QED BY <1>2, <1>3, <1>6, <2>1, <3>1
  <2>2. CASE b = new
    BY <1>2, <1>3, <1>5, <1>6, <2>2 DEF End
  <2> QED BY <1>6, <2>1, <2>2
<1>11. ASSUME NEW b \in blocks
       PROVE  /\ \/ b.start + b.size + (given' - b.upto) = current' /\ b.start + b.size <= start
                 \/ b.start + b.size + (given' - b.upto) >= current' + mem.size - (MaxRequest - 1)
              /\ b.upto <= given
  <2>0. b.start \in Nat /\ b.size \in Nat /\ b.upto \in Nat /\ b.upto <= given
    BY <1>0, <1>2 DEF Placed
  <2>1. \/ b.start + b.size + (given - b.upto) = current
        \/ b.start + b.size + (given - b.upto) >= current + mem.size - (MaxRequest - 1)
    BY <1>0, <1>1 DEF Laps, SameLap, EarlierLap
  <2>2. CASE start = current
    BY <1>2, <1>3, <1>6, <2>0, <2>1, <2>2
  <2>3. CASE start = mem.start /\ current + size > mem.start + mem.size
    BY <1>2, <1>3, <1>6, <2>0, <2>1, <2>3
  <2> QED BY <1>5, <2>0, <2>2, <2>3
<1>12. Laps'
  <2> SUFFICES ASSUME NEW b \in blocks'
               PROVE  \/ b.start + b.size + (given' - b.upto) = current'
                      \/ b.start + b.size + (given' - b.upto)
                           >= current' + mem.size - (MaxRequest - 1)
    BY <1>6 DEF Laps, SameLap, EarlierLap
  <2>1. CASE b \in blocks
    BY <1>11, <2>1
  <2>2. CASE b = new
    BY <1>2, <1>3, <1>5, <1>6, <2>2
  <2> QED BY <1>6, <2>1, <2>2
<1>13. IntactForATurn'
  <2> SUFFICES ASSUME NEW b \in blocks', NEW c \in blocks', b.upto < c.upto, Overlap(b, c)
               PROVE  b.size + (c.upto - b.upto) + (MaxRequest - 1) > mem.size
    BY <1>6 DEF IntactForATurn, Overlap
  <2>1. CASE b \in blocks /\ c \in blocks
    BY <1>0, <1>1, <2>1 DEF IntactForATurn
  <2>2. CASE b \in blocks /\ c = new
    <3>1. /\ \/ b.start + b.size + (given' - b.upto) = current' /\ b.start + b.size <= start
             \/ b.start + b.size + (given' - b.upto) >= current' + mem.size - (MaxRequest - 1)
          /\ b.start \in Nat /\ b.size \in Nat /\ b.upto \in Nat
      BY <1>2, <1>11, <2>2
    <3>2. c.start = start /\ c.size = size /\ c.upto = given'
      BY <1>6, <2>2
    <3>3. b.start < start + size /\ start < b.start + b.size
      BY <3>2 DEF Overlap
    <3>4. b.start + b.size + (given' - b.upto) >= current' + mem.size - (MaxRequest - 1)
      BY <1>5, <3>1, <3>3
    <3> QED BY <1>2, <1>3, <1>5, <1>6, <3>1, <3>2, <3>3, <3>4
  <2>3. CASE b = new
    <3>1. b.upto = given' /\ c.upto <= given'
      BY <1>2, <1>3, <1>6, <1>10, <2>3 DEF Placed
    <3>2. c.upto \in Nat
      BY <1>2, <1>3, <1>6
    <3> QED BY <1>6, <3>1, <3>2
  <2> QED BY <1>6, <2>1, <2>2, <2>3
<1>14. BlocksDisjoint'
  BY <1>1, <1>6 DEF BlocksDisjoint
<1> QED BY <1>7, <1>8, <1>9, <1>10, <1>12, <1>13, <1>14 DEF MemoryInv

\* What is committed for an arena on Windows is enough for the block, and the system only refuses
\* what the caller should not have asked for.
LEMMA CommitEnough ==
    ASSUME TypeOK, NEW missing \in Nat, missing > 0
    PROVE  /\ SizeToCommit(missing) \in Nat
           /\ missing <= SizeToCommit(missing)
           /\ (missing <= mem.size /\ mem.size % mem.commit_size = 0)
                => SizeToCommit(missing) <= mem.size
<1>1. mem.size \in Nat /\ mem.commit_size \in Nat \ {0}
  BY Types
<1>2. CASE missing > mem.commit_size
  <2>1. SizeToCommit(missing) = AlignNb(missing, mem.commit_size)
    BY <1>2 DEF SizeToCommit
  <2> QED BY <1>1, <2>1, AlignUp, AlignBelow
<1>3. CASE ~(missing > mem.commit_size)
  <2>1. SizeToCommit(missing) = mem.commit_size
    BY <1>3 DEF SizeToCommit
  <2>2. ASSUME missing <= mem.size, mem.size % mem.commit_size = 0
        PROVE  mem.commit_size <= mem.size
    <3>1. mem.size > 0
      BY <1>1, <2>2
    <3>2. mem.size < mem.commit_size => mem.size % mem.commit_size = mem.size
      BY <1>1
    <3> QED BY <1>1, <2>2, <3>1, <3>2
  <2> QED BY <1>1, <1>3, <2>1, <2>2
<1> QED BY <1>2, <1>3

LEMMA ArenaAllocateKeeps ==
    ASSUME MemoryInv, NEW size \in Requests, ArenaAllocate(size) PROVE MemoryInv'
<1> DEFINE result == AlignNb(current, mem.alignment)
           end    == result + size
           length == SizeToCommit(end - uncommitted)
<1>0. TypeOK /\ Pages /\ Position
  BY DEF MemoryInv
<1>1. /\ Give(result, size) /\ mem.kind = "arena" /\ caller = "ready"
      /\ IF end > uncommitted
         THEN Commit(uncommitted, length)
         ELSE uncommitted' = uncommitted /\ committed' = committed /\ caller' = caller
  BY DEF ArenaAllocate
<1>2. /\ mem.start \in Nat /\ mem.size \in Nat /\ current \in Nat /\ mem.start <= current
      /\ mem.alignment \in Nat \ {0} /\ spent \in Nat
      /\ uncommitted \in Nat /\ committed \in Nat
      /\ mem.system \in {"linux", "windows"}
      /\ Mapped \in Nat /\ mem.start + mem.size <= Mapped
  BY <1>0, Types DEF End
<1>3. /\ result \in Nat /\ current <= result
      /\ result <= current + (mem.alignment - 1)
      /\ result % mem.alignment = 0
  BY <1>2, AlignUp
<1>4. size \in Nat
  BY RequestTypes
<1>5. /\ mem' = mem /\ current' = end /\ given' \in Nat
      /\ spent' \in Nat /\ spent' = spent + size + mem.alignment - 1
      /\ current' \in Nat /\ mem.start <= current'
      /\ blocks' \subseteq Block
  BY <1>0, <1>1, <1>2, <1>3, GiveChanges
<1>6. Placed' /\ BlocksDisjoint' /\ Laps' /\ IntactForATurn'
  BY <1>1, <1>3, GiveBehind
<1>7. \A b \in blocks' : b.start + b.size <= end
  BY <1>1, <1>5, <1>6 DEF Placed
<1>8. current <= mem.start + spent
  BY <1>0, <1>1 DEF Position
<1>9. end <= mem.start + spent'
  BY <1>2, <1>3, <1>4, <1>5, <1>8
<1>10. Position'
  BY <1>1, <1>5, <1>9 DEF Position
<1>11. end \in Nat
  BY <1>3, <1>4
<1> HIDE DEF result, end
<1>12. CASE ~(end > uncommitted)
  <2>1. uncommitted' = uncommitted /\ committed' = committed /\ caller' = caller
    BY <1>1, <1>12
  <2>2. TypeOK'
    BY <1>0, <1>5, <2>1 DEF TypeOK
  <2>3. mem.system = "windows" => blocks' = {} \/ \A b \in blocks' : b.start + b.size <= committed
    <3> SUFFICES ASSUME mem.system = "windows", NEW b \in blocks'
                 PROVE  b.start + b.size <= committed
      OBVIOUS
    <3>1. uncommitted = mem.start
      BY <1>0, <1>1 DEF Pages
    <3>2. end = mem.start
      BY <1>2, <1>5, <1>11, <1>12, <3>1
    <3>3. b.start + b.size <= mem.start
      BY <1>7, <3>2
    <3>4. mem.start <= committed
      BY <1>0, <1>1 DEF Pages
    <3>5. b.start \in Nat /\ b.size \in Nat
      BY <1>5 DEF Block
    <3> QED BY <1>2, <3>3, <3>4, <3>5
  <2>4. Pages'
    BY <1>0, <1>1, <1>5, <2>1, <2>3 DEF Pages, Mapped
  <2> QED BY <1>6, <1>10, <2>2, <2>4 DEF MemoryInv
<1>13. CASE end > uncommitted /\ mem.system = "linux"
  <2>1. uncommitted' = uncommitted + length /\ committed' = committed /\ caller' = caller
    BY <1>1, <1>13 DEF Commit
  <2>2. end - uncommitted \in Nat /\ end - uncommitted > 0
    BY <1>2, <1>11, <1>13
  <2>3. length \in Nat
    BY <1>0, <2>2, CommitEnough
  <2> HIDE DEF length
  <2>4. TypeOK'
    BY <1>0, <1>2, <1>5, <2>1, <2>3 DEF TypeOK
  <2>5. Pages'
    BY <1>0, <1>1, <1>5, <1>13, <2>1 DEF Pages, Mapped
  <2> QED BY <1>6, <1>10, <2>4, <2>5 DEF MemoryInv
<1>14. CASE end > uncommitted /\ mem.system = "windows"
  <2>0. uncommitted = mem.start
    BY <1>0, <1>1, <1>14 DEF Pages
  <2>1. end - uncommitted \in Nat /\ end - uncommitted > 0
    BY <1>2, <1>11, <1>14
  <2>2. /\ length \in Nat /\ end - uncommitted <= length
        /\ (end - uncommitted <= mem.size /\ mem.size % mem.commit_size = 0)
             => length <= mem.size
    BY <1>0, <2>1, CommitEnough
  <2>3. Commit(uncommitted, length)
    BY <1>1, <1>14
  <2> HIDE DEF length
  <2>4. CASE /\ uncommitted + length <= Mapped
             /\ uncommitted' = uncommitted
             /\ committed' = IF uncommitted + length > committed
                             THEN uncommitted + length ELSE committed
             /\ caller' = caller
    <3>1. committed' \in Nat /\ end <= committed'
      BY <1>2, <1>11, <2>2, <2>4
    <3>2. \A b \in blocks' : b.start + b.size <= committed'
      <4>1. \A b \in blocks' : b.start \in Nat /\ b.size \in Nat
        BY <1>5 DEF Block
      <4> QED BY <1>7, <1>11, <3>1, <4>1
    <3>3. TypeOK'
      BY <1>0, <1>5, <2>4, <3>1 DEF TypeOK
    <3>3a. mem.start <= committed'
      BY <1>2, <1>5, <1>11, <3>1
    <3>4. Pages'
      BY <1>1, <1>5, <1>14, <2>0, <2>4, <3>2, <3>3a DEF Pages
    <3> QED BY <1>6, <1>10, <3>3, <3>4 DEF MemoryInv
  <2>5. CASE /\ uncommitted + length > Mapped
             /\ uncommitted' = 0
             /\ caller' = "lost"
             /\ committed' = committed
    <3>1. spent' > mem.size \/ mem.size % mem.commit_size # 0
      <4>1. SUFFICES ASSUME spent' <= mem.size, mem.size % mem.commit_size = 0 PROVE FALSE
        BY <1>2, <1>5
      <4>2. end - uncommitted <= mem.size
        BY <1>2, <1>5, <1>9, <1>11, <2>0, <4>1
      <4>3. length <= mem.size
        BY <2>2, <4>1, <4>2
      <4> QED BY <1>2, <2>0, <2>2, <2>5, <4>3
    <3>2. TypeOK'
      BY <1>0, <1>5, <2>5 DEF TypeOK
    <3>3. Pages'
      BY <1>5, <1>14, <2>5, <3>1 DEF Pages
    <3> QED BY <1>6, <1>10, <3>2, <3>3 DEF MemoryInv
  <2> QED BY <1>14, <2>3, <2>4, <2>5 DEF Commit
<1> QED BY <1>2, <1>12, <1>13, <1>14

\* Taking everything back leaves a memory without blocks.
LEMMA TakeBackKeeps ==
    ASSUME MemoryInv, TakeBack, mem' = mem
    PROVE  Placed' /\ Position' /\ Laps' /\ BlocksDisjoint' /\ IntactForATurn'
<1>1. TypeOK
  BY DEF MemoryInv
<1>2. mem.start \in Nat
  BY <1>1, Types
<1>3. blocks' = {} /\ given' = 0 /\ spent' = 0 /\ current' = mem.start
  BY DEF TakeBack
<1>4. Placed' /\ Laps' /\ BlocksDisjoint' /\ IntactForATurn'
  BY <1>3 DEF Placed, Laps, BlocksDisjoint, IntactForATurn
<1>5. Position'
  BY <1>2, <1>3 DEF Position
<1> QED BY <1>4, <1>5

\* Every step keeps the invariant.
THEOREM NextMemoryInv == MemoryInv /\ [MemoryNext]_memoryVars => MemoryInv'
<1> SUFFICES ASSUME MemoryInv, [MemoryNext]_memoryVars PROVE MemoryInv'
  OBVIOUS
<1>0. /\ TypeOK /\ Placed /\ Position /\ Laps /\ Pages /\ BlocksDisjoint /\ IntactForATurn
      /\ mem.start \in Nat /\ Mapped \in Nat
      /\ mem.kind \in {"buffer", "circular", "arena"}
      /\ mem.system \in {"linux", "windows"}
  BY Types DEF MemoryInv
<1>1. ASSUME ArenaInit PROVE MemoryInv'
  <2>1. /\ mem' = mem /\ current' = current /\ uncommitted' = uncommitted
        /\ blocks' = blocks /\ given' = given /\ spent' = spent
        /\ caller = "new"
        /\ \/ /\ caller' = "ready"
              /\ committed' = IF mem.system = "linux" THEN Mapped ELSE mem.start
           \/ /\ caller' \in {"unmapped", "failed"}
              /\ committed' = committed
    BY <1>1 DEF ArenaInit
  <2>2. committed' \in Nat
    BY <1>0, <2>1 DEF TypeOK
  <2>3. blocks = {} /\ uncommitted = mem.start
    BY <1>0, <2>1 DEF Pages
  <2>4. TypeOK'
    BY <1>0, <2>1, <2>2 DEF TypeOK
  <2>5. Placed' /\ Position' /\ Laps' /\ BlocksDisjoint' /\ IntactForATurn'
    BY <1>0, <2>1, <2>3 DEF Placed, Position, Laps, BlocksDisjoint, IntactForATurn, End
  <2>6. Pages'
    BY <1>0, <2>1, <2>3 DEF Pages, Mapped
  <2> QED BY <2>4, <2>5, <2>6 DEF MemoryInv
<1>2. ASSUME NEW size \in Requests, BufferAllocate(size) PROVE MemoryInv'
  BY <1>2, BufferAllocateKeeps
<1>3. ASSUME NEW size \in Requests, CircularAllocate(size) PROVE MemoryInv'
  BY <1>3, CircularAllocateKeeps
<1>4. ASSUME NEW size \in Requests, ArenaAllocate(size) PROVE MemoryInv'
  BY <1>4, ArenaAllocateKeeps
<1>5. ASSUME Reset PROVE MemoryInv'
  <2>1. /\ TakeBack /\ mem' = mem /\ uncommitted' = uncommitted
        /\ committed' = committed /\ caller' = caller /\ caller = "ready" /\ mem.kind # "arena"
    BY <1>5 DEF Reset
  <2>2. Placed' /\ Position' /\ Laps' /\ BlocksDisjoint' /\ IntactForATurn'
    BY <2>1, TakeBackKeeps
  <2>3. TypeOK'
    BY <1>0, <2>1 DEF TypeOK, TakeBack
  <2>4. Pages'
    BY <2>1 DEF Pages
  <2> QED BY <2>2, <2>3, <2>4 DEF MemoryInv
<1>6. ASSUME ArenaReset PROVE MemoryInv'
  <2>1. /\ TakeBack /\ mem' = mem /\ uncommitted' = mem.start
        /\ committed' = IF mem.system = "linux" THEN committed ELSE mem.start
        /\ caller' = caller /\ caller = "ready" /\ mem.kind = "arena"
    BY <1>6 DEF ArenaReset
  <2>2. Placed' /\ Position' /\ Laps' /\ BlocksDisjoint' /\ IntactForATurn'
    BY <2>1, TakeBackKeeps
  <2>3. TypeOK'
    BY <1>0, <2>1 DEF TypeOK, TakeBack
  <2>4. Pages'
    BY <1>0, <2>1 DEF Pages, TakeBack, Mapped
  <2> QED BY <2>2, <2>3, <2>4 DEF MemoryInv
<1>7. ASSUME ArenaDestroy PROVE MemoryInv'
  <2>1. /\ mem' = mem /\ current' = current /\ uncommitted' = uncommitted
        /\ committed' = committed /\ given' = given /\ spent' = spent
        /\ caller' = "destroyed" /\ blocks' = {}
    BY <1>7 DEF ArenaDestroy
  <2>2. TypeOK'
    BY <1>0, <2>1 DEF TypeOK
  <2>3. Placed' /\ Position' /\ Laps' /\ BlocksDisjoint' /\ IntactForATurn'
    BY <1>0, <2>1 DEF Placed, Position, Laps, BlocksDisjoint, IntactForATurn, End
  <2>4. Pages'
    BY <2>1 DEF Pages
  <2> QED BY <2>2, <2>3, <2>4 DEF MemoryInv
<1>8. ASSUME UNCHANGED memoryVars PROVE MemoryInv'
  BY <1>0, <1>8 DEF memoryVars, MemoryInv, TypeOK, Placed, Position, Laps, SameLap, EarlierLap, Pages,
                    BlocksDisjoint, IntactForATurn, Overlap, End, Mapped
<1> QED
  BY <1>1, <1>2, <1>3, <1>4, <1>5, <1>6, <1>7, <1>8 DEF MemoryNext

\* The invariant holds in every reachable state.
THEOREM MemoryInvariance == MemorySpec => []MemoryInv
BY InitMemoryInv, NextMemoryInv, PTL DEF MemorySpec

----------------------------------------------------------------------------
\* The properties, for memories of any sizes, alignments and commit sizes.

\* The variables always have their types.
THEOREM TypeCorrect == MemorySpec => []TypeOK
<1>1. MemoryInv => TypeOK
  BY DEF MemoryInv
<1> QED BY <1>1, MemoryInvariance, PTL

\* Blocks of a buffer and of an arena never share a byte, those of an arena are aligned.
THEOREM NoOverlap == MemorySpec => []BlocksDisjoint
<1>1. MemoryInv => BlocksDisjoint
  BY DEF MemoryInv
<1> QED BY <1>1, MemoryInvariance, PTL

\* A block of circular memory is intact for a turn.
THEOREM IntactLongEnough == MemorySpec => []IntactForATurn
<1>1. MemoryInv => IntactForATurn
  BY DEF MemoryInv
<1> QED BY <1>1, MemoryInvariance, PTL

\* No block reaches out of the memory that the caller has asked well for.
LEMMA InsideOfInvariant == MemoryInv => BlocksInside
<1> SUFFICES ASSUME MemoryInv, NEW b \in blocks
             PROVE  mem.start <= b.start /\ (AskedWell(b) => b.start + b.size <= End)
  BY DEF BlocksInside
<1>1. TypeOK /\ Placed /\ Position
  BY DEF MemoryInv
<1>2. /\ mem.kind \in {"buffer", "circular", "arena"}
      /\ mem.start \in Nat /\ mem.size \in Nat /\ current \in Nat /\ spent \in Nat
      /\ b.start \in Nat /\ b.size \in Nat /\ b.upto \in Nat
  BY <1>1, Types
<1>3. mem.start <= b.start
  BY <1>1 DEF Placed
<1>4. CASE mem.kind = "buffer"
  <2>1. b.start + b.size = mem.start + b.upto
    BY <1>1, <1>4 DEF Placed
  <2>2. AskedWell(b) => b.upto <= mem.size
    BY <1>4 DEF AskedWell
  <2> QED BY <1>2, <1>3, <2>1, <2>2 DEF End
<1>5. CASE mem.kind = "circular"
  <2>1. b.start = mem.start \/ b.start + b.size <= End
    BY <1>1, <1>5 DEF Placed
  <2>2. AskedWell(b) => b.size <= mem.size
    BY <1>5 DEF AskedWell
  <2> QED BY <1>2, <1>3, <2>1, <2>2 DEF End
<1>6. CASE mem.kind = "arena"
  <2>1. b.start + b.size <= current /\ current <= mem.start + spent
    BY <1>1, <1>6 DEF Placed, Position
  <2>2. AskedWell(b) => spent <= mem.size
    BY <1>6 DEF AskedWell
  <2> QED BY <1>2, <1>3, <2>1, <2>2 DEF End
<1> QED BY <1>2, <1>4, <1>5, <1>6

\* No block that was asked well for is ever outside the memory it was taken from.
THEOREM NeverOutside == MemorySpec => []BlocksInside
BY InsideOfInvariant, MemoryInvariance, PTL

\* The caller of such an arena can use all its blocks.
LEMMA CommittedOfInvariant == MemoryInv => CommittedCoversBlocks
<1> SUFFICES ASSUME MemoryInv, mem.kind = "arena", spent <= mem.size,
                    mem.system = "windows" => mem.size % mem.commit_size = 0
             PROVE  caller # "lost" /\ \A b \in blocks : b.start + b.size <= committed
  BY DEF CommittedCoversBlocks
<1>1. TypeOK /\ Pages
  BY DEF MemoryInv
<1>2. mem.size \in Nat /\ spent \in Nat /\ mem.system \in {"linux", "windows"}
      /\ Mapped \in Nat /\ End \in Nat /\ End <= Mapped
  BY <1>1, Types
<1>3. caller # "lost"
  BY <1>1, <1>2 DEF Pages
<1>4. ASSUME NEW b \in blocks PROVE b.start + b.size <= committed
  <2>1. caller = "ready"
    BY <1>1, <1>3, <1>4 DEF Pages, TypeOK
  <2>2. b.start + b.size <= End
    <3>1. AskedWell(b)
      BY DEF AskedWell
    <3> QED BY <3>1, InsideOfInvariant DEF BlocksInside
  <2>3. b.start \in Nat /\ b.size \in Nat
    BY <1>1, Types
  <2>4. CASE mem.system = "linux"
    BY <1>1, <1>2, <2>1, <2>2, <2>3, <2>4 DEF Pages
  <2>5. CASE mem.system = "windows"
    BY <1>1, <2>1, <2>5 DEF Pages
  <2> QED BY <1>2, <2>4, <2>5
<1> QED BY <1>3, <1>4

\* What the system lets the caller use covers the blocks.
THEOREM AlwaysCommitted == MemorySpec => []CommittedCoversBlocks
BY CommittedOfInvariant, MemoryInvariance, PTL

----------------------------------------------------------------------------
(***************************************************************************)
(* MemoryDebug: the inductive invariant.                                   *)
(***************************************************************************)

Known(t) == {s \in Live(t) : t.elements[s].key # NULL}

\* The heap has the blocks of a table.
Matches(h, t) ==
    /\ DOMAIN h = {t.elements[s].key : s \in Known(t)}
    /\ \A s \in Known(t) :
          /\ h[t.elements[s].key] = t.elements[s].value
          /\ \A r \in Known(t) \ {s} : t.elements[r].key # t.elements[s].key

\* The bytes that the elements of a table say are out.
Total(t) == MapThenSumSet(LAMBDA s : t.elements[s].value, Live(t))

Places == {"ready", "allocate_loops", "free_loops", "overrun", "leaks", "invalid", "totals",
           "total_freed", "reported"}

SizesKept(t) == \A s \in Live(t) : t.elements[s].value \in Value

Books ==
    /\ Good(allocated) /\ allocated.capacity = TableCapacity
    /\ SizesKept(allocated)
    /\ total_allocated \in Nat /\ total_freed \in Nat
    /\ pc \in Places

IInv ==
    /\ Books
    /\ pc # "allocate_loops" => /\ Matches(heap, allocated)
                                /\ total_allocated = total_freed + Total(allocated)

----------------------------------------------------------------------------
(***************************************************************************)
(* Where walks land in the table of the debugger.                          *)
(***************************************************************************)

\* Once get has found an element, remove comes to the same one.
LEMMA RemoveFollowsGet ==
    ASSUME NEW t, Good(t), NEW k \in Key, NEW found \in Landing(t, k, GetStops(t, k)),
           found \notin Unoccupied(t)
    PROVE  /\ found \in LiveOf(t, k) /\ found \in Live(t) /\ t.elements[found].key = k
           /\ Landing(t, k, RemoveStops(t, k)) = {found}
<1>1. found \in LiveOf(t, k)
  BY SearchLands
<1>2. Landing(t, k, RemoveStops(t, k)) = Landing(t, k, GetStops(t, k))
  BY RemoveStopsAtKey
<1>3. \A s \in Landing(t, k, GetStops(t, k)) : s = found
  BY LandingIsOne
<1> QED BY <1>1, <1>2, <1>3 DEF LiveOf

----------------------------------------------------------------------------
(***************************************************************************)
(* The heap and the table.                                                 *)
(***************************************************************************)

LEMMA StoreMatches ==
    ASSUME NEW t, Good(t), SizesKept(t), NEW h, Matches(h, t), NEW a \in Key, NEW size \in Value,
           NEW s \in Landing(t, a, AddStops(t)), NEW g,
           \/ a = NULL /\ g = h
           \/ /\ a \notin DOMAIN h \cup {NULL}
              /\ g = [b \in DOMAIN h \cup {a} |-> IF b = a THEN size ELSE h[b]]
    PROVE  Matches(g, Store(t, s, a, size)) /\ SizesKept(Store(t, s, a, size))
<1> DEFINE u == Store(t, s, a, size)
<1>1. /\ Live(u) = Live(t) \cup {s} /\ s \notin Live(t)
      /\ u.elements[s] = [hash |-> HashOf(a), key |-> a, value |-> size]
      /\ \A r \in Live(t) : u.elements[r] = t.elements[r]
  <2>1. s \in Slots(t) /\ s \notin Live(t)
    BY StoreGood
  <2>2. IsTable(t)
    BY DEF Good
  <2>3. \A r \in Live(t) : r \in Slots(t) \ {s}
    BY <2>1 DEF Live
  <2> QED BY <2>1, <2>2, <2>3, StoreEffect
<1> SUFFICES Matches(g, u) /\ SizesKept(u)
  OBVIOUS
<1> HIDE DEF u
<1>2. u.elements[s].key = a /\ u.elements[s].value = size
  BY <1>1
<1>3. SizesKept(u)
  BY <1>1, <1>2 DEF SizesKept
<1>4. CASE a = NULL /\ g = h
  <2>1. Known(u) = Known(t)
    BY <1>1, <1>2, <1>4 DEF Known
  <2>2. \A r \in Known(t) : u.elements[r] = t.elements[r]
    BY <1>1 DEF Known
  <2>3. {u.elements[r].key : r \in Known(u)} = {t.elements[r].key : r \in Known(t)}
    BY <2>1, <2>2
  <2> QED BY <1>3, <1>4, <2>1, <2>2, <2>3 DEF Matches
<1>5. CASE /\ a \notin DOMAIN h \cup {NULL}
           /\ g = [b \in DOMAIN h \cup {a} |-> IF b = a THEN size ELSE h[b]]
  <2>1. Known(u) = Known(t) \cup {s} /\ s \notin Known(t)
    BY <1>1, <1>2, <1>5 DEF Known
  <2>2. \A r \in Known(t) : u.elements[r] = t.elements[r]
    BY <1>1 DEF Known
  <2>3. \A r \in Known(t) : t.elements[r].key \in DOMAIN h
    BY DEF Matches
  <2>4. DOMAIN g = {u.elements[r].key : r \in Known(u)}
    BY <1>2, <1>5, <2>1, <2>2, SMTT(30) DEF Matches
  <2>5. ASSUME NEW r \in Known(u) PROVE g[u.elements[r].key] = u.elements[r].value
    BY <1>2, <1>5, <2>1, <2>2, <2>3, SMTT(30) DEF Matches
  <2>6. ASSUME NEW r \in Known(u), NEW q \in Known(u) \ {r}
        PROVE  u.elements[q].key # u.elements[r].key
    BY <1>2, <1>5, <2>1, <2>2, <2>3, SMTT(30) DEF Matches
  <2> QED BY <1>3, <2>4, <2>5, <2>6 DEF Matches
<1> QED BY <1>4, <1>5

LEMMA EraseMatches ==
    ASSUME NEW t, Good(t), SizesKept(t), NEW h, Matches(h, t), NEW a \in Key,
           NEW s \in Live(t), t.elements[s].key = a,
           NEW g, g = [b \in DOMAIN h \ {a} |-> h[b]]
    PROVE  /\ Matches(g, Erase(t, s)) /\ SizesKept(Erase(t, s))
           /\ a \in DOMAIN h \cup {NULL}
           /\ Erase(t, s).elements[s].value = t.elements[s].value
<1> DEFINE u == Erase(t, s)
<1>1. Live(u) = Live(t) \ {s} /\ \A r \in Live(t) \ {s} : u.elements[r] = t.elements[r]
  <2>1. IsTable(t) /\ t.count > 0
    BY EraseGood DEF Good
  <2>2. \A r \in Live(t) \ {s} : r \in Slots(t) \ {s}
    BY DEF Live
  <2> QED BY <2>1, <2>2, EraseEffect
<1>2. u.elements[s].value = t.elements[s].value
  <2>1. s \in Slots(t) /\ DOMAIN t.elements = Slots(t)
    BY DEF Live, Good, IsTable
  <2> QED BY <2>1 DEF Erase
<1> HIDE DEF u
<1>3. SizesKept(u)
  BY <1>1 DEF SizesKept
<1>4. Known(u) = Known(t) \ {s}
  BY <1>1 DEF Known
<1>5. \A r \in Known(u) : u.elements[r] = t.elements[r] /\ r # s
  BY <1>1, <1>4 DEF Known
<1>6. a # NULL => s \in Known(t)
  BY DEF Known
<1>7. a \in DOMAIN h \cup {NULL}
  BY <1>6 DEF Matches
<1>8. \A r \in Known(u) : u.elements[r].key # a
  BY <1>4, <1>5, <1>6 DEF Matches, Known
<1>9. DOMAIN g = {u.elements[r].key : r \in Known(u)}
  <2>1. DOMAIN g = DOMAIN h \ {a}
    OBVIOUS
  <2>2. {u.elements[r].key : r \in Known(u)} \subseteq DOMAIN h \ {a}
    BY <1>4, <1>5, <1>8 DEF Matches
  <2>3. ASSUME NEW b \in DOMAIN h \ {a} PROVE b \in {u.elements[r].key : r \in Known(u)}
    <3>1. PICK r \in Known(t) : t.elements[r].key = b
      BY DEF Matches
    <3>2. r \in Known(u)
      BY <1>4, <3>1
    <3> QED BY <1>5, <3>1, <3>2
  <2> QED BY <2>1, <2>2, <2>3
<1>10. \A r \in Known(u) : /\ g[u.elements[r].key] = u.elements[r].value
                           /\ \A q \in Known(u) \ {r} : u.elements[q].key # u.elements[r].key
  BY <1>4, <1>5, <1>8 DEF Matches
<1> QED BY <1>2, <1>3, <1>7, <1>9, <1>10 DEF Matches, u

----------------------------------------------------------------------------
(***************************************************************************)
(* The bytes that are out.                                                 *)
(***************************************************************************)

SizeOf(t) == [s \in Live(t) |-> t.elements[s].value]

\* The total is taken from a function that adds up the sizes.
LEMMA TotalAdds ==
    ASSUME NEW t, IsTable(t)
    PROVE  \E g : Adds(g, SizeOf(t), Live(t)) /\ Total(t) = g[Live(t)]
<1> DEFINE e == t.elements
           T == Live(t)
           Iter(g) == g = [S \in SUBSET T |->
                             IF S = {} THEN 0 ELSE e[Pick(S)].value + g[S \ {Pick(S)}]]
           f == SizeOf(t)
           sum == CHOOSE g : Iter(g)
<1>1. IsFiniteSet(T)
  BY LiveFinite
<1>2. \A S \in SUBSET T : S # {} => f[Pick(S)] = e[Pick(S)].value
  BY PickIsIn DEF SizeOf
<1> HIDE DEF T, e, f
<1>3. \E g : Iter(g)
  <2>1. PICK g : IsSum(g, f, T)
    BY <1>1, AddsExists
  <2>2. [S \in SUBSET T |-> IF S = {} THEN 0 ELSE f[Pick(S)] + g[S \ {Pick(S)}]]
          = [S \in SUBSET T |->
               IF S = {} THEN 0 ELSE e[Pick(S)].value + g[S \ {Pick(S)}]]
    BY <1>2
  <2> QED BY <2>1, <2>2 DEF IsSum
<1>4. Iter(sum)
  <2> HIDE DEF Iter
  <2> QED BY <1>3
<1>5. Total(t) = sum[T]
  BY Zenon DEF Total, MapThenSumSet, MapThenFoldSet, Pick, sum, T, e
<1> HIDE DEF sum
<1>6. \A S \in SUBSET T : sum[S] = IF S = {} THEN 0
                                   ELSE e[Pick(S)].value + sum[S \ {Pick(S)}]
  <2> DEFINE g == [S \in SUBSET T |->
                     IF S = {} THEN 0 ELSE e[Pick(S)].value + sum[S \ {Pick(S)}]]
  <2>1. sum = g
    BY <1>4
  <2>2. \A S \in SUBSET T : g[S] = IF S = {} THEN 0
                                   ELSE e[Pick(S)].value + sum[S \ {Pick(S)}]
    OBVIOUS
  <2> HIDE DEF g
  <2> QED BY <2>1, <2>2
<1>7. Adds(sum, f, T)
  BY <1>2, <1>6 DEF Adds
<1> QED BY <1>5, <1>7 DEF f, T

LEMMA SizesAreNumbers ==
    ASSUME NEW t, SizesKept(t)
    PROVE  \A s \in Live(t) : SizeOf(t)[s] = t.elements[s].value /\ SizeOf(t)[s] \in Nat
BY MemoryDebugAssumption DEF SizesKept, SizeOf

\* Two tables that differ by one live slot.
LEMMA TotalOneMore ==
    ASSUME NEW t, IsTable(t), SizesKept(t), NEW u, IsTable(u), SizesKept(u),
           NEW s, s \notin Live(t), Live(u) = Live(t) \cup {s},
           \A r \in Live(t) : u.elements[r].value = t.elements[r].value
    PROVE  Total(t) \in Nat /\ Total(u) = Total(t) + u.elements[s].value
<1>1. PICK g : Adds(g, SizeOf(t), Live(t)) /\ Total(t) = g[Live(t)]
  BY TotalAdds
<1>2. PICK h : Adds(h, SizeOf(u), Live(u)) /\ Total(u) = h[Live(u)]
  BY TotalAdds
<1>3. IsFiniteSet(Live(t)) /\ IsFiniteSet(Live(u))
  BY LiveFinite
<1>4. /\ \A r \in Live(t) : SizeOf(t)[r] \in Nat /\ SizeOf(t)[r] = t.elements[r].value
      /\ \A r \in Live(u) : SizeOf(u)[r] \in Nat /\ SizeOf(u)[r] = u.elements[r].value
  BY SizesAreNumbers
<1>5. g[Live(t)] \in Nat
  BY <1>1, <1>3, <1>4, AddsAny
<1>6. h[Live(u)] = SizeOf(u)[s] + h[Live(u) \ {s}]
  BY <1>2, <1>3, <1>4, AddsAny
<1>7. Live(u) \ {s} = Live(t) /\ s \in Live(u)
  OBVIOUS
<1>8. h[Live(t)] = g[Live(t)]
  <2>1. \A r \in Live(t) : SizeOf(u)[r] = SizeOf(t)[r]
    BY <1>4
  <2>2. Live(t) \in SUBSET Live(t) /\ Live(t) \in SUBSET Live(u)
    OBVIOUS
  <2>3. \A S \in SUBSET Live(t) :
           (S \in SUBSET Live(u) /\ \A x \in S : SizeOf(u)[x] = SizeOf(t)[x]) => h[S] = g[S]
    BY <1>1, <1>2, <1>3, <1>4, AddsAlike
  <2> QED BY <2>1, <2>2, <2>3
<1>9. SizeOf(u)[s] = u.elements[s].value /\ SizeOf(u)[s] \in Nat
  BY <1>4, <1>7
<1> DEFINE more == u.elements[s].value
           less == g[Live(t)]
           all  == h[Live(u)]
<1>10. more \in Nat /\ less \in Nat /\ all = more + less /\ Total(t) = less /\ Total(u) = all
  BY <1>1, <1>2, <1>5, <1>6, <1>7, <1>8, <1>9
<1> HIDE DEF more, less, all
<1>11. Total(t) \in Nat /\ Total(u) = Total(t) + more
  BY <1>10
<1> QED BY <1>11 DEF more

LEMMA TotalOfNone ==
    ASSUME NEW t, IsTable(t), Live(t) = {}
    PROVE  Total(t) = 0
<1>1. PICK g : Adds(g, SizeOf(t), Live(t)) /\ Total(t) = g[Live(t)]
  BY TotalAdds
<1> QED BY <1>1 DEF Adds

LEMMA StoreTotal ==
    ASSUME NEW t, Good(t), SizesKept(t), NEW a \in Key, NEW size \in Value,
           NEW s \in Landing(t, a, AddStops(t)), SizesKept(Store(t, s, a, size))
    PROVE  Total(t) \in Nat /\ Total(Store(t, s, a, size)) = Total(t) + size
<1> DEFINE u == Store(t, s, a, size)
<1>1. IsTable(t) /\ IsTable(u) /\ s \in Slots(t) /\ s \notin Live(t)
  BY StoreGood DEF Good
<1>2. \A r \in Live(t) : r \in Slots(t) \ {s}
  BY <1>1 DEF Live
<1>3. /\ Live(u) = Live(t) \cup {s}
      /\ u.elements[s].value = size
      /\ \A r \in Live(t) : u.elements[r].value = t.elements[r].value
  <2>1. /\ Live(u) = Live(t) \cup {s}
        /\ u.elements[s] = [hash |-> HashOf(a), key |-> a, value |-> size]
        /\ \A r \in Slots(t) \ {s} : u.elements[r] = t.elements[r]
    BY <1>1, StoreEffect
  <2> HIDE DEF u
  <2> QED BY <1>2, <2>1
<1> HIDE DEF u
<1>4. SizesKept(u)
  BY DEF u
<1>5. Total(t) \in Nat /\ Total(u) = Total(t) + u.elements[s].value
  BY <1>1, <1>3, <1>4, TotalOneMore
<1> QED BY <1>3, <1>5 DEF u

LEMMA EraseTotal ==
    ASSUME NEW t, Good(t), SizesKept(t), NEW s \in Live(t), SizesKept(Erase(t, s))
    PROVE  Total(Erase(t, s)) \in Nat /\ Total(t) = Total(Erase(t, s)) + t.elements[s].value
<1> DEFINE u == Erase(t, s)
<1>1. IsTable(t) /\ IsTable(u) /\ t.count > 0
  BY EraseGood DEF Good
<1>2. Live(u) = Live(t) \ {s} /\ \A r \in Live(t) \ {s} : u.elements[r] = t.elements[r]
  <2>1. \A r \in Live(t) \ {s} : r \in Slots(t) \ {s}
    BY DEF Live
  <2> QED BY <1>1, <2>1, EraseEffect
<1> HIDE DEF u
<1>3. SizesKept(u)
  BY DEF u
<1>4. /\ s \notin Live(u) /\ Live(t) = Live(u) \cup {s}
      /\ \A r \in Live(u) : t.elements[r].value = u.elements[r].value
  BY <1>2
<1>5. Total(u) \in Nat /\ Total(t) = Total(u) + t.elements[s].value
  BY <1>1, <1>3, <1>4, TotalOneMore
<1> QED BY <1>5 DEF u

----------------------------------------------------------------------------
(***************************************************************************)
(* The steps keep the invariant.                                           *)
(***************************************************************************)

LEMMA InitOK == Init => IInv
<1> SUFFICES ASSUME Init PROVE IInv
  OBVIOUS
<1>1. TableCapacity \in Nat \ {0}
  BY MemoryDebugAssumption
<1>2. Good(allocated) /\ allocated.capacity = TableCapacity
  BY <1>1, EmptyGood DEF Init, EmptyTable
<1>3. Live(allocated) = {}
  BY <1>1, EmptyIsTable DEF Init
<1>4. SizesKept(allocated)
  BY <1>3 DEF SizesKept
<1>5. Matches(heap, allocated)
  <2>1. Known(allocated) = {}
    BY <1>3 DEF Known
  <2>2. DOMAIN heap = {}
    BY DEF Init
  <2> QED BY <2>1, <2>2 DEF Matches
<1>6. Total(allocated) = 0
  BY <1>2, <1>3, TotalOfNone DEF Good
<1>7. total_allocated = 0 /\ total_freed = 0 /\ pc = "ready"
  BY DEF Init
<1> QED BY <1>2, <1>4, <1>5, <1>6, <1>7 DEF IInv, Books, Places

LEMMA AllocateOK ==
    ASSUME IInv, NEW a \in Key, NEW size \in Value, Allocate(a, size)
    PROVE  IInv'
<1>1. /\ Good(allocated) /\ allocated.capacity = TableCapacity /\ SizesKept(allocated)
      /\ total_allocated \in Nat /\ total_freed \in Nat
      /\ pc = "ready" /\ Matches(heap, allocated)
      /\ total_allocated = total_freed + Total(allocated)
  BY DEF IInv, Books, Allocate
<1>2. size \in Nat
  BY MemoryDebugAssumption
<1>3. /\ total_allocated' = total_allocated + size /\ total_freed' = total_freed
      /\ HeapAllocate(a, size)
  BY DEF Allocate
<1>4. CASE Landing(allocated, a, AddStops(allocated)) = {}
  <2>1. pc' = "allocate_loops" /\ allocated' = allocated
    BY <1>4 DEF Allocate
  <2> QED BY <1>1, <1>2, <1>3, <2>1 DEF IInv, Books, Places
<1>5. CASE Landing(allocated, a, AddStops(allocated)) # {}
  <2>1. PICK s \in Landing(allocated, a, AddStops(allocated)) :
               allocated' = Store(allocated, s, a, size)
    BY <1>5 DEF Allocate
  <2>2. pc' = "ready"
    BY <1>1, <1>5 DEF Allocate
  <2>3. Matches(heap', allocated') /\ SizesKept(allocated')
    BY <1>1, <1>3, <2>1, StoreMatches DEF HeapAllocate
  <2>4. Good(allocated') /\ allocated'.capacity = TableCapacity
    <3>1. Good(Store(allocated, s, a, size))
      BY <1>1, StoreGood
    <3> QED BY <1>1, <2>1, <3>1 DEF Store
  <2>5. Total(allocated) \in Nat /\ Total(allocated') = Total(allocated) + size
    <3>1. SizesKept(Store(allocated, s, a, size))
      BY <2>1, <2>3
    <3> QED BY <1>1, <2>1, <3>1, StoreTotal
  <2>6. total_allocated' = total_freed' + Total(allocated')
    BY <1>1, <1>2, <1>3, <2>5
  <2>7. Total(allocated)' = Total(allocated')
    OBVIOUS
  <2>8. total_allocated' \in Nat /\ total_freed' \in Nat
    BY <1>1, <1>2, <1>3
  <2> QED BY <2>2, <2>3, <2>4, <2>6, <2>8 DEF IInv, Books, Places
<1> QED BY <1>4, <1>5

\* A block that the table has is given back and taken out; the size is still in its slot.
LEMMA FreeKnownOK ==
    ASSUME IInv, pc = "ready", NEW a \in Key,
           NEW found \in Landing(allocated, a, GetStops(allocated, a)), found \notin Unoccupied(allocated),
           FreeKnown(a, found), total_allocated' = total_allocated
    PROVE  IInv' /\ pc' = "ready"
<1>1. /\ Good(allocated) /\ allocated.capacity = TableCapacity /\ SizesKept(allocated)
      /\ total_allocated \in Nat /\ total_freed \in Nat
      /\ Matches(heap, allocated)
      /\ total_allocated = total_freed + Total(allocated)
  BY DEF IInv, Books
<1>2. /\ found \in Live(allocated) /\ allocated.elements[found].key = a
      /\ Landing(allocated, a, RemoveStops(allocated, a)) = {found}
  BY <1>1, RemoveFollowsGet
<1>3. allocated' = Erase(allocated, found)
  BY <1>2 DEF FreeKnown
<1>4. heap' = [b \in DOMAIN heap \ {a} |-> heap[b]]
  BY DEF FreeKnown, HeapFree
<1>5. /\ Matches(heap', allocated') /\ SizesKept(allocated')
      /\ a \in DOMAIN heap \cup {NULL}
      /\ allocated'.elements[found].value = allocated.elements[found].value
  BY <1>1, <1>2, <1>3, <1>4, EraseMatches
<1>6. pc' = "ready"
  BY <1>5 DEF FreeKnown, HeapFree
<1>7. Good(allocated') /\ allocated'.capacity = TableCapacity
  <2>1. Good(Erase(allocated, found))
    BY <1>1, <1>2, EraseGood
  <2> QED BY <1>1, <1>3, <2>1 DEF Erase
<1>8. /\ Total(allocated') \in Nat
      /\ Total(allocated) = Total(allocated') + allocated.elements[found].value
  <2>1. SizesKept(Erase(allocated, found))
    BY <1>3, <1>5
  <2> QED BY <1>1, <1>2, <1>3, <2>1, EraseTotal
<1>9. allocated.elements[found].value \in Nat
  BY <1>1, <1>2, MemoryDebugAssumption DEF SizesKept
<1>10. total_freed' = total_freed + allocated.elements[found].value
  BY <1>5 DEF FreeKnown
<1>11. total_allocated' = total_freed' + Total(allocated') /\ total_freed' \in Nat
  BY <1>1, <1>8, <1>9, <1>10
<1> QED BY <1>1, <1>5, <1>6, <1>7, <1>11 DEF IInv, Books, Places

LEMMA FreeOK ==
    ASSUME IInv, NEW a \in Key, Free(a)
    PROVE  IInv'
<1>1. pc = "ready" /\ total_allocated' = total_allocated
  BY DEF Free
<1>2. CASE Landing(allocated, a, GetStops(allocated, a)) = {}
  <2>1. pc' = "free_loops" /\ UNCHANGED <<heap, allocated, total_freed>>
    BY <1>2 DEF Free
  <2> QED BY <1>1, <2>1 DEF IInv, Books, Places
<1>3. CASE Landing(allocated, a, GetStops(allocated, a)) # {}
  <2>1. PICK s \in Landing(allocated, a, GetStops(allocated, a)) :
               IF s \in Unoccupied(allocated) THEN FreeUnknown(a) ELSE FreeKnown(a, s)
    BY <1>3 DEF Free
  <2>2. CASE s \in Unoccupied(allocated)
    <3>1. UNCHANGED <<heap, allocated, total_freed, pc>>
      BY <2>1, <2>2 DEF FreeUnknown
    <3> QED BY <1>1, <3>1 DEF IInv, Books, Places
  <2>3. CASE s \notin Unoccupied(allocated)
    BY <1>1, <2>1, <2>3, FreeKnownOK
  <2> QED BY <2>2, <2>3
<1> QED BY <1>2, <1>3

\* Making the report changes nothing in the books.
LEMMA ReportOK ==
    ASSUME IInv, ReportBegin \/ ReportStep \/ ReportDestroy
    PROVE  /\ UNCHANGED books
           /\ pc' \in Places \ {"allocate_loops", "free_loops"}
           /\ pc \in Places \ {"allocate_loops", "free_loops"}
<1>1. UNCHANGED books
  BY DEF ReportStep, ReportBegin, ReportSkip, ReportLeak, ReportLeaksEnd, ReportInvalid,
         ReportInvalidEnd, ReportFrame, ReportAllocated, ReportFreed, ReportDestroy
<1>2. pc \in Places \ {"allocate_loops", "free_loops"}
  BY DEF ReportStep, ReportBegin, ReportSkip, ReportLeak, ReportLeaksEnd, ReportInvalid,
         ReportInvalidEnd, ReportFrame, ReportAllocated, ReportFreed, ReportDestroy, Places
<1>3. pc' \in {pc, "leaks", "invalid", "totals", "total_freed", "reported", "ready", "overrun"}
  BY DEF ReportStep, ReportBegin, ReportSkip, ReportLeak, ReportLeaksEnd, ReportInvalid,
         ReportInvalidEnd, ReportFrame, ReportAllocated, ReportFreed, ReportDestroy, Goto
<1> QED BY <1>1, <1>2, <1>3 DEF Places

LEMMA NextOK == IInv /\ [Next]_vars => IInv'
<1> SUFFICES ASSUME IInv, [Next]_vars PROVE IInv'
  OBVIOUS
<1>1. CASE UNCHANGED vars
  BY <1>1 DEF vars, IInv, Books
<1>2. CASE \E a \in Key, size \in Value : Allocate(a, size)
  BY <1>2, AllocateOK
<1>3. CASE \E a \in Key : Free(a)
  BY <1>3, FreeOK
<1>4. CASE ReportBegin \/ ReportStep \/ ReportDestroy
  <2>1. /\ UNCHANGED books
        /\ pc' \in Places
        /\ pc # "allocate_loops"
    BY <1>4, ReportOK
  <2> QED BY <2>1 DEF books, IInv, Books
<1> QED BY <1>1, <1>2, <1>3, <1>4 DEF Next

\* The inductive invariant holds in every reachable state.
THEOREM Invariance == Spec => []IInv
BY InitOK, NextOK, PTL DEF Spec

----------------------------------------------------------------------------
(***************************************************************************)
(* What follows.                                                           *)
(***************************************************************************)

\* The table has the blocks that are out, each once and with its size, so nothing but a live block
\* is ever given back to the allocator underneath.
THEOREM RecordsAreRight == Spec => []RecordsMatchHeap
<1>1. IInv => RecordsMatchHeap
  BY DEF IInv, Books, Places, RecordsMatchHeap, Matches, Known
<1> QED BY <1>1, Invariance, PTL

\* Every byte that was asked for is accounted for as taken back or as out.
THEOREM TotalsAreRight == Spec => []TotalsBalance
<1>1. IInv => TotalsBalance
  BY DEF IInv, TotalsBalance, Total
<1> QED BY <1>1, Invariance, PTL

\* With a number of slots that is a power of two, 256 in the code, the debugger fails to return only
\* when every slot has a block, or, for a free of what it does not know, when every slot has had one.
THEOREM LoopsAreLate == IsPowerOfTwo(TableCapacity) => (Spec => []LoopsOnlyWhenUsedUp)
<1> SUFFICES ASSUME IsPowerOfTwo(TableCapacity)
             PROVE  Spec => []LoopsOnlyWhenUsedUp
  OBVIOUS
<1>1. Init => LoopsOnlyWhenUsedUp
  BY DEF Init, LoopsOnlyWhenUsedUp
<1>2. IInv /\ LoopsOnlyWhenUsedUp /\ [Next]_vars => LoopsOnlyWhenUsedUp'
  <2> SUFFICES ASSUME IInv, LoopsOnlyWhenUsedUp, [Next]_vars
               PROVE  LoopsOnlyWhenUsedUp'
    OBVIOUS
  <2>1. Good(allocated) /\ allocated.capacity = TableCapacity
    BY DEF IInv, Books
  <2>2. CASE UNCHANGED vars
    BY <2>2 DEF vars, LoopsOnlyWhenUsedUp
  <2>3. ASSUME NEW a \in Key, NEW size \in Value, Allocate(a, size)
        PROVE  LoopsOnlyWhenUsedUp'
    <3>1. CASE Landing(allocated, a, AddStops(allocated)) = {}
      <4>1. pc' = "allocate_loops" /\ allocated' = allocated
        BY <2>3, <3>1 DEF Allocate
      <4>2. allocated.count = TableCapacity /\ allocated.count = Cardinality(Live(allocated))
        BY <2>1, <3>1, LoopsWhenFull DEF Good, Counted
      <4> QED BY <4>1, <4>2 DEF LoopsOnlyWhenUsedUp
    <3>2. CASE Landing(allocated, a, AddStops(allocated)) # {}
      <4>1. pc' = "ready"
        BY <2>3, <3>2 DEF Allocate
      <4> QED BY <4>1 DEF LoopsOnlyWhenUsedUp
    <3> QED BY <3>1, <3>2
  <2>4. ASSUME NEW a \in Key, Free(a)
        PROVE  LoopsOnlyWhenUsedUp'
    <3>1. CASE Landing(allocated, a, GetStops(allocated, a)) = {}
      <4>1. pc' = "free_loops" /\ allocated' = allocated
        BY <2>4, <3>1 DEF Free
      <4>2. Unoccupied(allocated) = {}
        BY <2>1, <3>1, LoopsWhenFull
      <4> QED BY <4>1, <4>2 DEF LoopsOnlyWhenUsedUp
    <3>2. CASE Landing(allocated, a, GetStops(allocated, a)) # {}
      <4>1. pc' \in {"ready", "corrupt"}
        BY <2>4, <3>2 DEF Free, FreeUnknown, FreeKnown, HeapFree
      <4> QED BY <4>1 DEF LoopsOnlyWhenUsedUp
    <3> QED BY <3>1, <3>2
  <2>5. CASE ReportBegin \/ ReportStep \/ ReportDestroy
    <3>1. pc' \notin {"allocate_loops", "free_loops"}
      BY <2>5, ReportOK
    <3> QED BY <3>1 DEF LoopsOnlyWhenUsedUp
  <2> QED BY <2>2, <2>3, <2>4, <2>5 DEF Next
<1> QED BY <1>1, <1>2, Invariance, PTL DEF Spec

----------------------------------------------------------------------------
(***************************************************************************)
(* The blocks that are out, as a bag.                                      *)
(***************************************************************************)

IsBag(b) ==
    /\ b = [e \in DOMAIN b |-> b[e]]
    /\ IsFiniteSet(DOMAIN b)
    /\ \A e \in DOMAIN b : b[e] \in Nat /\ b[e] > 0

EntriesOf(b) == Promised!Entries(b)

LEMMA EntriesAdds ==
    ASSUME NEW b, IsFiniteSet(DOMAIN b)
    PROVE  \E g : Adds(g, b, DOMAIN b) /\ EntriesOf(b) = g[DOMAIN b]
<1> DEFINE T == DOMAIN b
           sum == CHOOSE g : IsSum(g, b, T)
<1>1. IsSum(sum, b, T)
  BY AddsExists
<1>2. EntriesOf(b) = sum[T]
  BY Zenon DEF EntriesOf, Promised!Entries, Promised!MapThenSumSet, Promised!MapThenFoldSet, IsSum, Pick
<1> HIDE DEF sum
<1>3. \A S \in SUBSET T : sum[S] = IF S = {} THEN 0 ELSE b[Pick(S)] + sum[S \ {Pick(S)}]
  <2> DEFINE g == [S \in SUBSET T |-> IF S = {} THEN 0 ELSE b[Pick(S)] + sum[S \ {Pick(S)}]]
  <2>1. sum = g
    BY <1>1 DEF IsSum
  <2>2. \A S \in SUBSET T : g[S] = IF S = {} THEN 0 ELSE b[Pick(S)] + sum[S \ {Pick(S)}]
    OBVIOUS
  <2> HIDE DEF g
  <2> QED BY <2>1, <2>2
<1> QED BY <1>2, <1>3 DEF Adds

LEMMA AddedIsBag ==
    ASSUME NEW b, IsBag(b), NEW x
    PROVE  /\ DOMAIN Promised!BagAdd(b, x) = DOMAIN b \cup {x}
           /\ IsBag(Promised!BagAdd(b, x))
           /\ Promised!BagAdd(b, x)[x] = IF x \in DOMAIN b THEN b[x] + 1 ELSE 1
           /\ \A e \in DOMAIN b \ {x} : Promised!BagAdd(b, x)[e] = b[e]
<1>1. IsFiniteSet(DOMAIN b \cup {x})
  BY FS_AddElement DEF IsBag
<1>2. CASE x \in DOMAIN b
  <2>1. Promised!BagAdd(b, x) = [e \in DOMAIN b |-> IF e = x THEN b[e] + 1 ELSE b[e]]
    BY <1>2 DEF Promised!BagAdd
  <2>2. DOMAIN b \cup {x} = DOMAIN b
    BY <1>2
  <2> QED BY <1>1, <1>2, <2>1, <2>2 DEF IsBag
<1>3. CASE x \notin DOMAIN b
  <2>1. Promised!BagAdd(b, x) = [e \in DOMAIN b \cup {x} |-> IF e = x THEN 1 ELSE b[e]]
    BY <1>3 DEF Promised!BagAdd
  <2> QED BY <1>1, <1>3, <2>1 DEF IsBag
<1> QED BY <1>2, <1>3

\* One block more is one entry more.
LEMMA EntriesMore ==
    ASSUME NEW b, IsBag(b), NEW x
    PROVE  EntriesOf(b) \in Nat /\ EntriesOf(Promised!BagAdd(b, x)) = EntriesOf(b) + 1
<1> DEFINE c == Promised!BagAdd(b, x)
           D == DOMAIN b
           E == DOMAIN c
<1>1. /\ E = D \cup {x} /\ IsBag(c)
      /\ c[x] = IF x \in D THEN b[x] + 1 ELSE 1
      /\ \A e \in D \ {x} : c[e] = b[e]
  BY AddedIsBag
<1> HIDE DEF c
<1>2. /\ IsFiniteSet(D) /\ IsFiniteSet(E)
      /\ \A e \in D : b[e] \in Nat
      /\ \A e \in E : c[e] \in Nat
  BY <1>1 DEF IsBag
<1>3. PICK g : Adds(g, b, D) /\ EntriesOf(b) = g[D]
  BY <1>2, EntriesAdds
<1>4. PICK h : Adds(h, c, E) /\ EntriesOf(c) = h[E]
  BY <1>2, EntriesAdds
<1>5. /\ \A S \in SUBSET D : g[S] \in Nat /\ \A y \in S : g[S] = b[y] + g[S \ {y}]
      /\ \A S \in SUBSET E : h[S] \in Nat /\ \A y \in S : h[S] = c[y] + h[S \ {y}]
  BY <1>2, <1>3, <1>4, AddsAny
<1>6. \A S \in SUBSET D : (S \in SUBSET E /\ \A y \in S : c[y] = b[y]) => h[S] = g[S]
  BY <1>2, <1>3, <1>4, AddsAlike
<1> HIDE DEF D, E
<1>7. h[D \ {x}] = g[D \ {x}] /\ g[D \ {x}] \in Nat /\ g[D] \in Nat
  BY <1>1, <1>5, <1>6
<1>8. E \in SUBSET E /\ x \in E /\ E \ {x} = D \ {x}
  BY <1>1
<1>9. h[E] = c[x] + h[D \ {x}]
  BY <1>5, <1>8
<1>10. CASE x \in D
  <2>1. g[D] = b[x] + g[D \ {x}] /\ b[x] \in Nat
    BY <1>2, <1>5, <1>10
  <2>2. c[x] = b[x] + 1
    BY <1>1, <1>10
  <2>3. h[E] = g[D] + 1
    BY <1>7, <1>9, <2>1, <2>2
  <2> QED BY <1>3, <1>4, <1>7, <2>3 DEF c
<1>11. CASE x \notin D
  <2>1. c[x] = 1 /\ D \ {x} = D
    BY <1>1, <1>11
  <2>2. h[E] = g[D] + 1
    BY <1>7, <1>9, <2>1
  <2> QED BY <1>3, <1>4, <1>7, <2>2 DEF c
<1> QED BY <1>10, <1>11

LEMMA EntriesOfNone ==
    ASSUME NEW b, DOMAIN b = {}
    PROVE  EntriesOf(b) = 0
<1>1. IsFiniteSet(DOMAIN b)
  BY FS_EmptySet
<1>2. PICK g : Adds(g, b, DOMAIN b) /\ EntriesOf(b) = g[DOMAIN b]
  BY <1>1, EntriesAdds
<1> QED BY <1>2 DEF Adds

\* What has been added can be taken away again.
LEMMA RemoveAdded ==
    ASSUME NEW b, IsBag(b), NEW x
    PROVE  Promised!BagRemove(Promised!BagAdd(b, x), x) = b
<1> DEFINE c == Promised!BagAdd(b, x)
<1>1. /\ DOMAIN c = DOMAIN b \cup {x}
      /\ c[x] = IF x \in DOMAIN b THEN b[x] + 1 ELSE 1
      /\ \A e \in DOMAIN b \ {x} : c[e] = b[e]
  BY AddedIsBag
<1> HIDE DEF c
<1> SUFFICES Promised!BagRemove(c, x) = b
  BY DEF c
<1>2. x \in DOMAIN c
  BY <1>1
<1>3. CASE x \in DOMAIN b
  <2>1. c[x] # 1 /\ b[x] \in Nat /\ c[x] = b[x] + 1
    BY <1>1, <1>3 DEF IsBag
  <2>2. Promised!BagRemove(c, x) = [e \in DOMAIN c |-> IF e = x THEN c[e] - 1 ELSE c[e]]
    BY <1>2, <2>1 DEF Promised!BagRemove
  <2>3. DOMAIN c = DOMAIN b
    BY <1>1, <1>3
  <2>4. \A e \in DOMAIN b : (IF e = x THEN c[e] - 1 ELSE c[e]) = b[e]
    BY <1>1, <2>1
  <2>5. Promised!BagRemove(c, x) = [e \in DOMAIN b |-> b[e]]
    BY <2>2, <2>3, <2>4
  <2> QED BY <2>5 DEF IsBag
<1>4. CASE x \notin DOMAIN b
  <2>1. Promised!BagRemove(c, x) = [e \in DOMAIN c \ {x} |-> c[e]]
    BY <1>1, <1>2, <1>4 DEF Promised!BagRemove
  <2>2. DOMAIN c \ {x} = DOMAIN b /\ \A e \in DOMAIN b : c[e] = b[e]
    BY <1>1, <1>4
  <2>3. Promised!BagRemove(c, x) = [e \in DOMAIN b |-> b[e]]
    BY <2>1, <2>2
  <2> QED BY <2>3 DEF IsBag
<1> QED BY <1>3, <1>4

PairOf(t, s) == <<t.elements[s].key, t.elements[s].value>>
Like(t, p) == {s \in Live(t) : PairOf(t, s) = p}
BagOf(t) == [p \in {PairOf(t, s) : s \in Live(t)} |-> Cardinality(Like(t, p))]

LEMMA LikeFinite ==
    ASSUME NEW t, IsTable(t), NEW p
    PROVE  /\ IsFiniteSet(Like(t, p)) /\ Cardinality(Like(t, p)) \in Nat
           /\ Cardinality(Like(t, p)) = 0 <=> p \notin DOMAIN BagOf(t)
<1>1. IsFiniteSet(Live(t)) /\ Like(t, p) \in SUBSET Live(t)
  BY LiveFinite DEF Like
<1>2. Like(t, p) = {} <=> p \notin DOMAIN BagOf(t)
  BY DEF Like, BagOf
<1> QED BY <1>1, <1>2, SubsetSizes

LEMMA BagIsBag ==
    ASSUME NEW t, IsTable(t)
    PROVE  IsBag(BagOf(t))
<1>1. DOMAIN BagOf(t) = {PairOf(t, s) : s \in Live(t)}
  BY DEF BagOf
<1>2. IsFiniteSet(DOMAIN BagOf(t))
  <2> DEFINE D == DOMAIN BagOf(t)
             f == [s \in Live(t) |-> PairOf(t, s)]
  <2>1. f \in Surjection(Live(t), D)
    BY <1>1 DEF Surjection
  <2> QED BY <2>1, LiveFinite, FS_Surjection
<1>3. \A p \in DOMAIN BagOf(t) : BagOf(t)[p] = Cardinality(Like(t, p))
  BY DEF BagOf
<1>4. \A p \in DOMAIN BagOf(t) : BagOf(t)[p] \in Nat /\ BagOf(t)[p] > 0
  <2> SUFFICES ASSUME NEW p \in DOMAIN BagOf(t) PROVE BagOf(t)[p] \in Nat /\ BagOf(t)[p] > 0
    OBVIOUS
  <2>1. Cardinality(Like(t, p)) \in Nat /\ Cardinality(Like(t, p)) # 0
    BY LikeFinite
  <2> QED BY <1>3, <2>1
<1>5. BagOf(t) = [p \in DOMAIN BagOf(t) |-> BagOf(t)[p]]
  BY DEF BagOf
<1> QED BY <1>2, <1>4, <1>5 DEF IsBag

\* Two tables that differ by one live slot.
LEMMA BagOneMore ==
    ASSUME NEW t, IsTable(t), NEW u, IsTable(u), NEW s, s \notin Live(t), Live(u) = Live(t) \cup {s},
           \A r \in Live(t) : u.elements[r] = t.elements[r]
    PROVE  BagOf(u) = Promised!BagAdd(BagOf(t), PairOf(u, s))
<1> DEFINE p == PairOf(u, s)
           b == BagOf(t)
           c == BagOf(u)
           d == Promised!BagAdd(b, p)
<1>1. \A r \in Live(t) : PairOf(u, r) = PairOf(t, r)
  BY DEF PairOf
<1>2. DOMAIN c = DOMAIN b \cup {p}
  BY <1>1 DEF BagOf
<1>3. IsBag(b) /\ IsBag(c)
  BY BagIsBag
<1>4. /\ DOMAIN d = DOMAIN b \cup {p}
      /\ IsBag(d)
      /\ d[p] = IF p \in DOMAIN b THEN b[p] + 1 ELSE 1
      /\ \A e \in DOMAIN b \ {p} : d[e] = b[e]
  BY <1>3, AddedIsBag
<1>5. \A q \in DOMAIN b : b[q] = Cardinality(Like(t, q))
  BY DEF BagOf
<1>6. \A q \in DOMAIN c : c[q] = Cardinality(Like(u, q))
  BY DEF BagOf
<1>7. \A q : q # p => Like(u, q) = Like(t, q)
  BY <1>1 DEF Like
<1>8. Like(u, p) = Like(t, p) \cup {s} /\ s \notin Like(t, p)
  BY <1>1 DEF Like
<1>9. /\ IsFiniteSet(Like(t, p)) /\ Cardinality(Like(t, p)) \in Nat
      /\ Cardinality(Like(t, p)) = 0 <=> p \notin DOMAIN b
  BY LikeFinite
<1>10. Cardinality(Like(u, p)) = Cardinality(Like(t, p)) + 1
  BY <1>8, <1>9, FS_AddElement
<1> HIDE DEF b, c, d, p
<1>11. c[p] = d[p]
  BY <1>2, <1>4, <1>5, <1>6, <1>9, <1>10
<1>12. \A q \in DOMAIN c : c[q] = d[q]
  BY <1>2, <1>4, <1>5, <1>6, <1>7, <1>11
<1>13. c = d
  BY <1>2, <1>3, <1>4, <1>12 DEF IsBag
<1> QED BY <1>13 DEF b, c, d, p
\* The entry that a store makes, and the one that an erasure takes out.
LEMMA StoreBag ==
    ASSUME NEW t, Good(t), NEW a \in Key, NEW size \in Value, NEW s \in Landing(t, a, AddStops(t))
    PROVE  BagOf(Store(t, s, a, size)) = Promised!BagAdd(BagOf(t), <<a, size>>)
<1> DEFINE u == Store(t, s, a, size)
<1>1. IsTable(t) /\ IsTable(u) /\ s \in Slots(t) /\ s \notin Live(t)
  BY StoreGood DEF Good
<1>2. \A r \in Live(t) : r \in Slots(t) \ {s}
  BY <1>1 DEF Live
<1>3. /\ Live(u) = Live(t) \cup {s}
      /\ u.elements[s] = [hash |-> HashOf(a), key |-> a, value |-> size]
      /\ \A r \in Live(t) : u.elements[r] = t.elements[r]
  <2>1. /\ Live(u) = Live(t) \cup {s}
        /\ u.elements[s] = [hash |-> HashOf(a), key |-> a, value |-> size]
        /\ \A r \in Slots(t) \ {s} : u.elements[r] = t.elements[r]
    BY <1>1, StoreEffect
  <2> HIDE DEF u
  <2> QED BY <1>2, <2>1
<1> HIDE DEF u
<1>4. PairOf(u, s) = <<a, size>>
  BY <1>3 DEF PairOf
<1>5. BagOf(u) = Promised!BagAdd(BagOf(t), PairOf(u, s))
  BY <1>1, <1>3, BagOneMore
<1> QED BY <1>4, <1>5 DEF u

LEMMA EraseBag ==
    ASSUME NEW t, Good(t), NEW s \in Live(t)
    PROVE  BagOf(t) = Promised!BagAdd(BagOf(Erase(t, s)), PairOf(t, s))
<1> DEFINE u == Erase(t, s)
<1>1. IsTable(t) /\ IsTable(u) /\ t.count > 0
  BY EraseGood DEF Good
<1>2. Live(u) = Live(t) \ {s} /\ \A r \in Live(t) \ {s} : u.elements[r] = t.elements[r]
  <2>1. \A r \in Live(t) \ {s} : r \in Slots(t) \ {s}
    BY DEF Live
  <2> QED BY <1>1, <2>1, EraseEffect
<1> HIDE DEF u
<1>3. /\ s \notin Live(u) /\ Live(t) = Live(u) \cup {s}
      /\ \A r \in Live(u) : t.elements[r] = u.elements[r]
  BY <1>2
<1>4. BagOf(t) = Promised!BagAdd(BagOf(u), PairOf(t, s))
  BY <1>1, <1>3, BagOneMore
<1> QED BY <1>4 DEF u

----------------------------------------------------------------------------
(***************************************************************************)
(* The invalid frees, as a sequence.                                       *)
(***************************************************************************)

Fine(x) ==
    /\ x.count \in Nat /\ x.capacity \in Nat /\ x.increment \in Nat \ {0}
    /\ x.count <= x.capacity
    /\ \A n \in 0 .. x.count - 1 : x.data[n] \in Key

LEMMA FineContents ==
    ASSUME NEW x, Fine(x)
    PROVE  /\ Invalid!ContentsOf(x) \in Seq(Key)
           /\ Len(Invalid!ContentsOf(x)) = x.count
           /\ \A n \in 1 .. x.count : Invalid!ContentsOf(x)[n] = x.data[n - 1]
<1> DEFINE c == Invalid!ContentsOf(x)
<1>1. x.count \in Nat
  BY DEF Fine
<1>2. ASSUME NEW n \in 1 .. x.count PROVE x.data[n - 1] \in Key
  <2>1. n - 1 \in 0 .. x.count - 1
    BY <1>1
  <2> QED BY <2>1 DEF Fine
<1>3. c = [n \in 1 .. x.count |-> x.data[n - 1]]
  BY DEF Invalid!ContentsOf
<1>4. c \in [1 .. x.count -> Key]
  BY <1>2, <1>3
<1>5. c \in Seq(Key)
  BY <1>1, <1>4
<1>6. Len(c) \in Nat /\ DOMAIN c = 1 .. Len(c)
  BY <1>5, LenProperties
<1>7. Len(c) = x.count
  BY <1>1, <1>4, <1>6
<1> QED BY <1>3, <1>5, <1>7

LEMMA InvalidAdds ==
    ASSUME NEW x, Fine(x), NEW a \in Key,
           NEW y, y = Invalid!Appended(Invalid!Grown(x), <<a>>, 1)
    PROVE  Fine(y) /\ Invalid!ContentsOf(y) = Append(Invalid!ContentsOf(x), a)
<1> DEFINE g == Invalid!Grown(x)
           s == Invalid!ContentsOf(x)
           v == Invalid!ContentsOf(y)
<1>1. /\ x.count \in Nat /\ x.capacity \in Nat /\ x.increment \in Nat \ {0}
      /\ x.count <= x.capacity
  BY DEF Fine
<1>2. /\ g.count = x.count /\ g.capacity \in Nat /\ g.increment = x.increment
      /\ x.count < g.capacity
      /\ \A n \in 0 .. x.count - 1 : g.data[n] = x.data[n]
  <2>1. CASE x.count = x.capacity
    <3>1. g = Invalid!Resized(x, x.capacity + x.increment)
      BY <2>1 DEF Invalid!Grown
    <3> QED BY <1>1, <2>1, <3>1 DEF Invalid!Resized
  <2>2. CASE x.count # x.capacity
    BY <1>1, <2>2 DEF Invalid!Grown
  <2> QED BY <2>1, <2>2
<1> HIDE DEF g
<1>3. /\ y.count = x.count + 1 /\ y.capacity = g.capacity /\ y.increment = x.increment
      /\ \A n \in 0 .. g.capacity - 1 :
            y.data[n] = IF x.count <= n /\ n < x.count + 1 THEN <<a>>[n - x.count + 1] ELSE g.data[n]
  BY <1>2 DEF Invalid!Appended, g
<1>4. ASSUME NEW n \in 0 .. x.count - 1 PROVE y.data[n] = x.data[n]
  BY <1>1, <1>2, <1>3
<1>5. y.data[x.count] = a
  <2>1. x.count \in 0 .. g.capacity - 1 /\ x.count - x.count + 1 = 1 /\ x.count < x.count + 1
    BY <1>1, <1>2
  <2>2. y.data[x.count] = <<a>>[1]
    BY <1>1, <1>3, <2>1
  <2> QED BY <2>2
<1>6. Fine(y)
  <2>1. \A n \in 0 .. y.count - 1 : n \in 0 .. x.count - 1 \/ n = x.count
    BY <1>1, <1>3
  <2>2. \A n \in 0 .. y.count - 1 : y.data[n] \in Key
    BY <1>4, <1>5, <2>1 DEF Fine
  <2>3. y.count \in Nat /\ y.capacity \in Nat /\ y.increment \in Nat \ {0} /\ y.count <= y.capacity
    BY <1>1, <1>2, <1>3
  <2> QED BY <2>2, <2>3 DEF Fine
<1>7. s \in Seq(Key) /\ Len(s) = x.count /\ \A n \in 1 .. x.count : s[n] = x.data[n - 1]
  BY FineContents
<1>8. v \in Seq(Key) /\ Len(v) = x.count + 1 /\ \A n \in 1 .. x.count + 1 : v[n] = y.data[n - 1]
  BY <1>3, <1>6, FineContents
<1> HIDE DEF s, v
<1>9. /\ Append(s, a) \in Seq(Key)
      /\ Len(Append(s, a)) = x.count + 1
      /\ \A n \in 1 .. x.count : Append(s, a)[n] = s[n]
      /\ Append(s, a)[x.count + 1] = a
  BY <1>7, AppendProperties
<1>10. ASSUME NEW n \in 1 .. x.count + 1 PROVE v[n] = Append(s, a)[n]
  <2>1. CASE n = x.count + 1
    <3>1. n - 1 = x.count
      BY <1>1, <2>1
    <3> QED BY <1>5, <1>8, <1>9, <2>1, <3>1
  <2>2. CASE n # x.count + 1
    <3>1. n \in 1 .. x.count /\ n - 1 \in 0 .. x.count - 1
      BY <1>1, <2>2
    <3> QED BY <1>4, <1>7, <1>8, <1>9, <3>1
  <2> QED BY <2>1, <2>2
<1>11. v = Append(s, a)
  BY <1>8, <1>9, <1>10, SeqEqual
<1> QED BY <1>6, <1>11 DEF s, v

----------------------------------------------------------------------------
(***************************************************************************)
(* The debugger implements the ledger.                                     *)
(***************************************************************************)

\* What the ledger needs: each live element is an entry, and the invalid frees are addresses.
LInv ==
    /\ EntriesOf(BagOf(allocated)) = allocated.count
    /\ Fine(invalid_frees)

LEMMA OutIsBagOf == Out = BagOf(allocated)
BY DEF Out, BagOf, PairOf, Like

\* What a step changes of the table is one entry of the bag.
LEMMA StoreEntry ==
    ASSUME NEW t, Good(t), NEW a \in Key, NEW size \in Value, NEW s \in Landing(t, a, AddStops(t)),
           EntriesOf(BagOf(t)) = t.count
    PROVE  /\ EntriesOf(BagOf(Store(t, s, a, size))) = Store(t, s, a, size).count
           /\ t.count < t.capacity
<1>1. IsTable(t) /\ s \in Slots(t) /\ s \notin Live(t) /\ t.count = Cardinality(Live(t))
  BY StoreGood DEF Good, Counted
<1>2. EntriesOf(BagOf(Store(t, s, a, size))) = t.count + 1
  <2>1. IsBag(BagOf(t))
    BY <1>1, BagIsBag
  <2>2. EntriesOf(Promised!BagAdd(BagOf(t), <<a, size>>)) = EntriesOf(BagOf(t)) + 1
    BY <2>1, EntriesMore
  <2> QED BY <2>2, StoreBag
<1>3. Store(t, s, a, size).count = t.count + 1
  BY DEF Store
<1>4. t.count < t.capacity
  <2>1. t.capacity \in Nat \ {0} /\ Slots(t) = 0 .. t.capacity - 1
    BY <1>1 DEF IsTable, Slots
  <2>2. IsFiniteSet(Slots(t)) /\ Cardinality(Slots(t)) = t.capacity
    BY <2>1, FS_Interval
  <2>3. Live(t) \subseteq Slots(t) /\ Live(t) # Slots(t)
    BY <1>1 DEF Live
  <2>4. Cardinality(Live(t)) \in Nat /\ Cardinality(Live(t)) <= Cardinality(Slots(t))
    BY <2>2, <2>3, FS_Subset, LiveFinite, <1>1
  <2>5. Cardinality(Live(t)) # Cardinality(Slots(t))
    BY <2>2, <2>3, FS_Subset
  <2> QED BY <1>1, <2>1, <2>2, <2>4, <2>5
<1> QED BY <1>2, <1>3, <1>4

LEMMA EraseEntry ==
    ASSUME NEW t, Good(t), NEW s \in Live(t), EntriesOf(BagOf(t)) = t.count
    PROVE  /\ EntriesOf(BagOf(Erase(t, s))) = Erase(t, s).count
           /\ PairOf(t, s) \in DOMAIN BagOf(t)
           /\ BagOf(Erase(t, s)) = Promised!BagRemove(BagOf(t), PairOf(t, s))
<1> DEFINE u == Erase(t, s)
           b == BagOf(u)
           p == PairOf(t, s)
<1>1. IsTable(u) /\ t.count > 0 /\ t.count \in Nat
  BY EraseGood DEF Good, IsTable
<1>2. u.count = t.count - 1
  BY DEF Erase
<1>3. IsBag(b)
  BY <1>1, BagIsBag
<1>4. BagOf(t) = Promised!BagAdd(b, p)
  BY EraseBag
<1>5. p \in DOMAIN BagOf(t)
  BY DEF BagOf
<1> HIDE DEF b, p, u
<1>6. EntriesOf(b) \in Nat /\ EntriesOf(BagOf(t)) = EntriesOf(b) + 1
  BY <1>3, <1>4, EntriesMore
<1>7. Promised!BagRemove(BagOf(t), p) = b
  BY <1>3, <1>4, RemoveAdded
<1> QED BY <1>1, <1>2, <1>5, <1>6, <1>7 DEF b, p, u

LEMMA InitPromised == Init => LInv /\ Promised!Init
<1> SUFFICES ASSUME Init PROVE LInv /\ Promised!Init
  OBVIOUS
<1>1. TableCapacity \in Nat \ {0} /\ InvalidIncrement \in Nat \ {0}
  BY MemoryDebugAssumption
<1>2. IsTable(allocated) /\ Live(allocated) = {} /\ allocated.count = 0
  BY <1>1, EmptyIsTable DEF Init, EmptyTable
<1>3. BagOf(allocated) = << >>
  BY <1>2 DEF BagOf
<1>4. EntriesOf(BagOf(allocated)) = 0
  BY <1>3, EntriesOfNone
<1>5. Fine(invalid_frees) /\ invalid_frees.count = 0
  BY <1>1 DEF Init, Fine, Invalid!EmptyArray
<1>6. Invalid!ContentsOf(invalid_frees) = << >>
  BY <1>5 DEF Invalid!ContentsOf
<1>7. Out = << >>
  BY <1>3, OutIsBagOf
<1>8. LInv
  BY <1>2, <1>4, <1>5 DEF LInv
<1>9. Promised!Init
  BY <1>6, <1>7 DEF Init, Promised!Init
<1> QED BY <1>8, <1>9

LEMMA AllocatePromised ==
    ASSUME IsPowerOfTwo(TableCapacity), IInv, LInv, NEW a \in Key, NEW size \in Value, Allocate(a, size)
    PROVE  LInv' /\ (Promised!Allocate(a, size) \/ Promised!Overflow(size))
<1>1. /\ Good(allocated) /\ allocated.capacity = TableCapacity
      /\ EntriesOf(BagOf(allocated)) = allocated.count /\ Fine(invalid_frees)
  BY DEF IInv, Books, LInv
<1>2. /\ total_allocated' = total_allocated + size
      /\ invalid_frees' = invalid_frees /\ total_freed' = total_freed
  BY DEF Allocate
<1>3. Promised!Entries(Out) = allocated.count
  BY <1>1, OutIsBagOf DEF EntriesOf
<1>4. CASE Landing(allocated, a, AddStops(allocated)) = {}
  <2>1. allocated' = allocated
    BY <1>4 DEF Allocate
  <2>2. allocated.count = TableCapacity
    BY <1>1, <1>4, LoopsWhenFull
  <2>3. Out' = Out
    BY <2>1 DEF Out
  <2>4. Promised!Overflow(size)
    BY <1>2, <1>3, <2>2, <2>3 DEF Promised!Overflow
  <2> QED BY <1>1, <1>2, <2>1, <2>4 DEF LInv
<1>5. CASE Landing(allocated, a, AddStops(allocated)) # {}
  <2>1. PICK s \in Landing(allocated, a, AddStops(allocated)) :
               allocated' = Store(allocated, s, a, size)
    BY <1>5 DEF Allocate
  <2>2. EntriesOf(BagOf(allocated')) = allocated'.count /\ allocated.count < TableCapacity
    BY <1>1, <2>1, StoreEntry
  <2>3. BagOf(allocated') = Promised!BagAdd(BagOf(allocated), <<a, size>>)
    BY <1>1, <2>1, StoreBag
  <2>4. Out' = BagOf(allocated')
    BY DEF Out, BagOf, PairOf, Like
  <2>5. Out' = Promised!BagAdd(Out, <<a, size>>)
    BY <2>3, <2>4, OutIsBagOf
  <2>6. Promised!Allocate(a, size)
    BY <1>2, <1>3, <2>2, <2>5 DEF Promised!Allocate
  <2> QED BY <1>1, <1>2, <2>2, <2>6 DEF LInv
<1> QED BY <1>4, <1>5

LEMMA FreePromised ==
    ASSUME IInv, LInv, NEW a \in Key, Free(a)
    PROVE  LInv' /\ (Promised!Free(a) \/ Promised!InvalidFree(a) \/ UNCHANGED Promised!vars)
<1>1. /\ Good(allocated) /\ SizesKept(allocated)
      /\ EntriesOf(BagOf(allocated)) = allocated.count /\ Fine(invalid_frees)
  BY DEF IInv, Books, LInv
<1>2. total_allocated' = total_allocated
  BY DEF Free
<1>3. CASE Landing(allocated, a, GetStops(allocated, a)) = {}
  <2>1. UNCHANGED <<allocated, invalid_frees, total_freed>>
    BY <1>3 DEF Free
  <2>2. Out' = Out
    BY <2>1 DEF Out
  <2>3. Invalid!ContentsOf(invalid_frees)' = Invalid!ContentsOf(invalid_frees)
    BY <2>1
  <2> QED BY <1>1, <1>2, <2>1, <2>2, <2>3 DEF LInv, Promised!vars
<1>4. CASE Landing(allocated, a, GetStops(allocated, a)) # {}
  <2>1. PICK s \in Landing(allocated, a, GetStops(allocated, a)) :
               IF s \in Unoccupied(allocated) THEN FreeUnknown(a) ELSE FreeKnown(a, s)
    BY <1>4 DEF Free
  <2>2. CASE s \in Unoccupied(allocated)
    <3>1. /\ invalid_frees' = Invalid!Appended(Invalid!Grown(invalid_frees), <<a>>, 1)
          /\ UNCHANGED <<allocated, total_freed>>
      BY <2>1, <2>2 DEF FreeUnknown
    <3>2. /\ Fine(invalid_frees')
          /\ Invalid!ContentsOf(invalid_frees') = Append(Invalid!ContentsOf(invalid_frees), a)
      BY <1>1, <3>1, InvalidAdds
    <3>3. LiveOf(allocated, a) = {}
      BY <1>1, <2>2, GetMissesNone
    <3>4. \A p \in DOMAIN BagOf(allocated) : \A size \in Value : p # <<a, size>>
      BY <3>3 DEF BagOf, PairOf, LiveOf
    <3>5. \A size \in Value : <<a, size>> \notin DOMAIN Out
      BY <3>4, OutIsBagOf
    <3>6. Out' = Out
      BY <3>1 DEF Out
    <3>7. Promised!InvalidFree(a)
      BY <1>2, <3>1, <3>2, <3>5, <3>6 DEF Promised!InvalidFree
    <3> QED BY <1>1, <3>1, <3>2, <3>7 DEF LInv
  <2>3. CASE s \notin Unoccupied(allocated)
    <3>1. FreeKnown(a, s)
      BY <2>1, <2>3
    <3>2. /\ s \in Live(allocated) /\ allocated.elements[s].key = a
          /\ Landing(allocated, a, RemoveStops(allocated, a)) = {s}
      BY <1>1, <2>3, RemoveFollowsGet
    <3>3. allocated' = Erase(allocated, s) /\ invalid_frees' = invalid_frees
      BY <2>3, <3>1, <3>2 DEF FreeKnown
    <3> DEFINE size == allocated.elements[s].value
    <3>4. size \in Value
      BY <1>1, <3>2 DEF SizesKept
    <3>5. allocated'.elements[s].value = size
      <4>1. s \in Slots(allocated) /\ DOMAIN allocated.elements = Slots(allocated)
        BY <1>1, <3>2 DEF Live, Good, IsTable
      <4> QED BY <3>3, <4>1 DEF Erase
    <3>6. total_freed' = total_freed + size
      BY <3>1, <3>5 DEF FreeKnown
    <3>7. PairOf(allocated, s) = <<a, size>>
      BY <3>2 DEF PairOf
    <3> HIDE DEF size
    <3>8. /\ EntriesOf(BagOf(allocated')) = allocated'.count
          /\ <<a, size>> \in DOMAIN BagOf(allocated)
          /\ BagOf(allocated') = Promised!BagRemove(BagOf(allocated), <<a, size>>)
      BY <1>1, <3>2, <3>3, <3>7, EraseEntry
    <3>9. Out' = BagOf(allocated')
      BY DEF Out, BagOf, PairOf, Like
    <3>10. <<a, size>> \in DOMAIN Out
      BY <3>8, OutIsBagOf
    <3>11. Out' = Promised!BagRemove(Out, <<a, size>>)
      BY <3>8, <3>9, OutIsBagOf
    <3>12. Invalid!ContentsOf(invalid_frees)' = Invalid!ContentsOf(invalid_frees)
      BY <3>3
    <3>13. Promised!Free(a)
      BY <1>2, <3>4, <3>6, <3>10, <3>11, <3>12 DEF Promised!Free
    <3> QED BY <1>1, <3>3, <3>8, <3>13 DEF LInv
  <2> QED BY <2>2, <2>3
<1> QED BY <1>3, <1>4

LEMMA NextPromised ==
    ASSUME IsPowerOfTwo(TableCapacity)
    PROVE  IInv /\ LInv /\ [Next]_vars => LInv' /\ [Promised!Next]_(Promised!vars)
<1> SUFFICES ASSUME IInv, LInv, [Next]_vars PROVE LInv' /\ [Promised!Next]_(Promised!vars)
  OBVIOUS
<1>1. CASE UNCHANGED books
  <2>1. UNCHANGED <<allocated, invalid_frees, total_allocated, total_freed>>
    BY <1>1 DEF books
  <2>2. Out' = Out
    BY <2>1 DEF Out
  <2>3. Invalid!ContentsOf(invalid_frees)' = Invalid!ContentsOf(invalid_frees)
    BY <2>1
  <2> QED BY <2>1, <2>2, <2>3 DEF LInv, Promised!vars
<1>2. ASSUME NEW a \in Key, NEW size \in Value, Allocate(a, size)
      PROVE  LInv' /\ Promised!Next
  BY <1>2, AllocatePromised DEF Promised!Next
<1>3. ASSUME NEW a \in Key, Free(a)
      PROVE  LInv' /\ [Promised!Next]_(Promised!vars)
  BY <1>3, FreePromised DEF Promised!Next
<1>4. CASE ReportBegin \/ ReportStep \/ ReportDestroy
  BY <1>1, <1>4, ReportOK
<1>5. CASE UNCHANGED vars
  BY <1>1, <1>5 DEF vars, books
<1> QED BY <1>2, <1>3, <1>4, <1>5 DEF Next

\* With a number of slots that is a power of two, the table, the array of invalid frees and the
\* totals are the ledger: no block is forgotten, entered twice or taken for another.
THEOREM BooksAreLedger == IsPowerOfTwo(TableCapacity) => (Spec => ImplementsLedger)
<1> SUFFICES ASSUME IsPowerOfTwo(TableCapacity) PROVE Spec => ImplementsLedger
  OBVIOUS
<1>1. Init => LInv /\ Promised!Init
  BY InitPromised
<1>2. IInv /\ LInv /\ [Next]_vars => LInv' /\ [Promised!Next]_(Promised!vars)
  BY NextPromised
<1> QED BY <1>1, <1>2, Invariance, PTL DEF Spec, ImplementsLedger, Promised!Spec

----------------------------------------------------------------------------
(***************************************************************************)
(* The lines of the report.                                                *)
(***************************************************************************)

HasRoom(x) ==
    /\ x.count \in Nat /\ x.capacity \in Nat /\ x.increment \in Nat
    /\ x.count <= x.capacity

\* One line more.
Longer(x, y, line) ==
    /\ HasRoom(y) /\ y.count = x.count + 1 /\ y.increment = x.increment
    /\ \A n \in 0 .. x.count - 1 : y.data[n] = x.data[n]
    /\ y.data[x.count] = line

LEMMA LineFits ==
    ASSUME NEW x, HasRoom(x), NEW line, NEW g, g = Lines!Grown(x)
    PROVE  /\ g.count < g.capacity => Longer(x, Lines!Appended(g, <<line>>, 1), line)
           /\ g.count >= g.capacity => x.increment = 0
<1>1. x.count \in Nat /\ x.capacity \in Nat /\ x.increment \in Nat /\ x.count <= x.capacity
  BY DEF HasRoom
<1>2. /\ g.count = x.count /\ g.capacity \in Nat /\ g.increment = x.increment
      /\ g.count >= g.capacity => x.increment = 0
      /\ \A n \in 0 .. x.count - 1 : g.data[n] = x.data[n]
  <2>1. CASE x.count = x.capacity
    <3>1. g = Lines!Resized(x, x.capacity + x.increment)
      BY <2>1 DEF Lines!Grown
    <3> QED BY <1>1, <2>1, <3>1 DEF Lines!Resized
  <2>2. CASE x.count # x.capacity
    BY <1>1, <2>2 DEF Lines!Grown
  <2> QED BY <2>1, <2>2
<1>3. ASSUME g.count < g.capacity
      PROVE  Longer(x, Lines!Appended(g, <<line>>, 1), line)
  <2> DEFINE y == Lines!Appended(g, <<line>>, 1)
  <2>1. /\ y.count = x.count + 1 /\ y.capacity = g.capacity /\ y.increment = x.increment
        /\ \A n \in 0 .. g.capacity - 1 :
              y.data[n] = IF x.count <= n /\ n < x.count + 1 THEN <<line>>[n - x.count + 1] ELSE g.data[n]
    BY <1>2 DEF Lines!Appended
  <2> HIDE DEF y
  <2>2. \A n \in 0 .. x.count - 1 : y.data[n] = x.data[n]
    BY <1>1, <1>2, <1>3, <2>1
  <2>3. y.data[x.count] = line
    <3>1. x.count \in 0 .. g.capacity - 1 /\ x.count - x.count + 1 = 1 /\ x.count < x.count + 1
      BY <1>1, <1>2, <1>3
    <3>2. y.data[x.count] = <<line>>[1]
      BY <1>1, <2>1, <3>1
    <3> QED BY <3>2
  <2>4. HasRoom(y)
    BY <1>1, <1>2, <1>3, <2>1 DEF HasRoom
  <2>5. Longer(x, y, line)
    BY <2>1, <2>2, <2>3, <2>4 DEF Longer
  <2> QED BY <2>5 DEF y
<1> QED BY <1>2, <1>3

\* What the steps that write a line do.
LEMMA LineWritten ==
    ASSUME HasRoom(report), NEW kind, NEW a, NEW size, AddLine(kind, a, size), NEW place, Goto(place)
    PROVE  \/ pc' = place /\ Longer(report, report', LineOf(kind, a, size))
           \/ pc' = "overrun" /\ report.increment = 0
<1> DEFINE g == Lines!Grown(report)
           line == LineOf(kind, a, size)
<1>1. /\ g.count < g.capacity => Longer(report, Lines!Appended(g, <<line>>, 1), line)
      /\ g.count >= g.capacity => report.increment = 0
  BY LineFits
<1>2. g.count < g.capacity => report' = Lines!Appended(g, <<line>>, 1)
  BY DEF AddLine, LineOf
<1>3. pc' = IF g.count >= g.capacity THEN "overrun" ELSE place
  BY DEF Goto, Overruns
<1>4. g.count \in Int /\ g.capacity \in Int
  BY DEF HasRoom, Lines!Grown, Lines!Resized
<1> HIDE DEF g, line
<1>5. g.count < g.capacity \/ g.count >= g.capacity
  BY <1>4
<1>6. ~(g.count < g.capacity /\ g.count >= g.capacity)
  BY <1>4
<1> QED BY <1>1, <1>2, <1>3, <1>5, <1>6 DEF line

LEMMA TextOfLines ==
    ASSUME NEW x, HasRoom(x)
    PROVE  /\ Len(Lines!ContentsOf(x)) = x.count
           /\ DOMAIN Lines!ContentsOf(x) = 1 .. x.count
           /\ \A n \in 1 .. x.count : Lines!ContentsOf(x)[n] = x.data[n - 1]
<1> DEFINE c == Lines!ContentsOf(x)
           S == {x.data[n - 1] : n \in 1 .. x.count}
<1>1. x.count \in Nat
  BY DEF HasRoom
<1>2. c = [n \in 1 .. x.count |-> x.data[n - 1]]
  BY DEF Lines!ContentsOf
<1>3. c \in [1 .. x.count -> S]
  BY <1>2
<1> HIDE DEF S
<1>4. c \in Seq(S)
  BY <1>1, <1>3
<1>5. Len(c) \in Nat /\ DOMAIN c = 1 .. Len(c)
  BY <1>4, LenProperties
<1>6. Len(c) = x.count
  BY <1>1, <1>3, <1>5
<1> QED BY <1>2, <1>3, <1>6

----------------------------------------------------------------------------
(***************************************************************************)
(* The lines of the blocks: as many of each as there are such blocks among *)
(* the slots that the iteration has met.                                   *)
(***************************************************************************)

Leak(t, s) == LineOf("leak", t.elements[s].key, t.elements[s].value)
Marks(x, line) == {n \in 1 .. x.count : x.data[n - 1] = line}
Alike(t, M, s) == {r \in M : Leak(t, r) = Leak(t, s)}
LeaksTold(t, x, M) == \A s \in Live(t) : Cardinality(Marks(x, Leak(t, s))) = Cardinality(Alike(t, M, s))
Met(t, n) == {r \in Live(t) : r < n}

LEMMA MarksFinite ==
    ASSUME NEW x, HasRoom(x), NEW line
    PROVE  IsFiniteSet(Marks(x, line)) /\ Cardinality(Marks(x, line)) \in Nat
<1>1. x.count \in Nat
  BY DEF HasRoom
<1>2. IsFiniteSet(1 .. x.count)
  BY <1>1, FS_Interval
<1>3. Marks(x, line) \in SUBSET (1 .. x.count)
  BY DEF Marks
<1> QED BY <1>2, <1>3, FS_Subset, FS_CardinalityType

LEMMA MarksGrow ==
    ASSUME NEW x, HasRoom(x), NEW y, NEW line, Longer(x, y, line), NEW l
    PROVE  /\ l # line => Marks(y, l) = Marks(x, l)
           /\ l = line => Cardinality(Marks(y, l)) = Cardinality(Marks(x, l)) + 1
<1>1. /\ x.count \in Nat /\ y.count = x.count + 1
      /\ \A n \in 0 .. x.count - 1 : y.data[n] = x.data[n]
      /\ y.data[x.count] = line
  BY DEF HasRoom, Longer
<1>2. \A n \in 1 .. x.count : y.data[n - 1] = x.data[n - 1]
  <2>1. \A n \in 1 .. x.count : n - 1 \in 0 .. x.count - 1
    BY <1>1
  <2> QED BY <1>1, <2>1
<1>3. \A n \in 1 .. y.count : n \in 1 .. x.count \/ (n = x.count + 1 /\ n - 1 = x.count)
  BY <1>1
<1>4. \A n \in 1 .. x.count : n \in 1 .. y.count /\ n # x.count + 1
  BY <1>1
<1>5. ASSUME l # line PROVE Marks(y, l) = Marks(x, l)
  BY <1>1, <1>2, <1>3, <1>4, <1>5 DEF Marks
<1>6. ASSUME l = line PROVE Cardinality(Marks(y, l)) = Cardinality(Marks(x, l)) + 1
  <2>1. x.count + 1 \in 1 .. y.count /\ (x.count + 1) - 1 = x.count
    BY <1>1
  <2>2. Marks(y, l) = Marks(x, l) \cup {x.count + 1} /\ x.count + 1 \notin Marks(x, l)
    BY <1>1, <1>2, <1>3, <1>4, <1>6, <2>1 DEF Marks
  <2>3. IsFiniteSet(Marks(x, l))
    BY MarksFinite
  <2> QED BY <2>2, <2>3, FS_AddElement
<1> QED BY <1>5, <1>6

\* A line of another kind.
LEMMA OtherLine ==
    ASSUME NEW t, NEW x, HasRoom(x), NEW M, LeaksTold(t, x, M),
           NEW kind, kind # "leak", NEW a, NEW size, NEW y, Longer(x, y, LineOf(kind, a, size))
    PROVE  LeaksTold(t, y, M)
<1> SUFFICES ASSUME NEW s \in Live(t)
             PROVE  Cardinality(Marks(y, Leak(t, s))) = Cardinality(Alike(t, M, s))
  BY DEF LeaksTold
<1>1. Leak(t, s) # LineOf(kind, a, size)
  <2>1. Leak(t, s).kind = "leak" /\ LineOf(kind, a, size).kind = kind
    BY DEF Leak, LineOf
  <2> QED BY <2>1
<1>2. Marks(y, Leak(t, s)) = Marks(x, Leak(t, s))
  BY <1>1, MarksGrow
<1> QED BY <1>2 DEF LeaksTold

\* The line of the slot the iteration meets.
LEMMA LeakLine ==
    ASSUME NEW t, IsTable(t), NEW x, HasRoom(x), NEW n \in Live(t), LeaksTold(t, x, Met(t, n)),
           NEW y, Longer(x, y, Leak(t, n))
    PROVE  LeaksTold(t, y, Met(t, n + 1))
<1>1. Met(t, n + 1) = Met(t, n) \cup {n} /\ n \notin Met(t, n)
  <2>1. n \in Int /\ \A r \in Live(t) : r \in Int
    BY DEF Live, Slots
  <2>2. \A r \in Live(t) : r < n + 1 <=> r < n \/ r = n
    BY <2>1
  <2>3. ~(n < n) /\ n < n + 1
    BY <2>1
  <2> QED BY <2>2, <2>3 DEF Met
<1>2. IsFiniteSet(Live(t))
  BY LiveFinite
<1> SUFFICES ASSUME NEW s \in Live(t)
             PROVE  Cardinality(Marks(y, Leak(t, s))) = Cardinality(Alike(t, Met(t, n + 1), s))
  BY DEF LeaksTold
<1>3. Cardinality(Marks(x, Leak(t, s))) = Cardinality(Alike(t, Met(t, n), s))
  BY DEF LeaksTold
<1>4. CASE Leak(t, s) = Leak(t, n)
  <2>1. /\ Alike(t, Met(t, n + 1), s) = Alike(t, Met(t, n), s) \cup {n}
        /\ n \notin Alike(t, Met(t, n), s)
    BY <1>1, <1>4 DEF Alike
  <2>2. IsFiniteSet(Alike(t, Met(t, n), s))
    <3>1. Alike(t, Met(t, n), s) \in SUBSET Live(t)
      BY DEF Alike, Met
    <3> QED BY <1>2, <3>1, FS_Subset
  <2>3. Cardinality(Alike(t, Met(t, n + 1), s)) = Cardinality(Alike(t, Met(t, n), s)) + 1
    BY <2>1, <2>2, FS_AddElement
  <2>4. Cardinality(Marks(y, Leak(t, s))) = Cardinality(Marks(x, Leak(t, s))) + 1
    BY <1>4, MarksGrow
  <2> QED BY <1>3, <2>3, <2>4
<1>5. CASE Leak(t, s) # Leak(t, n)
  <2>1. Alike(t, Met(t, n + 1), s) = Alike(t, Met(t, n), s)
    BY <1>1, <1>5 DEF Alike
  <2>2. Marks(y, Leak(t, s)) = Marks(x, Leak(t, s))
    BY <1>5, MarksGrow
  <2> QED BY <1>3, <2>1, <2>2
<1> QED BY <1>4, <1>5

\* How the iteration goes over the slots.
LEMMA MetSome ==
    ASSUME NEW t, Good(t), NEW n \in Nat
    PROVE  /\ IsFiniteSet(Met(t, n)) /\ Cardinality(Met(t, n)) \in Nat
           /\ Met(t, n) \subseteq Live(t)
           /\ Cardinality(Met(t, n)) <= t.count
           /\ Cardinality(Met(t, n)) = t.count => Met(t, n) = Live(t)
           /\ n >= t.capacity => Met(t, n) = Live(t)
           /\ n \notin Live(t) => Met(t, n + 1) = Met(t, n)
           /\ n \in Live(t) => Cardinality(Met(t, n + 1)) = Cardinality(Met(t, n)) + 1
<1>1. IsTable(t) /\ t.count = Cardinality(Live(t)) /\ IsFiniteSet(Live(t)) /\ t.capacity \in Nat
  BY LiveFinite DEF Good, Counted, IsTable
<1>2. \A r \in Live(t) : r \in Int /\ r < t.capacity
  BY <1>1 DEF Live, Slots
<1>3. Met(t, n) \in SUBSET Live(t)
  BY DEF Met
<1>4. /\ IsFiniteSet(Met(t, n)) /\ Cardinality(Met(t, n)) \in Nat
      /\ Cardinality(Met(t, n)) <= t.count
      /\ Cardinality(Met(t, n)) = t.count => Met(t, n) = Live(t)
  BY <1>1, <1>3, FS_Subset, FS_CardinalityType
<1>5. ASSUME n >= t.capacity PROVE Met(t, n) = Live(t)
  <2>1. \A r \in Live(t) : r < n
    BY <1>1, <1>2, <1>5
  <2> QED BY <2>1 DEF Met
<1>6. \A r \in Live(t) : r < n + 1 <=> r < n \/ r = n
  BY <1>2
<1>7. ASSUME n \notin Live(t) PROVE Met(t, n + 1) = Met(t, n)
  BY <1>6, <1>7 DEF Met
<1>8. ASSUME n \in Live(t) PROVE Cardinality(Met(t, n + 1)) = Cardinality(Met(t, n)) + 1
  <2>1. ~(n < n)
    OBVIOUS
  <2>2. Met(t, n + 1) = Met(t, n) \cup {n} /\ n \notin Met(t, n)
    BY <1>6, <1>8, <2>1 DEF Met
  <2> QED BY <1>4, <2>2, FS_AddElement
<1> QED BY <1>3, <1>4, <1>5, <1>7, <1>8

----------------------------------------------------------------------------
(***************************************************************************)
(* The report, line by line.                                               *)
(***************************************************************************)

\* A line and its trace, n times.
At(n) == (1 + Frames) * n

LEMMA AtIs ==
    /\ Frames \in Nat
    /\ At(0) = 0
    /\ \A n \in Nat : At(n) \in Nat /\ At(n + 1) = At(n) + 1 + Frames
    /\ \A m \in Nat : \A n \in Nat : m < n => At(m) + 1 + Frames <= At(n)
<1>1. Frames \in Nat
  BY MemoryDebugAssumption
<1>2. At(0) = 0
  BY <1>1 DEF At
<1>3. \A n \in Nat : At(n) \in Nat /\ At(n + 1) = At(n) + 1 + Frames
  BY <1>1 DEF At
<1>4. \A m \in Nat : \A n \in Nat : m < n => At(m) + 1 + Frames <= At(n)
  <2> SUFFICES ASSUME NEW m \in Nat, NEW n \in Nat, m < n
               PROVE  At(m) + 1 + Frames <= At(n)
    OBVIOUS
  <2>1. PICK d \in Nat : n = (m + 1) + d
    <3>1. n - (m + 1) \in Nat /\ n = (m + 1) + (n - (m + 1))
      OBVIOUS
    <3> QED BY <3>1
  <2>2. At(n) = At(m + 1) + (1 + Frames) * d
    BY <1>1, <2>1 DEF At
  <2> DEFINE more == (1 + Frames) * d
  <2>3. more \in Nat
    BY <1>1
  <2>4. At(n) = At(m + 1) + more
    BY <2>2
  <2> HIDE DEF more
  <2> QED BY <1>1, <1>3, <2>3, <2>4
<1> QED BY <1>1, <1>2, <1>3, <1>4

\* The lines of the first n invalid frees.
InvalidTold(n) ==
    \A m \in Nat : m < n =>
        report.data[At(allocated.count + m)] = LineOf("invalid", invalid_frees.data[m], 0)

\* How many lines the blocks and the invalid frees take.
Body == At(allocated.count + invalid_frees.count)

LeaksPart ==
    /\ i \in Nat /\ j = Cardinality(Met(allocated, i))
    /\ report.count = At(j) - frames
    /\ LeaksTold(allocated, report, Met(allocated, i))

InvalidPart ==
    /\ i \in Nat /\ i <= invalid_frees.count
    /\ report.count = At(allocated.count + i) - frames
    /\ LeaksTold(allocated, report, Live(allocated))
    /\ InvalidTold(i)

TotalsPart ==
    /\ frames = 0
    /\ LeaksTold(allocated, report, Live(allocated))
    /\ InvalidTold(invalid_frees.count)
    /\ pc = "totals" => report.count = Body
    /\ pc \in {"total_freed", "reported"} => report.data[Body] = LineOf("allocated", NULL, total_allocated)
    /\ pc = "total_freed" => report.count = Body + 1
    /\ pc = "reported" => /\ report.count = Body + 2
                          /\ report.data[Body + 1] = LineOf("freed", NULL, total_freed)

RInv ==
    /\ Fine(invalid_frees)
    /\ pc = "overrun" => allocated.count = 0
    /\ pc \in {"leaks", "invalid", "totals", "total_freed", "reported"} =>
          HasRoom(report) /\ report.increment = allocated.count /\ frames \in 0 .. Frames
    /\ pc = "leaks" => LeaksPart
    /\ pc = "invalid" => InvalidPart
    /\ pc \in {"totals", "total_freed", "reported"} => TotalsPart

\* The calls that are not about the report leave nothing of it behind.
LEMMA BooksKeepRInv ==
    ASSUME RInv, \/ \E a \in Key, size \in Value : Allocate(a, size)
                 \/ \E a \in Key : Free(a)
                 \/ ReportDestroy
    PROVE  RInv'
<1>1. Fine(invalid_frees)
  BY DEF RInv
<1>2. CASE \E a \in Key, size \in Value : Allocate(a, size)
  <2>1. invalid_frees' = invalid_frees /\ pc' \in {"ready", "allocate_loops"}
    BY <1>2 DEF Allocate
  <2> QED BY <1>1, <2>1 DEF RInv
<1>3. ASSUME NEW a \in Key, Free(a) PROVE RInv'
  <2>1. \/ invalid_frees' = invalid_frees
        \/ invalid_frees' = Invalid!Appended(Invalid!Grown(invalid_frees), <<a>>, 1)
    BY <1>3 DEF Free, FreeKnown, FreeUnknown
  <2>2. Fine(invalid_frees')
    BY <1>1, <2>1, InvalidAdds
  <2>3. pc' \in {"ready", "free_loops", "corrupt"}
    BY <1>3 DEF Free, FreeKnown, FreeUnknown, HeapFree
  <2> QED BY <2>2, <2>3 DEF RInv
<1>4. CASE ReportDestroy
  <2>1. invalid_frees' = invalid_frees /\ pc' = "ready"
    BY <1>4 DEF ReportDestroy, books
  <2> QED BY <1>1, <2>1 DEF RInv
<1> QED BY <1>2, <1>3, <1>4

LEMMA BeginRInv ==
    ASSUME IInv, RInv, ReportBegin
    PROVE  RInv'
<1>1. /\ allocated' = allocated /\ invalid_frees' = invalid_frees
      /\ report' = Lines!EmptyArray(0, allocated.count)
      /\ i' = 0 /\ j' = 0 /\ frames' = 0 /\ pc' = "leaks"
  BY DEF ReportBegin, books
<1>2. IsTable(allocated) /\ allocated.count \in Nat
  BY DEF IInv, Books, Good, IsTable
<1>3. /\ report'.count = 0 /\ report'.capacity = 0 /\ report'.increment = allocated.count
  BY <1>1 DEF Lines!EmptyArray
<1>4. HasRoom(report') /\ frames' \in 0 .. Frames
  BY <1>1, <1>2, <1>3, MemoryDebugAssumption DEF HasRoom
<1>5. Met(allocated, 0) = {}
  <2>1. \A r \in Live(allocated) : ~(r < 0)
    BY <1>2 DEF Live, Slots
  <2> QED BY <2>1 DEF Met
<1>6. Cardinality({}) = 0
  BY FS_EmptySet
<1>7. LeaksTold(allocated, report', Met(allocated, 0))
  <2>1. \A line : Marks(report', line) = {}
    BY <1>3 DEF Marks
  <2>2. \A s : Alike(allocated, Met(allocated, 0), s) = {}
    BY <1>5 DEF Alike
  <2> QED BY <2>1, <2>2 DEF LeaksTold
<1>8. At(0) - 0 = 0
  BY AtIs
<1>9. LeaksPart'
  BY <1>1, <1>3, <1>5, <1>6, <1>7, <1>8 DEF LeaksPart
<1> QED BY <1>1, <1>3, <1>4, <1>9 DEF RInv

LEMMA LeaksRInv ==
    ASSUME IInv, RInv, ReportSkip \/ ReportLeak \/ ReportLeaksEnd
    PROVE  RInv'
<1>1. /\ Good(allocated) /\ IsTable(allocated) /\ allocated.count \in Nat
      /\ allocated' = allocated /\ invalid_frees' = invalid_frees
      /\ pc = "leaks" /\ frames = 0
      /\ Fine(invalid_frees)
  BY DEF IInv, Books, Good, IsTable, RInv, ReportSkip, ReportLeak, ReportLeaksEnd, books
<1>2. /\ HasRoom(report) /\ report.increment = allocated.count
      /\ i \in Nat /\ j = Cardinality(Met(allocated, i))
      /\ report.count = At(j) - frames
      /\ LeaksTold(allocated, report, Met(allocated, i))
  BY <1>1 DEF RInv, LeaksPart
<1>3. /\ Cardinality(Met(allocated, i)) \in Nat
      /\ Cardinality(Met(allocated, i)) <= allocated.count
      /\ Cardinality(Met(allocated, i)) = allocated.count => Met(allocated, i) = Live(allocated)
      /\ i \notin Live(allocated) => Met(allocated, i + 1) = Met(allocated, i)
      /\ i \in Live(allocated) => Cardinality(Met(allocated, i + 1)) = Cardinality(Met(allocated, i)) + 1
  BY <1>1, <1>2, MetSome
<1>4. Frames \in Nat /\ 0 \in 0 .. Frames /\ Frames \in 0 .. Frames
  BY AtIs
<1>5. CASE ReportSkip
  <2>1. i \notin Live(allocated) /\ i' = i + 1 /\ UNCHANGED <<report, j, frames, pc>>
    BY <1>5 DEF ReportSkip
  <2>2. LeaksPart'
    BY <1>1, <1>2, <1>3, <2>1 DEF LeaksPart
  <2> QED BY <1>1, <1>2, <1>4, <2>1, <2>2 DEF RInv
<1>6. CASE ReportLeak
  <2>1. /\ i \in Live(allocated) /\ i' = i + 1 /\ j' = j + 1 /\ frames' = Frames
        /\ AddLine("leak", allocated.elements[i].key, allocated.elements[i].value)
        /\ Goto("leaks")
    BY <1>6 DEF ReportLeak
  <2>2. CASE pc' = "overrun" /\ report.increment = 0
    BY <1>1, <1>2, <2>2 DEF RInv
  <2>3. CASE pc' = "leaks" /\ Longer(report, report', Leak(allocated, i))
    <3>1. LeaksTold(allocated, report', Met(allocated, i + 1))
      BY <1>1, <1>2, <2>1, <2>3, LeakLine
    <3>2. HasRoom(report') /\ report'.count = report.count + 1 /\ report'.increment = report.increment
      BY <2>3 DEF Longer
    <3>3. j' = Cardinality(Met(allocated, i + 1))
      BY <1>2, <1>3, <2>1
    <3>4. j \in Nat
      BY <1>2, <1>3
    <3>5. At(j + 1) = At(j) + 1 + Frames /\ At(j) \in Nat
      BY <3>4, AtIs
    <3>6. report'.count = At(j') - Frames
      BY <1>1, <1>2, <1>4, <2>1, <3>2, <3>5
    <3>7. LeaksPart'
      BY <1>1, <1>2, <2>1, <3>1, <3>3, <3>6 DEF LeaksPart
    <3> QED BY <1>1, <1>2, <1>4, <2>1, <2>3, <3>2, <3>7 DEF RInv
  <2> QED BY <1>2, <2>1, <2>2, <2>3, LineWritten DEF Leak
<1>7. CASE ReportLeaksEnd
  <2>1. j >= allocated.count /\ i' = 0 /\ pc' = "invalid" /\ UNCHANGED <<report, j, frames>>
    BY <1>7 DEF ReportLeaksEnd
  <2>2. j = allocated.count /\ Met(allocated, i) = Live(allocated)
    BY <1>1, <1>2, <1>3, <2>1
  <2>3. allocated.count + 0 = allocated.count
    BY <1>1
  <2>4. InvalidTold(0)'
    BY <2>1 DEF InvalidTold
  <2>5. 0 <= invalid_frees.count
    BY <1>1 DEF Fine
  <2>6. InvalidPart'
    BY <1>1, <1>2, <2>1, <2>2, <2>3, <2>4, <2>5 DEF InvalidPart
  <2> QED BY <1>1, <1>2, <1>4, <2>1, <2>6 DEF RInv
<1> QED BY <1>5, <1>6, <1>7

\* A longer report still tells of the invalid frees it told of.
LEMMA StillTold ==
    ASSUME NEW c \in Nat, c = allocated.count, NEW n \in Nat, InvalidTold(n), HasRoom(report),
           NEW line, Longer(report, report', line), NEW f \in 0 .. Frames, report.count >= At(c + n) - f,
           UNCHANGED <<allocated, invalid_frees>>
    PROVE  \A m \in Nat : m < n =>
              report'.data[At(c + m)] = LineOf("invalid", invalid_frees'.data[m], 0)
<1> SUFFICES ASSUME NEW m \in Nat, m < n
             PROVE  report'.data[At(c + m)] = LineOf("invalid", invalid_frees'.data[m], 0)
  OBVIOUS
<1>1. c + m \in Nat /\ c + n \in Nat /\ c + m < c + n
  OBVIOUS
<1>2. /\ At(c + m) \in Nat /\ At(c + n) \in Nat /\ Frames \in Nat
      /\ At(c + m) + 1 + Frames <= At(c + n)
  BY <1>1, AtIs
<1> DEFINE p == At(c + m)
           q == At(c + n)
<1>3. p \in Nat /\ q \in Nat /\ p + 1 + Frames <= q /\ report.count >= q - f /\ report.count \in Nat
  BY <1>2 DEF HasRoom
<1> HIDE DEF p, q
<1>4. p \in 0 .. report.count - 1
  BY <1>2, <1>3
<1>5. report'.data[p] = report.data[p]
  BY <1>4 DEF Longer
<1>6. report.data[p] = LineOf("invalid", invalid_frees.data[m], 0)
  BY DEF InvalidTold, p
<1> QED BY <1>5, <1>6 DEF p

LEMMA InvalidRInv ==
    ASSUME IInv, RInv, ReportInvalid \/ ReportInvalidEnd
    PROVE  RInv'
<1>1. /\ allocated.count \in Nat
      /\ allocated' = allocated /\ invalid_frees' = invalid_frees
      /\ pc = "invalid" /\ frames = 0
      /\ Fine(invalid_frees) /\ invalid_frees.count \in Nat
  BY DEF IInv, Books, Good, IsTable, RInv, Fine, ReportInvalid, ReportInvalidEnd, books
<1>2. /\ HasRoom(report) /\ report.increment = allocated.count
      /\ i \in Nat /\ i <= invalid_frees.count
      /\ report.count = At(allocated.count + i) - frames
      /\ LeaksTold(allocated, report, Live(allocated))
      /\ InvalidTold(i)
  BY <1>1 DEF RInv, InvalidPart
<1>3. Frames \in Nat /\ 0 \in 0 .. Frames /\ Frames \in 0 .. Frames
  BY AtIs
<1>4. /\ allocated.count + i \in Nat /\ At(allocated.count + i) \in Nat
      /\ report.count = At(allocated.count + i)
  <2>1. allocated.count + i \in Nat
    BY <1>1, <1>2
  <2>2. At(allocated.count + i) \in Nat
    BY <2>1, AtIs
  <2> QED BY <1>1, <1>2, <2>1, <2>2
<1>5. CASE ReportInvalid
  <2>1. /\ i < invalid_frees.count /\ i' = i + 1 /\ frames' = Frames
        /\ AddLine("invalid", invalid_frees.data[i], 0)
        /\ Goto("invalid")
    BY <1>5 DEF ReportInvalid
  <2> DEFINE line == LineOf("invalid", invalid_frees.data[i], 0)
  <2>2. CASE pc' = "overrun" /\ report.increment = 0
    BY <1>1, <1>2, <2>2 DEF RInv
  <2>3. CASE pc' = "invalid" /\ Longer(report, report', line)
    <3>1. LeaksTold(allocated, report', Live(allocated))
      BY <1>2, <2>3, OtherLine
    <3>2. HasRoom(report') /\ report'.count = report.count + 1 /\ report'.increment = report.increment
          /\ report'.data[report.count] = line
      BY <2>3 DEF Longer
    <3>3. At((allocated.count + i) + 1) = At(allocated.count + i) + 1 + Frames
      BY <1>4, AtIs
    <3>4. (allocated.count + i) + 1 = allocated.count + (i + 1)
      BY <1>1, <1>2
    <3>5. report'.count = At(allocated.count + i') - Frames
      BY <1>3, <1>4, <2>1, <3>2, <3>3, <3>4
    <3>6. \A m \in Nat : m < i =>
             report'.data[At(allocated.count + m)] = LineOf("invalid", invalid_frees'.data[m], 0)
      <4>1. report.count >= At(allocated.count + i) - 0
        BY <1>4
      <4> QED BY <1>1, <1>2, <1>3, <2>3, <4>1, StillTold
    <3>7. \A m \in Nat : m < i + 1 => m < i \/ m = i
      BY <1>2
    <3>8. \A m \in Nat : m < i + 1 =>
             report'.data[At(allocated.count + m)] = LineOf("invalid", invalid_frees'.data[m], 0)
      BY <1>1, <1>4, <3>2, <3>6, <3>7
    <3>9. i + 1 \in Nat /\ i + 1 <= invalid_frees.count
      BY <1>1, <1>2, <2>1
    <3>10. InvalidTold(i)'
      BY <1>1, <2>1, <3>8 DEF InvalidTold
    <3>11. InvalidPart'
      BY <1>1, <2>1, <3>1, <3>5, <3>9, <3>10 DEF InvalidPart
    <3> QED BY <1>1, <1>2, <1>3, <2>1, <2>3, <3>2, <3>11 DEF RInv
  <2> QED BY <1>2, <2>1, <2>2, <2>3, LineWritten
<1>6. CASE ReportInvalidEnd
  <2>1. i >= invalid_frees.count /\ pc' = "totals" /\ UNCHANGED <<report, i, j, frames>>
    BY <1>6 DEF ReportInvalidEnd
  <2>2. i = invalid_frees.count
    BY <1>1, <1>2, <2>1
  <2>3. InvalidTold(invalid_frees.count)'
    BY <1>1, <1>2, <2>1, <2>2 DEF InvalidTold
  <2>4. TotalsPart'
    BY <1>1, <1>2, <1>4, <2>1, <2>2, <2>3 DEF TotalsPart, Body
  <2> QED BY <1>1, <1>2, <1>3, <2>1, <2>4 DEF RInv
<1> QED BY <1>5, <1>6

LEMMA FrameRInv ==
    ASSUME IInv, RInv, ReportFrame
    PROVE  RInv'
<1>1. /\ Good(allocated) /\ allocated.count \in Nat
      /\ allocated' = allocated /\ invalid_frees' = invalid_frees
      /\ pc \in {"leaks", "invalid"} /\ frames > 0
      /\ Fine(invalid_frees) /\ invalid_frees.count \in Nat
      /\ AddLine("frame", NULL, 0) /\ Goto(pc)
      /\ frames' = frames - 1 /\ i' = i /\ j' = j
  BY DEF IInv, Books, Good, IsTable, RInv, Fine, ReportFrame, books
<1>2. /\ HasRoom(report) /\ report.increment = allocated.count
      /\ frames \in 0 .. Frames
  BY <1>1 DEF RInv
<1>3. Frames \in Nat /\ frames \in Nat /\ frames' \in 0 .. Frames /\ report.count \in Nat
  BY <1>1, <1>2, AtIs DEF HasRoom
<1> DEFINE line == LineOf("frame", NULL, 0)
<1>4. CASE pc' = "overrun" /\ report.increment = 0
  BY <1>1, <1>2, <1>4 DEF RInv
<1>5. CASE pc' = pc /\ Longer(report, report', line)
  <2>1. HasRoom(report') /\ report'.count = report.count + 1 /\ report'.increment = report.increment
    BY <1>5 DEF Longer
  <2>2. CASE pc = "leaks"
    <3>1. /\ i \in Nat /\ j = Cardinality(Met(allocated, i)) /\ report.count = At(j) - frames
          /\ LeaksTold(allocated, report, Met(allocated, i))
      BY <2>2 DEF RInv, LeaksPart
    <3>2. LeaksTold(allocated, report', Met(allocated, i))
      BY <1>2, <1>5, <3>1, OtherLine
    <3>3. At(j) \in Nat
      <4>1. j \in Nat
        BY <1>1, <3>1, MetSome
      <4> QED BY <4>1, AtIs
    <3>4. report'.count = At(j') - frames'
      BY <1>1, <1>3, <2>1, <3>1, <3>3
    <3>5. LeaksPart'
      BY <1>1, <3>1, <3>2, <3>4 DEF LeaksPart
    <3> QED BY <1>1, <1>2, <1>3, <1>5, <2>1, <2>2, <3>5 DEF RInv
  <2>3. CASE pc = "invalid"
    <3>1. /\ i \in Nat /\ i <= invalid_frees.count
          /\ report.count = At(allocated.count + i) - frames
          /\ LeaksTold(allocated, report, Live(allocated)) /\ InvalidTold(i)
      BY <2>3 DEF RInv, InvalidPart
    <3>2. LeaksTold(allocated, report', Live(allocated))
      BY <1>2, <1>5, <3>1, OtherLine
    <3>3. At(allocated.count + i) \in Nat
      <4>1. allocated.count + i \in Nat
        BY <1>1, <3>1
      <4> QED BY <4>1, AtIs
    <3>4. report'.count = At(allocated.count + i) - frames'
      BY <1>1, <1>3, <2>1, <3>1, <3>3
    <3>5. \A m \in Nat : m < i =>
             report'.data[At(allocated.count + m)] = LineOf("invalid", invalid_frees'.data[m], 0)
      <4>1. report.count >= At(allocated.count + i) - frames
        BY <1>3, <3>1
      <4> QED BY <1>1, <1>2, <1>5, <3>1, <4>1, StillTold
    <3>6. InvalidTold(i)'
      BY <1>1, <3>5 DEF InvalidTold
    <3>7. InvalidPart'
      BY <1>1, <3>1, <3>2, <3>4, <3>6 DEF InvalidPart
    <3> QED BY <1>1, <1>2, <1>3, <1>5, <2>1, <2>3, <3>7 DEF RInv
  <2> QED BY <1>1, <2>2, <2>3
<1> QED BY <1>1, <1>2, <1>4, <1>5, LineWritten

LEMMA TotalsRInv ==
    ASSUME IInv, RInv, ReportAllocated \/ ReportFreed
    PROVE  RInv'
<1>1. /\ allocated.count \in Nat
      /\ allocated' = allocated /\ invalid_frees' = invalid_frees
      /\ total_allocated' = total_allocated /\ total_freed' = total_freed
      /\ frames' = frames
      /\ pc \in {"totals", "total_freed"}
      /\ Fine(invalid_frees) /\ invalid_frees.count \in Nat
  BY DEF IInv, Books, Good, IsTable, RInv, Fine, ReportAllocated, ReportFreed, books
<1>2. /\ HasRoom(report) /\ report.increment = allocated.count
      /\ frames = 0 /\ LeaksTold(allocated, report, Live(allocated))
      /\ InvalidTold(invalid_frees.count)
      /\ pc = "totals" => report.count = Body
      /\ pc = "total_freed" => /\ report.count = Body + 1
                               /\ report.data[Body] = LineOf("allocated", NULL, total_allocated)
  BY <1>1 DEF RInv, TotalsPart
<1>3. Frames \in Nat /\ 0 \in 0 .. Frames /\ Body \in Nat
  <2>1. allocated.count + invalid_frees.count \in Nat
    BY <1>1
  <2> QED BY <2>1, AtIs DEF Body
<1>4. Body' = Body
  BY <1>1 DEF Body
<1>5. report.count >= Body - 0
  BY <1>1, <1>2, <1>3
<1>6. ASSUME NEW kind, kind # "leak", NEW size, Longer(report, report', LineOf(kind, NULL, size))
      PROVE  /\ LeaksTold(allocated, report, Live(allocated))'
             /\ InvalidTold(invalid_frees.count)'
             /\ HasRoom(report') /\ report'.count = report.count + 1
             /\ report'.increment = report.increment
             /\ report'.data[report.count] = LineOf(kind, NULL, size)
             /\ Body < report.count => report'.data[Body] = report.data[Body]
  <2>1. LeaksTold(allocated, report', Live(allocated))
    BY <1>2, <1>6, OtherLine
  <2>2. \A m \in Nat : m < invalid_frees.count =>
           report'.data[At(allocated.count + m)] = LineOf("invalid", invalid_frees'.data[m], 0)
    BY <1>1, <1>2, <1>3, <1>5, <1>6, StillTold DEF Body
  <2>3. InvalidTold(invalid_frees.count)'
    BY <1>1, <2>2 DEF InvalidTold
  <2>4. Body < report.count => Body \in 0 .. report.count - 1
    BY <1>2, <1>3 DEF HasRoom
  <2> QED BY <1>1, <1>6, <2>1, <2>3, <2>4 DEF Longer
<1>7. CASE ReportAllocated
  <2>1. pc = "totals" /\ AddLine("allocated", NULL, total_allocated) /\ Goto("total_freed")
    BY <1>7 DEF ReportAllocated
  <2>2. CASE pc' = "overrun" /\ report.increment = 0
    BY <1>1, <1>2, <2>2 DEF RInv
  <2>3. CASE pc' = "total_freed" /\ Longer(report, report', LineOf("allocated", NULL, total_allocated))
    <3>1. /\ LeaksTold(allocated, report, Live(allocated))'
          /\ InvalidTold(invalid_frees.count)'
          /\ HasRoom(report') /\ report'.count = report.count + 1
          /\ report'.increment = report.increment
          /\ report'.data[report.count] = LineOf("allocated", NULL, total_allocated)
      BY <1>6, <2>3
    <3>2. TotalsPart'
      BY <1>1, <1>2, <1>4, <2>1, <2>3, <3>1 DEF TotalsPart
    <3> QED BY <1>1, <1>2, <1>3, <2>3, <3>1, <3>2 DEF RInv
  <2> QED BY <1>2, <2>1, <2>2, <2>3, LineWritten
<1>8. CASE ReportFreed
  <2>1. pc = "total_freed" /\ AddLine("freed", NULL, total_freed) /\ Goto("reported")
    BY <1>8 DEF ReportFreed
  <2>2. CASE pc' = "overrun" /\ report.increment = 0
    BY <1>1, <1>2, <2>2 DEF RInv
  <2>3. CASE pc' = "reported" /\ Longer(report, report', LineOf("freed", NULL, total_freed))
    <3>1. /\ LeaksTold(allocated, report, Live(allocated))'
          /\ InvalidTold(invalid_frees.count)'
          /\ HasRoom(report') /\ report'.count = report.count + 1
          /\ report'.increment = report.increment
          /\ report'.data[report.count] = LineOf("freed", NULL, total_freed)
          /\ Body < report.count => report'.data[Body] = report.data[Body]
      BY <1>6, <2>3
    <3>2. report'.data[Body] = report.data[Body] /\ report'.count = Body + 2
      BY <1>2, <1>3, <2>1, <3>1
    <3>3. TotalsPart'
      BY <1>1, <1>2, <1>4, <2>1, <2>3, <3>1, <3>2 DEF TotalsPart
    <3> QED BY <1>1, <1>2, <1>3, <2>3, <3>1, <3>3 DEF RInv
  <2> QED BY <1>2, <2>1, <2>2, <2>3, LineWritten
<1> QED BY <1>7, <1>8

LEMMA InitRInv == Init => RInv
<1> SUFFICES ASSUME Init PROVE RInv
  OBVIOUS
<1>1. Fine(invalid_frees) /\ pc = "ready"
  BY MemoryDebugAssumption DEF Init, Fine, Invalid!EmptyArray
<1> QED BY <1>1 DEF RInv

LEMMA NextRInv == IInv /\ RInv /\ [Next]_vars => RInv'
<1> SUFFICES ASSUME IInv, RInv, [Next]_vars PROVE RInv'
  OBVIOUS
<1>1. CASE UNCHANGED vars
  BY <1>1 DEF vars, RInv, LeaksPart, InvalidPart, TotalsPart, InvalidTold, Body
<1>2. CASE ReportStep
  BY <1>2, LeaksRInv, InvalidRInv, FrameRInv, TotalsRInv DEF ReportStep
<1> QED BY <1>1, <1>2, BooksKeepRInv, BeginRInv DEF Next

\* A report that has been made tells of each block that is out, of each invalid free in its order, and
\* of the totals, and of nothing else; on the way the iteration stays inside of the table, and
\* only the report of no block is written past its array.
THEOREM ReportsAreTrue == Spec => []ReportIsTrue
<1>1. IInv /\ RInv => ReportIsTrue
  <2> SUFFICES ASSUME IInv, RInv PROVE ReportIsTrue
    OBVIOUS
  <2>1. /\ Good(allocated) /\ allocated.count \in Nat /\ allocated.capacity \in Nat
        /\ Fine(invalid_frees) /\ invalid_frees.count \in Nat
    BY DEF IInv, Books, Good, IsTable, RInv, Fine
  <2>2. pc = "overrun" => allocated.count = 0
    BY DEF RInv
  <2>3. ASSUME pc = "leaks", j < allocated.count PROVE i < allocated.capacity
    <3>1. i \in Nat /\ j = Cardinality(Met(allocated, i))
      BY <2>3 DEF RInv, LeaksPart
    <3>2. i >= allocated.capacity => Met(allocated, i) = Live(allocated)
      BY <2>1, <3>1, MetSome
    <3>3. Cardinality(Live(allocated)) = allocated.count
      BY <2>1 DEF Good, Counted
    <3>4. ~(i >= allocated.capacity)
      BY <2>1, <2>3, <3>1, <3>2, <3>3
    <3> QED BY <2>1, <3>1, <3>4
  <2> DEFINE text == Lines!ContentsOf(report)
             each == 1 + Frames
             LeakOf(s) == LineOf("leak", allocated.elements[s].key, allocated.elements[s].value)
  <2>4. ASSUME pc = "reported"
        PROVE  /\ Len(text) = each * (allocated.count + invalid_frees.count) + 2
               /\ \A s \in Live(allocated) :
                     Cardinality({n \in DOMAIN text : text[n] = LeakOf(s)})
                       = Cardinality({r \in Live(allocated) : LeakOf(r) = LeakOf(s)})
               /\ \A n \in 0 .. invalid_frees.count - 1 :
                     text[each * (allocated.count + n) + 1] = LineOf("invalid", invalid_frees.data[n], 0)
               /\ text[Len(text) - 1] = LineOf("allocated", NULL, total_allocated)
               /\ text[Len(text)] = LineOf("freed", NULL, total_freed)
    <3>1. /\ HasRoom(report) /\ LeaksTold(allocated, report, Live(allocated))
          /\ InvalidTold(invalid_frees.count)
          /\ report.data[Body] = LineOf("allocated", NULL, total_allocated)
          /\ report.count = Body + 2
          /\ report.data[Body + 1] = LineOf("freed", NULL, total_freed)
      BY <2>4 DEF RInv, TotalsPart
    <3>2. /\ Len(text) = report.count
          /\ DOMAIN text = 1 .. report.count
          /\ \A n \in 1 .. report.count : text[n] = report.data[n - 1]
      BY <3>1, TextOfLines
    <3>3. Body \in Nat /\ Body = each * (allocated.count + invalid_frees.count)
      <4>1. allocated.count + invalid_frees.count \in Nat
        BY <2>1
      <4> QED BY <4>1, AtIs DEF Body, At
    <3> HIDE DEF text
    <3>4. ASSUME NEW s \in Live(allocated)
          PROVE  Cardinality({n \in DOMAIN text : text[n] = LeakOf(s)})
                   = Cardinality({r \in Live(allocated) : LeakOf(r) = LeakOf(s)})
      <4>1. {n \in DOMAIN text : text[n] = LeakOf(s)} = Marks(report, Leak(allocated, s))
        BY <3>2 DEF Marks, Leak
      <4>2. {r \in Live(allocated) : LeakOf(r) = LeakOf(s)} = Alike(allocated, Live(allocated), s)
        BY DEF Alike, Leak
      <4> QED BY <3>1, <4>1, <4>2 DEF LeaksTold
    <3>5. ASSUME NEW n \in 0 .. invalid_frees.count - 1
          PROVE  text[each * (allocated.count + n) + 1] = LineOf("invalid", invalid_frees.data[n], 0)
      <4>1. n \in Nat /\ n < invalid_frees.count
        BY <2>1
      <4>2. report.data[At(allocated.count + n)] = LineOf("invalid", invalid_frees.data[n], 0)
        BY <3>1, <4>1 DEF InvalidTold
      <4>3. /\ allocated.count + n \in Nat /\ allocated.count + invalid_frees.count \in Nat
            /\ allocated.count + n < allocated.count + invalid_frees.count
        BY <2>1, <4>1
      <4>4. /\ At(allocated.count + n) \in Nat /\ Frames \in Nat
            /\ At(allocated.count + n) + 1 + Frames <= Body
        BY <4>3, AtIs DEF Body
      <4> DEFINE p == At(allocated.count + n)
      <4>5. p = each * (allocated.count + n)
        BY DEF At
      <4>6. p \in Nat /\ p + 1 + Frames <= Body /\ report.data[p] = LineOf("invalid", invalid_frees.data[n], 0)
        BY <4>2, <4>4
      <4> HIDE DEF p
      <4>7. p + 1 \in 1 .. report.count /\ (p + 1) - 1 = p
        BY <3>1, <3>3, <4>4, <4>6
      <4>8. text[p + 1] = report.data[p]
        BY <3>2, <4>7
      <4> QED BY <4>5, <4>6, <4>8
    <3>6. text[Body + 1] = report.data[Body] /\ text[Body + 2] = report.data[Body + 1]
      <4>1. /\ Body + 1 \in 1 .. report.count /\ (Body + 1) - 1 = Body
            /\ Body + 2 \in 1 .. report.count /\ (Body + 2) - 1 = Body + 1
        BY <3>1, <3>3
      <4> QED BY <3>2, <4>1
    <3>7. Len(text) = Body + 2 /\ Len(text) - 1 = Body + 1
      BY <3>1, <3>2, <3>3
    <3> QED BY <3>1, <3>3, <3>4, <3>5, <3>6, <3>7
  <2> QED BY <2>2, <2>3, <2>4 DEF ReportIsTrue
<1>2. Init => RInv
  BY InitRInv
<1>3. IInv /\ RInv /\ [Next]_vars => RInv'
  BY NextRInv
<1> QED BY <1>1, <1>2, <1>3, Invariance, PTL DEF Spec
====
