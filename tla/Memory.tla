---- MODULE Memory ----
(***************************************************************************)
(* memory.c: a caller and one memory that blocks are taken from: a         *)
(* Cut_Buffer_Arena, a Cut_Circular_Mem or a Cut_Arena.  Memory is         *)
(* counted in bytes, addresses are numbers.  What the caller does with a   *)
(* block is left out: the memories never look at it.                       *)
(***************************************************************************)
EXTENDS Integers

CONSTANTS
    Memories,       \* the memories the caller may have set up (see IsMemory)
    Page,           \* size of a page of the system
    Requests,       \* sizes the caller asks for
    MaxRequest,     \* the largest of them
    MaxGiven,       \* bound: bytes asked for between two resets
    MaxSpent        \* bound: the same, with what alignments may add

PowersOfTwo(n) == {2^k : k \in 0 .. n}

\* alignment and commit_size are those of a Cut_Arena; the other memories have neither.  system
\* is the system the program is built for.
IsMemory(m) ==
    /\ m \in [kind : {"buffer", "circular", "arena"}, system : {"linux", "windows"}, start : Nat,
              size : Nat, alignment : Nat \ {0}, commit_size : Nat \ {0}]
    /\ m.alignment \in PowersOfTwo(m.alignment)
    /\ m.commit_size \in PowersOfTwo(m.commit_size)

ASSUME MemoryAssumption ==
    /\ \A m \in Memories : IsMemory(m)
    /\ Page \in Nat \ {0}
    /\ Requests \subseteq 0 .. MaxRequest
    /\ MaxRequest \in Nat
    /\ MaxGiven \in Nat
    /\ MaxSpent \in Nat

VARIABLES
    mem,            \* the memory that was set up; nothing changes it
    current,        \* where the next block begins: current, or buffer + allocated
    uncommitted,    \* uncommitted_start of an arena
    committed,      \* the system lets the caller use the bytes up to this address
    caller,         \* what the caller can do
    blocks,         \* the blocks given since the last reset
    given,          \* history: bytes given since the last reset
    spent           \* history: the same, with the most an alignment can add to each

memoryVars == <<mem, current, uncommitted, committed, caller, blocks, given, spent>>

----------------------------------------------------------------------------
\* Fault: rounds down.
AlignDown(v, a) == (v \div a) * a

\* cut_align_nb.  For a power of two, as the comment on Cut_Arena asks for, the mask is this.
AlignNb(v, a) == ((v + (a - 1)) \div a) * a

End == mem.start + mem.size

\* The range that VirtualAlloc reserves and that mmap maps consists of whole pages.
Mapped == mem.start + AlignNb(mem.size, Page)

InitMemory ==
    /\ mem \in Memories
    /\ current = mem.start
    /\ uncommitted = mem.start
    /\ committed = IF mem.kind = "arena" THEN mem.start ELSE End
    /\ caller = IF mem.kind = "arena" THEN "new" ELSE "ready"
    /\ blocks = {}
    /\ given = 0
    /\ spent = 0

\* cut_arena_init.  mmap answers a failure with MAP_FAILED, which is not 0: the caller is
\* told that the arena is ready, as it is on any system by cut_arena_create, which does not look
\* at the answer.  Of a caller that goes on without a memory, in "unmapped", no more is said.
ArenaInit ==
    /\ caller = "new"
    /\ \/ /\ caller' = "ready"
          /\ committed' = IF mem.system = "linux" THEN Mapped ELSE mem.start
       \/ /\ caller' \in IF mem.system = "linux" THEN {"unmapped"} ELSE {"failed", "unmapped"}
          /\ UNCHANGED committed
    /\ UNCHANGED <<mem, current, uncommitted, blocks, given, spent>>

\* The block [start, start + size) is the caller's.
Give(start, size) ==
    /\ given + size <= MaxGiven
    /\ spent + size + mem.alignment - 1 <= MaxSpent
    /\ given' = given + size
    /\ spent' = spent + size + mem.alignment - 1
    /\ blocks' = blocks \cup {[start |-> start, size |-> size, upto |-> given + size]}
    /\ current' = start + size
    /\ UNCHANGED mem

\* The assertions of these two are no guards: when one fails the call goes on, whether or not it is
\* compiled in.
BufferAllocate(size) ==
    /\ caller = "ready"
    /\ mem.kind = "buffer"
    /\ Give(current, size)
    /\ UNCHANGED <<uncommitted, committed, caller>>

\* Fault: goes back to the start only when nothing is left.
NextInTurnLate(size) == IF current >= End THEN mem.start ELSE current

\* Fault: a block that would end exactly at the end does not fit.
NextInTurnEarly(size) == IF current + size >= End THEN mem.start ELSE current

NextInTurn(size) == IF current + size > End THEN mem.start ELSE current

CircularAllocate(size) ==
    /\ caller = "ready"
    /\ mem.kind = "circular"
    /\ Give(NextInTurn(size), size)
    /\ UNCHANGED <<uncommitted, committed, caller>>

\* Fault: always one commit_size.
OneCommit(missing) == mem.commit_size

SizeToCommit(missing) ==
    IF missing > mem.commit_size THEN AlignNb(missing, mem.commit_size) ELSE mem.commit_size

\* On Linux all pages are the caller's from the start, and uncommitted_start is only a number.
\* On Windows VirtualAlloc makes the pages usable, or fails when the range is not all reserved;
\* it answers the address it was given, which is the start of a page, so that
\* uncommitted_start stays where it is.  After a failure it is 0, and the caller has a block
\* it cannot use: caller = "lost".
Commit(from, length) ==
    IF mem.system = "linux"
    THEN uncommitted' = from + length /\ UNCHANGED <<committed, caller>>
    ELSE \/ /\ from + length <= Mapped
            /\ uncommitted' = from
            /\ committed' = IF from + length > committed THEN from + length ELSE committed
            /\ UNCHANGED caller
         \/ /\ from + length > Mapped
            /\ uncommitted' = 0
            /\ caller' = "lost"
            /\ UNCHANGED committed

ArenaAllocate(size) ==
    /\ caller = "ready"
    /\ mem.kind = "arena"
    /\ LET result == AlignNb(current, mem.alignment)
           end    == result + size
       IN  /\ Give(result, size)
           /\ IF end > uncommitted
              THEN Commit(uncommitted, SizeToCommit(end - uncommitted))
              ELSE UNCHANGED <<uncommitted, committed, caller>>

\* Every block is taken back.
TakeBack == blocks' = {} /\ given' = 0 /\ spent' = 0 /\ current' = mem.start

\* cut_buffer_arena_reset and cut_circular_mem_reset.
Reset ==
    /\ caller = "ready"
    /\ mem.kind # "arena"
    /\ TakeBack
    /\ UNCHANGED <<mem, uncommitted, committed, caller>>

\* cut_arena_reset.  On Windows the pages are given back; on Linux madvise empties them.
ArenaReset ==
    /\ caller = "ready"
    /\ mem.kind = "arena"
    /\ TakeBack
    /\ uncommitted' = mem.start
    /\ committed' = IF mem.system = "linux" THEN committed ELSE mem.start
    /\ UNCHANGED <<mem, caller>>

\* cut_arena_destroy.
ArenaDestroy ==
    /\ caller = "ready"
    /\ mem.kind = "arena"
    /\ caller' = "destroyed"
    /\ blocks' = {}
    /\ UNCHANGED <<mem, current, uncommitted, committed, given, spent>>

MemoryNext ==
    \/ ArenaInit
    \/ \E size \in Requests :
          \/ BufferAllocate(size)
          \/ CircularAllocate(size)
          \/ ArenaAllocate(size)
    \/ Reset
    \/ ArenaReset
    \/ ArenaDestroy

MemorySpec == InitMemory /\ [][MemoryNext]_memoryVars

----------------------------------------------------------------------------
\* Properties.

Block == [start : Nat, size : Nat, upto : Nat]

\* The variables have their types and the memory only goes forward from its start.
TypeOK ==
    /\ IsMemory(mem)
    /\ current \in Nat /\ mem.start <= current
    /\ uncommitted \in Nat
    /\ committed \in Nat
    /\ caller \in {"new", "ready", "failed", "unmapped", "lost", "destroyed"}
    /\ blocks \subseteq Block
    /\ given \in Nat
    /\ spent \in Nat

Overlap(b, c) ==
    /\ b.size > 0 /\ c.size > 0
    /\ b.start < c.start + c.size
    /\ c.start < b.start + b.size

\* Blocks of a buffer and of an arena share no byte until the memory is reset, and the blocks
\* of an arena begin where its alignment says.
BlocksDisjoint ==
    mem.kind # "circular" =>
        \A b \in blocks :
            /\ mem.kind = "arena" => b.start % mem.alignment = 0
            /\ \A c \in blocks : b # c => ~Overlap(b, c)

\* What the caller has to see to, since nothing in the allocators does: that a block of a circular
\* memory is no larger than the memory, and that what was asked for since the last reset is not
\* more than the memory has, for an arena with the most that each alignment can cost.
AskedWell(b) ==
    CASE mem.kind = "buffer"   -> b.upto <= mem.size
      [] mem.kind = "circular" -> b.size <= mem.size
      [] mem.kind = "arena"    -> spent <= mem.size

\* A block that the caller has asked well for is inside the memory, whatever went before.
BlocksInside ==
    \A b \in blocks :
        /\ mem.start <= b.start
        /\ AskedWell(b) => b.start + b.size <= End

\* The caller of an arena who keeps to what it has reserved can use all its blocks, whatever the
\* sizes of the requests and of commit_size: on Windows, if what is reserved is a number of
\* commit_sizes.
CommittedCoversBlocks ==
    (mem.kind = "arena" /\ spent <= mem.size
       /\ (mem.system = "windows" => mem.size % mem.commit_size = 0)) =>
        /\ caller # "lost"
        /\ \A b \in blocks : b.start + b.size <= committed

\* A block of circular memory stays intact for a turn: a later block overlaps with it only when
\* the two and those between them have, with what a turn may leave unused at the end, more
\* bytes than the memory.
IntactForATurn ==
    mem.kind = "circular" =>
        \A b, c \in blocks :
            (b.upto < c.upto /\ Overlap(b, c)) =>
                b.size + (c.upto - b.upto) + (MaxRequest - 1) > mem.size
====
