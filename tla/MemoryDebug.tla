---- MODULE MemoryDebug ----
(***************************************************************************)
(* memory_debug.c: a caller of the debugging allocator, and the allocator  *)
(* under it.  The debugger keeps the blocks that are out in a hash table   *)
(* (HashTableData) keyed by their address, and the invalid frees and the   *)
(* report in dynamic arrays (DynArrayData).                                *)
(***************************************************************************)
EXTENDS HashTableData, Sequences, FiniteSetsExt

\* Key is the set of addresses, Value the set of sizes.
CONSTANTS
    NULL,               \* the address that tells that an allocation failed
    TableCapacity,      \* slots of the table of allocations (256)
    InvalidIncrement,   \* capacity and increment of invalid_frees (256)
    Frames,             \* lines of a stack trace in the report
    MaxTotal,           \* bound: bytes asked for
    MaxInvalid          \* bound: invalid frees

ASSUME MemoryDebugAssumption ==
    /\ NULL \in Key
    /\ Value \subseteq Nat
    /\ TableCapacity \in Nat \ {0}
    /\ InvalidIncrement \in Nat \ {0}
    /\ Frames \in Nat
    /\ MaxTotal \in Nat
    /\ MaxInvalid \in Nat

VARIABLES
    heap,               \* the allocator under the debugger: size of each live block
    allocated,          \* the table of allocations
    invalid_frees,      \* the array of invalid frees
    total_allocated,
    total_freed,
    report,             \* the lines of the report being made
    i,                  \* index of the iterations of report_generate
    j,                  \* allocations the iteration has met (cut_j)
    frames,             \* lines of the stack trace still to be written
    pc                  \* where the caller is

vars == <<heap, allocated, invalid_frees, total_allocated, total_freed, report, i, j, frames, pc>>

books == <<heap, allocated, invalid_frees, total_allocated, total_freed>>

Line == [kind : {"leak", "invalid", "frame", "allocated", "freed"},
         address : Key, size : Nat]

Invalid == INSTANCE DynArrayData WITH Elem <- Key, Unwritten <- Garbage
Lines   == INSTANCE DynArrayData WITH Elem <- Line, Unwritten <- Garbage

\* cut_mem_allocator_debugger_create.
Init ==
    /\ heap = << >>
    /\ allocated = EmptyTable(TableCapacity)
    /\ invalid_frees = Invalid!EmptyArray(InvalidIncrement, InvalidIncrement)
    /\ total_allocated = 0
    /\ total_freed = 0
    /\ report = Lines!EmptyArray(0, 0)
    /\ i = 0
    /\ j = 0
    /\ frames = 0
    /\ pc = "ready"

----------------------------------------------------------------------------
\* The allocator under the debugger: it gives an address that no live block has, or fails.
HeapAllocate(a, size) ==
    \/ a = NULL /\ heap' = heap
    \/ /\ a \notin DOMAIN heap \cup {NULL}
       /\ heap' = [b \in DOMAIN heap \cup {a} |-> IF b = a THEN size ELSE heap[b]]

\* Taking back a block that is not live destroys it.
HeapFree(a) ==
    /\ heap' = [b \in DOMAIN heap \ {a} |-> heap[b]]
    /\ pc' = IF a \in DOMAIN heap \cup {NULL} THEN pc ELSE "corrupt"

\* Fault: the bytes of a failed allocation are not counted, although it is entered.
AllocateCountingGiven(a, size) ==
    /\ pc = "ready"
    /\ total_allocated + size <= MaxTotal
    /\ HeapAllocate(a, size)
    /\ total_allocated' = IF a = NULL THEN total_allocated ELSE total_allocated + size
    /\ IF Landing(allocated, a, AddStops(allocated)) = {}
       THEN pc' = "allocate_loops" /\ UNCHANGED allocated
       ELSE /\ \E s \in Landing(allocated, a, AddStops(allocated)) :
                  allocated' = Store(allocated, s, a, size)
            /\ pc' = pc
    /\ UNCHANGED <<invalid_frees, total_freed, report, i, j, frames>>

\* cut_mem_allocator_debugger_allocate.  The result is not compared with null: a failure is
\* entered as a block at the null address.
Allocate(a, size) ==
    /\ pc = "ready"
    /\ total_allocated + size <= MaxTotal
    /\ HeapAllocate(a, size)
    /\ total_allocated' = total_allocated + size
    /\ IF Landing(allocated, a, AddStops(allocated)) = {}
       THEN pc' = "allocate_loops" /\ UNCHANGED allocated
       ELSE /\ \E s \in Landing(allocated, a, AddStops(allocated)) :
                  allocated' = Store(allocated, s, a, size)
            /\ pc' = pc
    /\ UNCHANGED <<invalid_frees, total_freed, report, i, j, frames>>

\* Fault: the block is given back to the heap although the table does not have it.
FreeUnknownAnyway(a) ==
    /\ invalid_frees.count < MaxInvalid
    /\ invalid_frees' = Invalid!Appended(Invalid!Grown(invalid_frees), <<a>>, 1)
    /\ HeapFree(a)
    /\ UNCHANGED <<allocated, total_freed>>

\* The address is not in the table: the caller's mistake is entered, nothing is freed.
FreeUnknown(a) ==
    /\ invalid_frees.count < MaxInvalid
    /\ invalid_frees' = Invalid!Appended(Invalid!Grown(invalid_frees), <<a>>, 1)
    /\ UNCHANGED <<heap, allocated, total_freed, pc>>

\* found is the slot get found.  The size is read from it after remove has been there.
FreeKnown(a, found) ==
    /\ \E s \in Landing(allocated, a, RemoveStops(allocated, a)) :
          allocated' = IF s \in Unoccupied(allocated) THEN allocated ELSE Erase(allocated, s)
    /\ total_freed' = total_freed + allocated'.elements[found].value
    /\ HeapFree(a)
    /\ UNCHANGED invalid_frees

\* cut_mem_allocator_debugger_free, of any address.
Free(a) ==
    /\ pc = "ready"
    /\ IF Landing(allocated, a, GetStops(allocated, a)) = {}
       THEN /\ pc' = "free_loops"
            /\ UNCHANGED <<heap, allocated, invalid_frees, total_freed>>
       ELSE \E s \in Landing(allocated, a, GetStops(allocated, a)) :
               IF s \in Unoccupied(allocated) THEN FreeUnknown(a) ELSE FreeKnown(a, s)
    /\ UNCHANGED <<total_allocated, report, i, j, frames>>

----------------------------------------------------------------------------
\* cut_mem_allocator_debugger_report_generate.  Its array begins without a block and grows
\* by the number of allocations that are out.
ReportBegin ==
    /\ pc = "ready"
    /\ report' = Lines!EmptyArray(0, allocated.count)
    /\ i' = 0
    /\ j' = 0
    /\ frames' = 0
    /\ pc' = "leaks"
    /\ UNCHANGED books

\* cut_dyn_array_add_back of one line.
AddLine(kind, a, size) ==
    LET grown == Lines!Grown(report) IN
    IF grown.count < grown.capacity
    THEN report' = Lines!Appended(grown, <<[kind |-> kind, address |-> a, size |-> size]>>, 1)
    ELSE report' = grown

\* The line does not fit: it is written past the block.
Overruns == LET grown == Lines!Grown(report) IN grown.count >= grown.capacity

Goto(place) == pc' = IF Overruns THEN "overrun" ELSE place

\* The iteration over the table.
ReportSkip ==
    /\ pc = "leaks" /\ frames = 0
    /\ j < allocated.count
    /\ i \notin Live(allocated)
    /\ i' = i + 1
    /\ UNCHANGED <<books, report, j, frames, pc>>

ReportLeak ==
    /\ pc = "leaks" /\ frames = 0
    /\ j < allocated.count
    /\ i \in Live(allocated)
    /\ AddLine("leak", allocated.elements[i].key, allocated.elements[i].value)
    /\ Goto("leaks")
    /\ i' = i + 1
    /\ j' = j + 1
    /\ frames' = Frames
    /\ UNCHANGED books

\* Fault: the count of the table ends both iterations.
ReportLeaksEndBoth ==
    /\ pc = "leaks" /\ frames = 0
    /\ j >= allocated.count
    /\ pc' = "totals"
    /\ i' = 0
    /\ UNCHANGED <<books, report, j, frames>>

ReportLeaksEnd ==
    /\ pc = "leaks" /\ frames = 0
    /\ j >= allocated.count
    /\ pc' = "invalid"
    /\ i' = 0
    /\ UNCHANGED <<books, report, j, frames>>

\* The iteration over the invalid frees.
ReportInvalid ==
    /\ pc = "invalid" /\ frames = 0
    /\ i < invalid_frees.count
    /\ AddLine("invalid", invalid_frees.data[i], 0)
    /\ Goto("invalid")
    /\ i' = i + 1
    /\ frames' = Frames
    /\ UNCHANGED <<books, j>>

ReportInvalidEnd ==
    /\ pc = "invalid" /\ frames = 0
    /\ i >= invalid_frees.count
    /\ pc' = "totals"
    /\ UNCHANGED <<books, report, i, j, frames>>

\* cut_mem_allocator_debugger_report_generate_stacktrace.
ReportFrame ==
    /\ pc \in {"leaks", "invalid"}
    /\ frames > 0
    /\ AddLine("frame", NULL, 0)
    /\ Goto(pc)
    /\ frames' = frames - 1
    /\ UNCHANGED <<books, i, j>>

ReportAllocated ==
    /\ pc = "totals"
    /\ AddLine("allocated", NULL, total_allocated)
    /\ Goto("total_freed")
    /\ UNCHANGED <<books, i, j, frames>>

ReportFreed ==
    /\ pc = "total_freed"
    /\ AddLine("freed", NULL, total_freed)
    /\ Goto("reported")
    /\ UNCHANGED <<books, i, j, frames>>

\* The caller has read the report: cut_mem_allocator_debugger_report_destroy.
ReportDestroy ==
    /\ pc = "reported"
    /\ report' = Lines!EmptyArray(0, 0)
    /\ i' = 0
    /\ j' = 0
    /\ pc' = "ready"
    /\ UNCHANGED <<books, frames>>

ReportStep ==
    \/ ReportSkip
    \/ ReportLeak
    \/ ReportLeaksEnd
    \/ ReportInvalid
    \/ ReportInvalidEnd
    \/ ReportFrame
    \/ ReportAllocated
    \/ ReportFreed

Next ==
    \/ \E a \in Key, size \in Value : Allocate(a, size)
    \/ \E a \in Key : Free(a)
    \/ ReportBegin
    \/ ReportStep
    \/ ReportDestroy

Spec == Init /\ [][Next]_vars

----------------------------------------------------------------------------
\* Properties.

\* The table has the blocks that are live in the allocator under the debugger, each once and
\* with its size, whatever was freed, freed twice or given again at the same address: so
\* that allocator is only ever given a live block to free.
RecordsMatchHeap ==
    /\ pc # "corrupt"
    /\ pc # "allocate_loops" =>
        LET known == {s \in Live(allocated) : allocated.elements[s].key # NULL} IN
        /\ DOMAIN heap = {allocated.elements[s].key : s \in known}
        /\ \A s \in known :
              /\ heap[allocated.elements[s].key] = allocated.elements[s].value
              /\ \A r \in known \ {s} : allocated.elements[r].key # allocated.elements[s].key

\* The bytes asked for are those taken back and those that are out: the size that free adds is
\* still the one of the block although its slot has been given up by then.
TotalsBalance ==
    pc # "allocate_loops" =>
        total_allocated =
            total_freed + MapThenSumSet(LAMBDA s : allocated.elements[s].value, Live(allocated))

\* The debugger only fails to return when TableCapacity blocks are out already, or, to a free
\* of an address it does not know, when it has used every slot of its table.
LoopsOnlyWhenUsedUp ==
    /\ pc = "allocate_loops" => Cardinality(Live(allocated)) = TableCapacity
    /\ pc = "free_loops" => Unoccupied(allocated) = {}

LineOf(kind, a, size) == [kind |-> kind, address |-> a, size |-> size]

\* A report that has been made has, and in this order: for each block that is out its line and
\* the trace, for each invalid free its line and the trace, in the order they happened, and
\* the totals.  On the way the iteration looks at no slot behind the last.  The report fails to
\* be made only when no block is out.
ReportIsTrue ==
    LET text   == Lines!ContentsOf(report)
        each   == 1 + Frames
        LeakOf(s) == LineOf("leak", allocated.elements[s].key, allocated.elements[s].value)
    IN
    /\ pc = "overrun" => allocated.count = 0
    /\ pc = "leaks" /\ frames = 0 /\ j < allocated.count => i < allocated.capacity
    /\ pc = "reported" =>
        /\ Len(text) = each * (allocated.count + invalid_frees.count) + 2
        /\ \A s \in Live(allocated) :
              Cardinality({n \in DOMAIN text : text[n] = LeakOf(s)})
                = Cardinality({r \in Live(allocated) : LeakOf(r) = LeakOf(s)})
        /\ \A n \in 0 .. invalid_frees.count - 1 :
              text[each * (allocated.count + n) + 1] = LineOf("invalid", invalid_frees.data[n], 0)
        /\ text[Len(text) - 1] = LineOf("allocated", NULL, total_allocated)
        /\ text[Len(text)] = LineOf("freed", NULL, total_freed)

\* The blocks in the table, as a bag.
Out ==
    LET PairOf(s) == <<allocated.elements[s].key, allocated.elements[s].value>>
    IN  [p \in {PairOf(s) : s \in Live(allocated)} |->
            Cardinality({s \in Live(allocated) : PairOf(s) = p})]

Promised == INSTANCE Ledger WITH
    Address   <- Key,
    Size      <- Value,
    Capacity  <- TableCapacity,
    out       <- Out,
    invalid   <- Invalid!ContentsOf(invalid_frees),
    allocated <- total_allocated,
    freed     <- total_freed

\* Every call does to the table, the invalid frees and the totals what it should do to a ledger.
ImplementsLedger == Promised!Spec
====
