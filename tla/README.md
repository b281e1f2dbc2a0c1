# A verification model of cutile

cutile is a library of C modules, one file each, used by including the file. Nothing in it starts
a thread; its state is what callers keep in structures (a table, an array, an arena, a socket) and
hand to its procedures. What is hard in it is therefore not concurrency but *history*: which
sequences of legal calls lead to a state where a later call loops for ever, writes outside a block,
answers something that is not true, or loses an element. That is what the modules here explore
with TLC on small instances, and what the proofs settle for every size where they can.

Line numbers refer to the files of the repository (`src/`).

## 1. Inventory

### Modelled

**Hash table** (`hash_table.c`). *State*: `Cut_Hash_Table`: an array of elements (hash, key bytes,
value bytes), `count`, `capacity`, a hash procedure, a comparison and an allocator. *Operations*:
init, deinit, add, add_empty, add_resize_factor, remove, get, get_kv, resize, fill_factor and the
macro `cut_hash_table_for`. All but the last three go through one loop, `cut_hash_table_travel`
(lines 253-273), that walks from slot to slot with a growing step. *Interacts* with the allocator;
the debugging allocator keeps its blocks in one. *Hard*: removal marks a slot and never frees it,
so the set of unoccupied slots only shrinks until a resize; whether a walk ends depends on the
capacity and on the whole history; resize copies with add while it looks at the old slots;
the iteration trusts `count`, which its body may change. *Correct when*: every live element is
found from its key; answers are true of the table; count is the number of live slots; a resize
keeps the elements; an iteration meets each element and stays inside; walks end when they should.

**Dynamic array** (`dyn_array.c`). *State*: `data`, `count`, `capacity`, `increment`.
*Operations*: init, deinit, resize, at, back, add_back, add_back_empty, add_back_many,
remove_back, remove_at, set_all, clear, the macro `cut_dyn_array_for`. *Interacts* with the
allocator; used by the debugging allocator. *Hard*: two different rules for
growing (line 79 and line 96), an increment that may be 0, `memcpy` between overlapping ranges
(line 159), a loop body that changes the array. *Correct when*: elements stay inside the block and
are those of a list that the same calls were made on, with the same arguments.

**Memory** (`memory.c`). *State*: a buffer arena (`allocated`), circular memory (`current`), an
arena over reserved pages (`start`, `current`, `uncommitted_start`), and a table of procedures,
`Cut_Mem_Allocator`, that dispatches. *Operations*: allocate, reset, init, destroy, clone.
*Interacts* with the system (`mmap`, `VirtualAlloc`). *Hard*: alignment and commit sizes that round
up independently, two systems with different rules for what is usable, circular memory giving
bytes again after a turn. *Correct when*: blocks do not overlap until a reset, are inside what
was reserved and in what may be used; circular blocks last for a turn.

**Debugging allocator** (`memory_debug.c`). *State*: a hash table of the blocks that are out, an
array of invalid frees, two totals. *Operations*: create, allocate, free, report_generate,
report_destroy, destroy. *Interacts*: it is an allocator in front of another allocator, and is
made of the hash table, the dynamic array, stack traces and printing. *Hard*: it inherits every
property of a table that never grows and in which addresses come and go; failed allocations;
double frees, frees of addresses that have been given again; the report's array grows by the number of
leaks. *Correct when*: its books agree with the allocator under it, the totals balance, the report
says everything once.

**Files** (`file.c`). *State*: a handle, and with the system the position of that handle and the
bytes of the file. *Operations*: open, close, set and get the position, size, read, read an entire
file, write, and the last four by name. *Interacts* with the system, whose calls may do less than
they were asked; with the allocator, for what is read; with any other process that has the file.
*Hard*: loops over short reads and writes, a failure after a part of the work, positions that have to be put
back, the end of the file (295: the loop asks again without end), a size that is asked for before the
bytes are read (322), no `O_CREAT` on Linux (114-157). *Correct when*: what is read are the bytes of
the file, a write that fails has put a first part of the data and nothing else, looking at a file
does not move its position, files and blocks are given back on every way out.

**Network sockets** (`network.c`). *State*: a socket, which is the system's number; what the system keeps for
it. *Operations*: open, close, blocking mode, bind, connect, listen, accept, send, receive.
*Hard*: accept stores a socket it may then close (330); a partial send is reported as a failure
(372). **TCP example** (`how_to/network_tcp_server.c`, `how_to/network_tcp_client.c`). *State*: the
server's line buffer and what it has received, the client's input; they are the only two programs
here that run at the same time. *Hard*: a stream that arrives in arbitrary pieces is cut into lines (51-74), with an
end of two bytes that may be torn apart; each program has its own way of recognising the
request to stop; every failure has its own exit. *Correct when*: the lines printed are those that were
sent, both programs agree on why they stop, all sockets are closed, the server stops when its client has.

**INI parser** (`ini.c`). *State*: the position in the text, the result (a global section, an array of
sections, an error), and for each section an array of fields; names, values and contents are positions in
the text, which stays the caller's. *Operations*: parse, destroy, three lookups in the result, two in the
text itself. *Interacts* with the allocator. *Hard*: the parser of a section calls itself for the next
section, so that sections end, and enter the array, in reverse (311, 340); it stops at the first error, with all
those calls open (294); both arrays double in the middle of the work (235, 331); positions are adjusted by
one (307); the searches in the text (473-531) read tokens without the parser's rules. *Correct when*: the
result says what the lines of the text say, up to the first broken one; contents are apart; a lookup answers what is
there; every block is given back, also after an error.

**Formatted printing** (`print.c`). *State*: a formatter (two procedures and a value), the format, the block of
sprint or the buffer of print. *Operations*: sprint, print, the formatters of integers (decimal,
hexadecimal) and of strings (with a length, or up to a zero byte). *Interacts* with the allocator, and with
the console or the standard output of the system. *Hard*: sprint counts in one loop and writes in another, and trusts that both
procedures of a formatter agree; writing an integer divides the formatter's own value (278); the buffer of
print is flushed before the item that does not fit, and an item longer than it goes past its end (169); the
result of a flush is not looked at (164). *Correct when*: the text is what the format and the
parameters say, the block has exactly its length, what is handed over in pieces is the text, in order.

**UTF-8** (`utf8.c`). *State*: a position in a string. *Operations*: length of a character, code point,
length of a string, the macro `cut_utf8_str_for`. *Hard*: the first byte alone decides how many bytes are
read, in a string that may end before (110, 139). *Correct when*: a walk over a text meets its characters and no
byte outside of it.

### Not worth a model

**Strings** (`str.c`): three loops without state. **Base** (`base.c`): types, macros, assertions;
its alignment helper is modelled where it is used. **Stack traces** (`stacktrace.c`, with its
example): one array filled by the system's unwinder. **Preprocessor utilities** (`pp.c`): nothing is left
of them at run time. **Windows declarations** (`win32.c`): no code. **Tests** (`tests/`): read as
statements of what is expected, and quoted in the findings.

## 2. Modules

| Module | Models |
|---|---|
| `HashTableData` | the value of a table: slots, hashes, the probe sequence, where a walk stops, what store and erase do |
| `HashTable` | a caller's operations on one table; a walk is one step, the loops of resize and of the iteration go slot by slot |
| `HashTableWalk` | the same with the probe loop taken turn by turn |
| `Dictionary` | abstract: a bag of key-value pairs, and the removed pairs that are not forgotten |
| `HashTableDictionary` | the refinement mapping from `HashTable` to `Dictionary` (`HashTableWalk` uses it too) |
| `DynArrayData`, `DynArray` | the value of an array and its operations; a caller of one array |
| `List` | abstract: a sequence and an iteration over it |
| `Memory` | a caller of a buffer arena, circular memory or an arena on Linux or Windows |
| `MemoryDebug` | the debugging allocator, composed of the operators of `HashTableData` and of two instances of `DynArrayData`, in front of a heap |
| `Ledger` | abstract: the blocks that are out, the invalid frees, the totals |
| `File` | a caller with one file on Linux or Windows, each call of the system a step, beside another process |
| `Network` | the sockets of one TCP connection and the calls on them |
| `Chat` | the server and the client of the example, two programs composed over `Network` |
| `LineServer` | abstract: the lines sent, those of them printed, and why the server stops |
| `Ini` | a caller that parses a text, looks up, and destroys the result |
| `Printing` | a caller with formatters that sprints and prints, a turn of a loop a step |
| `Utf8` | lengths and code points, and the syntax and encoding of RFC 3629 that they are compared with |
| `Text` | composes both: walks over the characters of what sprint has made |
| `Data_proofs` | theorems about values: tables of `HashTableData`, the walk turn by turn, sums over finite sets |
| `HashTable_proofs`, `DynArray_proofs`, `Memory_proofs` (with the debugging allocator), `File_proofs`, `Chat_proofs`, `Ini_proofs`, `Text_proofs` (printing and UTF-8) | theorems about the components |
| `MC*` | instances for TLC |

Operators called *Fault* in a comment are not part of a model: each is a plausible mistake in the
definition that follows it, kept there to show which property would notice.

### Hash table

A table is a record `[elements, count, capacity]`. Slot hashes 0 and 1 mean unoccupied and
removed, as in the code (lines 20-22); `HashOf` moves a hash procedure's results 0 and 1 away. Keys are compared by
`keys_are_same_proc`: here, equality of `Key`. `Landing(t, k, stops)` is the slot where
the loop of `cut_hash_table_travel` ends, with `stops` the slots at which each of its four uses
leaves it; it is empty when the loop never ends. The n-th slot looked at is
`(hash + n(n+1)/2) % capacity`: the repository's README calls it linear probing, the
code adds a growing step. `HashTableWalk` keeps the loop's own `index` and `probe_inc` instead and
shows that the two agree: `Atomic!Spec` is a PROPERTY of it, with a variable `lost` that says from
the start of a walk whether the closed formula calls it endless. The assumption `ProbeIsTheLoop`
compares the formula with the recurrence up to capacity 16. `IsPowerOfTwo` says that no odd number but 1 divides,
which is the form the proof needs; `PowersOfTwoAreMeant` compares it with the exponents up to 64.

| Code | Action |
|---|---|
| `cut_hash_table_add`, `_add_empty` | `Add`, `AddEmpty` |
| `cut_hash_table_add_resize_factor` | `AddResizeFactor`, then either the add itself, or `ResizeCopy`, `ResizeEnd`, `AddAfterResize` |
| `cut_hash_table_remove` | `Remove` |
| `cut_hash_table_get`, `_get_kv` | `Get` |
| `cut_hash_table_resize` | `Resize`, one `ResizeCopy` a slot, `ResizeEnd` |
| `cut_hash_table_for` | `ForBegin`; `ForSkip`, `ForRead`, `ForRemove` a slot; `ForEnd` |
| `cut_hash_table_deinit`, `_init` | `Deinit`, `Reinit` |

`Spin` is a call that never returns; the state stays what it is. `Forget` lets the caller drop an
answer, so that properties about answers do not hold by their being overwritten.

Left out: the wrap of the 32-bit counters of a walk after 2^32 turns; capacities of 0 (every hash
is then taken modulo 0); a loop body that adds; pointers into the table that a caller keeps.
`FillFactor` truncates and includes what float arithmetic does to 53% and 59%. Adding a key twice
is allowed, as the code does not look.

### Dynamic array

`arr` is the structure, with its block as a function; bytes nothing has written are `Unwritten`.
Each procedure is an action of its name, and `cut_dyn_array_for` is taken element by element, with
bodies that read, remove the element they are given, or add one. `Put` is the growth followed by
the write: when the block is still too small the caller is in `pc = "overrun"`, from which no
action leads on, because the code has then written outside of its block and nothing can be said of
what follows. `RemovedAt` moves its elements with a `memcpy` between overlapping ranges, of which C does not say in
what order it copies: `CopiesOf` are all maps that say which element each place gets when any of
them may be copied before or after its neighbour, and the model takes any (an element is copied as a whole: a
`memcpy` that tears one into bytes of two neighbours is left out); with `InOrder` every
element has moved by one place. `call` is a history variable, the last call with its arguments and
what it has answered. `cut_dyn_array_init` leaves `count` alone: it is 0 in the record that the
macro makes, and a record that has been used is not given to init again. `AddBackOwn` is an add of an element of the array itself,
whose value is arbitrary once the block has been exchanged. Sizes are in elements (no wrap of 32-bit byte
counts), the allocator does not fail (the file demands that), assertions are compiled out (the one
on line 67 would fail on every add, because add calls `at` with the index that follows the last element).

`List` is a sequence on which the same calls are made: with `call` given, each of its actions says what the
sequence becomes. It leaves open four things, of which no line of the repository speaks: what an empty element is
before it is written, what becomes of an own element whose block does not stay, whether a body
that removes the element it is given is given the next one, and after a `remove_at` that has not copied
in order, which of the elements behind the removed one is in which of the places behind it.

### Memory

One memory of a record `mem` that is chosen in `Init`: its kind, system, start, size, alignment
and commit size. `current` is an address for all three kinds, where the code counts from
the start for two of them. `BufferAllocate`, `CircularAllocate`, `ArenaAllocate`, `Reset`,
`ArenaReset`, `ArenaInit`, `ArenaDestroy` are the procedures. `committed` is what the
system lets the caller use: on Linux all that was mapped, on Windows what `VirtualAlloc` has
committed, which can fail when the range exceeds the reserved one (`caller = "lost"`: the code returns the
block anyway). A failed `mmap` is answered with success (`MAP_FAILED` is not 0), and
`cut_arena_create` does not look at the answer of init (124), so on any system a caller may go on without a memory
(`caller = "unmapped"`). The assertions of a buffer (175) and of circular memory (186) are no guards of
their actions: a call that fails one goes on, whether or not it is compiled in. `AskedWell` says what a caller has to
see to instead, and `BlocksInside` speaks of the blocks that were asked for well.
`given` and `spent` are history variables of the model: bytes asked for since the last reset,
without and with the most an alignment may add; they are capped by `MaxGiven` and `MaxSpent`. Alignments and commit
sizes are powers of two: the comment on `Cut_Arena` asks for that of the alignment, and
`cut_align_nb` is only an alignment for such numbers, so the same is assumed of the commit size. Left out:
contents (and with them `cut_mem_clone`'s copy), `cut_mem_allocator`'s table of procedures, which only dispatches, and wraps of
addresses. Blocks of size 0 share their address with the next block and overlap with nothing.

### Debugging allocator

`heap` is the allocator underneath: any that gives an address no live block has, or null.
`Allocate` and `Free` are the two procedures of the debugging one; each is a step, including the
calls to the table, the array and the heap that they make. A null result is entered in the table like
a block, as in the code. `Free` reads the size from the slot after `remove` has been there, as lines
101-103 do. The report is made line by line (`ReportBegin` to `ReportFreed`), because its lines go
into an array that starts with no block and grows by the number of blocks out. A line has a kind,
an address and a size; its text is left out, and every stack trace has `Frames` lines. `pc` has a place for
each way in which a call may not return: `"allocate_loops"`, `"free_loops"`, `"overrun"`, and
`"corrupt"` for a free of something the heap does not have, which `RecordsMatchHeap` excludes.

### File

The file is `exists` and `content`; `files` has the two handles, the caller's and the one that a procedure
with a name opens for itself, each with its position. A call that needs several calls of the system goes from
`pc` to `pc`, and `call` keeps its locals. Any of the steps may fail, reads and writes move
any number of bytes up to those that are left, and `Other` may come between two steps.

| Code | Action |
|---|---|
| `cut_open_file`, `cut_open_file_0` | `Open` (with what the two systems allow, `CanOpen`) |
| `cut_close_file`, `cut_set_file_position` | `Close`, `SetPosition` |
| `cut_get_file_size`, `_named` | `GetSize`; `SizeWindows` or `SizeCurrent`, `SizeEnd`, `SizeBack` |
| `cut_read_file`, `cut_read_file2` | `ReadFile`; `Read`, `ReadNothing`, `ReadEnd` |
| `cut_read_entire_file`, `2`, `_named` | `ReadEntire`; the steps of the size, `PositionKnown`, those of the read, `Restore` |
| `cut_write_file`, `2`, `_named` | `WriteFile`; `Write`, `WriteEnd` |
| the opening and closing of those with a name | `NamedOpen`, `NamedClose` |

`ReadNothing` is a read at the end of the file: the state stays what it is and the loop goes on. The seeks whose
answer the code does not look at (230, 315) may fail as well; the history `strayed` says that one did. `start`
and `before` are history too: the position and the bytes when the call began. A name that is
too long for the static buffer is one of the reasons for which an open fails. Left out:
`cut_get_file_position` as a call of its own, which changes nothing; an allocation that fails; a file deleted by
another process; the 32-bit counts of Windows; access rights.

### Network and Chat

Each operator of `Network` is one procedure of `network.c`, with the answer of the system as a
parameter. `stream` are the bytes between the two programs, in order; the buffers of the system have no limit in the
model, but a send may take a part of the bytes and a receive gives any first part of those that are there.
The bytes a client has sent before it closed can still be received. `Chat` has a place `pc` for each of the
programs, and an action for each call they make on a socket; what they do with the result is part of that
action. So the client's send and its look at what it has sent are one step: nobody else could tell the
difference, except that the server may have stopped a moment before the client knows that it will.

| Code | Action |
|---|---|
| server 13-32 | `ServerOpen`, `ServerBind`, `ServerListen`, `ServerAccept` |
| server 38-75 | `ServerReceive`, with `TakeByte` for a turn of the inner loop; `ServerReceiveFails` |
| server 77-80 and the early returns | `ServerClose`, a socket at a time |
| client 15-25 | `ClientOpen`, `ClientConnect` |
| client 29-55 | `ClientSend`, `ClientEnd` |
| client 57-59 and the early returns | `ClientClose` |

`said` and `received` are histories of the bytes. The properties define the lines of a sequence of bytes with all of it at
hand, which is what the server does not have. `LinesFit` is their condition: a line of more than `LineSize`
bytes is dropped in part by the code, and typed input has such lines too.

`LineServer` is what the two programs are together, without sockets, bytes, buffers and places: a sequence of lines that
grows, of which the server prints more and more, up to the one that asks it to stop. Its `sent` is `Lines(said)`, the lines whose
ends have been said, its `printed` and `why` are the server's, and its `fits` is `LinesFit(said)`: from the step on with which it becomes
false (`Overflow`) nothing is promised. A receive may be several lines (`PrintTo`), none, or the
news that the client has gone, which comes only when all lines are printed (`HangUp`); a send may be many lines, or a part
of one, which shows nothing. Every step of the sockets shows nothing, except that its failure may
end the server (`Fail`).

Left out: datagrams,
blocking modes, addresses, the start of the Windows interface, zero bytes in what is typed (the client's
input would end there), programs that are killed.

### Ini

Positions are those of the code plus one. A character is what the tokenizer tells apart: a letter of
`Letter`, `" "`, `"\t"` (which is also `'\r'`), `"\n"`, `";"`, the brackets, `"="`, and `"?"` for one below
32 or above 126. `Token(i)` is what `cut_ini_parser_get_next_token` returns from position `i`. The calls of
`cut_ini_parse_section` that are open are `stack`, and its last element is the section that is being parsed; the global
section is under it.

| Code | Action |
|---|---|
| `cut_ini_parse` | `ParseBegin` |
| a turn of the loops of both sections, by the token met | `ParseEntry`, `ParseSection`, `ParseEnd`, `ParseUnknown` |
| the end of `cut_ini_parse_section`, 331-341 | `SectionReturns` |
| the end of `cut_ini_parse_global_section` | `GlobalReturns` |
| `cut_ini_destroy_parsed_data` | `Destroy` |
| `cut_ini_get_global_entry_value`, `cut_ini_get_entry_value` | `GetGlobalEntryValue`, `GetEntryValue` |
| `cut_ini_get_global_field`, `cut_ini_get_field` | `GetField` |

The result is compared with `Lines`, the same text read line by line without a tokenizer; `Read` is the result in
its form. What a line may be is what the tokenizer's rules come to on one line: a name runs over blanks and
semicolons up to a tab or a separator. Left out: wording and line of an error, sizes beyond 32 bits, allocations that fail,
names of length 0 (the parser makes none).

### Printing, Utf8 and Text

`formatters` are variables of the caller in the places `Slots`; a call names places, so the same formatter can be
passed twice, or again in a later call, as the code allows. `made` is what the formatters were at
first and `before` the places that earlier calls have used; both are history, for the properties. An integer has `Width` bits
and at most `MaxDigits` digits (64 and 19 in the code). `FlushSize` is the size of print's static buffer.

| Code | Action |
|---|---|
| `cut_sprint`, `cut_sprint_v`, first loop | `SprintBegin` |
| a turn of its second loop, its end | `SprintItem`, `SprintEnd` |
| `cut_print`, `cut_print_v` | `PrintBegin`; `PrintItem` a turn, with `Flush`; `PrintEnd` |
| `cut_utf8_str_for` | `WalkBegin`, `WalkStep`, `WalkEnd` |

`Flush` hands a buffer to the system, which writes any part of it; the code goes on in every case. After a
write past the buffer (`pc = "overrun"`), and after a read of a byte that is not there (`"undefined"`), nothing can be
said. `Unset` are bytes of sprint's block that nothing has written. A number of parameters that does not
fit the format, and the allocator's failure, are left out.

## 3. Runs

| Run | Bounds | Shows |
|---|---|---|
| `hash_table` | 3 keys, two with the same start; capacities 3 and 4; increment 1; growth up to 4; at 75% and at 150% | `CountIsLive`, `AllReachable`, `AnswersAreTrue`, `ForStaysInside`, `ForMeetsAll`, `ResizeLosesNone`; `LoopsOnlyWhenExhausted` |
| `hash_table_walk` | 2 keys, capacities 1 to 3, loop turn by turn | `ImplementsHashTable`, `ImplementsDictionary`, `WalksEnd` |
| `dyn_array` | 2 elements, capacities 0, 1, 3, growth up to 5, increments 0, 1, 2, up to 2 elements at once | `CountFits`, `ImplementsList` |
| `memory` | buffers and circular memories of 2, 5 and 7 bytes, arenas of 8 and 10 bytes with alignments 2 and 8, commit sizes 2 and 8, both systems; requests of 0, 1, 3 bytes | `BlocksDisjoint`, `BlocksInside`, `CommittedCoversBlocks`, `IntactForATurn` |
| `memory_debug` | 2 addresses with the same start and null, sizes 1 and 2, a table of 4 slots, an array of invalid frees that grows by 1, one frame, up to 5 bytes and 2 invalid frees | `RecordsMatchHeap`, `TotalsBalance`, `LoopsOnlyWhenUsedUp`, `ReportIsTrue`, `ImplementsLedger` |
| `file` | both systems; files of up to 3 bytes, there or not; reads of 0, 1, 2 bytes and of all; writes of 1 and 2 bytes; positions 0, 1, 3 | `NothingLeaks`, `PositionIsKept`, `ReadsAreTrue`, `WritesArePrefixes`, `StuckOnlyPastTheEnd`, `CallsEnd` |
| `chat` | up to 3 bytes of four kinds are typed, then nothing, or the request on the same line or on the next; a line of 3 bytes, a receive buffer of 2, an input of 5 | `PiecesDoNotMatter`, `SocketsAreClosed`, `AgreeOnTheEnd`, `ImplementsLineServer`, `ServerStops` |
| `ini` | all texts of up to three of thirteen pieces (lines, broken lines, single characters), and of four of five regular lines; arrays that start with one element | `ParseReadsLines`, `ContentsAreApart`, `LookupsAreTrue`, `BlocksAreOwned` |
| `text` | two calls with two formatters; integers of 8 bits, the least among them; strings of whole and of torn characters; a buffer of 5 bytes and a string of 6 | `PrintedIsText`, `SprintFills`, `WalkMeetsCharacters` |
| `get_returns` | capacity 2 | **violated** `GetReturnsUnlessFull` |
| `resize_adds_none` | capacities 2 and 4 | **violated** `ResizeAddsNone` |
| `section_field` | as `ini` | **violated** `SectionFieldsAreFound` |

*Why the bounds are enough.* A table of three or four slots already has collisions, chains that
cross the end of the table, marks in the middle of a chain, exhaustion of the unoccupied slots, a
capacity that is a power of two and one that is not, resizes to larger, equal and smaller tables
started with and without marks. Keys whose hash is a reserved number are there too. The array's
capacities and increments put every growth rule on both sides of its comparison, including no
growth at all. The memories are sized so that requests fit exactly, almost and not at all, and so that circular
memory turns at least once in every way. The debugger's table is used up within the bound, with live blocks or with marks.
A read of two bytes and a write of two have every way to be cut, from positions before, at and behind
the end. In the conversation a line is shorter than, as long as and longer than the line buffer, a request
("disconnect" stands as a word of two bytes) ends in one way or the other, is torn apart by the receive buffer
or by the client's input, and follows text on its own line. 
An array of the parser that starts with one element is enlarged by the second and the third; three pieces make every
kind of token follow every other at the places where the parser expects something, and four
lines make a name occur twice, in a section and outside of it, with sections of the same name. A buffer of five bytes is filled exactly, is
one byte too short, and is too short for a parameter alone; two calls are enough for a formatter to be used twice in one call and
in two. `MaxCalls`, `MaxLength`, `MaxCapacity`, `MaxMany`, `MaxGiven`, `MaxSpent`, `MaxTotal` and `MaxInvalid` bound what
would grow for ever; each guards only the actions that grow it.

*Deadlock.* It is checked for the hash table and the file, whose caller always has something to do (an endless
walk, or read, is an explicit step). The two programs of the example are meant to stop, and so is a program that has destroyed
what it parsed or has made its `MaxCalls` texts. In the other models the bounds, and the states after which a
program has no defined behaviour (`overrun`, `corrupt`, `lost`, `unmapped`, `undefined`) or has no structure
any more (`freed`, `destroyed`, `failed`), do stop the system, so their configurations turn it off.

*Fairness.* A caller of the library may stop calling it at any time: no fairness is
assumed of calls. A call that has begun is executed further by the processor, hence
`WF(InCall /\ WalkNext)` in `HashTableWalk` and `WF(CallStep)` in `File`, where no number of
steps that fail or succeed is promised. In `Chat` the server runs on as long as it has not to wait for
the client (`WF(ServerRuns)`: the steps that it takes when nothing fails; that a step fails is
never promised), and a client that is leaving closes its socket (`WF(ClientClose)`); nothing makes
the client type, connect or leave.

### Findings

* `get_returns`: a `get` of a missing key does not return once every slot has been used, however few
  elements are left. The comment on `get` (line 83) promises a null pointer.
* `resize_adds_none`: `resize` copies removed slots too (line 245), and adding them makes them live again.
* `section_field`: `cut_ini_get_field` finds nothing in a section. It stops behind the section's name, where the next
  token is the `]` of the declaration, at which the search for the field ends (525). `README.md` 29 lists section-scoped
  lookups.

What else was noticed, without a run of its own: an `add` may not return in a table with room, unless
the capacity is a power of two, although the comment on it (`hash_table.c` 70) names a full table as the only such case and a
test uses a capacity of 30 (`LoopsOnlyWhenExhausted` says exactly when); with no block out, the debugger's
report cannot grow and its first line is written past a block of 0 bytes (`memory_debug.c` 133; the place `overrun`, which by `ReportIsTrue` no other report comes to); the search for a global field takes a value for a name and misses the entry behind
it (`ini.c` 473-531; `LookupsAreTrue` leaves open what is missed); a parameter
longer than print's buffer is written past its end (`print.c` 169; `PrintedIsText`); an integer's formatter prints 0 when it is used
again, and in the same sprint leaves bytes unwritten (278; `SprintFills`); a string that ends inside of a character is
read past its end (`utf8.c` 110, 139; `WalkMeetsCharacters` is about strings that do not); the assertion of `dyn_array.c` 67 fails on every add;
`remove_at` copies overlapping bytes with `memcpy` (159), so that only a `memcpy` that copies in
order keeps the order of what is behind the removed element; `cut_arena_init` takes `MAP_FAILED` for success (222); a fill factor of
53% or 59% is computed as 52 or 58; on Windows the committed pages are right only because
`uncommitted_start` stays at the start and every commit begins there again (255); a read that wants more than
the file has never ends (`file.c` 295; `StuckOnlyPastTheEnd` says exactly when), so `cut_read_entire_file` is for a file
at its start; on Linux a writable open does not make the file (143) and a read-only one empties it when its
content is not to be kept (147); the rest of a line that was too long for the server is taken for a line
(`network_tcp_server.c` 71), although the message printed says that it is discarded.

## 4. Proofs

All are for any values of the constants that satisfy the named assumptions. `HashProcAssumption`: the
hash procedure is a function of the key to numbers. `GarbageAssumption`, `UnwrittenAssumption`,
`NullAssumption`: bytes never written and the null pointer are told apart from keys and values.
`CapacitiesAssumption`: tables have at least one slot. `DynArrayAssumption`: capacities and increments
are numbers. `MemoryAssumption`: alignments and commit sizes are powers of two. `IniAssumption`: letters are
none of the signs the parser knows, a name that is looked up is not empty, arrays begin with at least one element. `FileAssumption`: contents and data are sequences of bytes, sizes and positions
numbers, and zero is a byte. `MemoryDebugAssumption`: null is an address, sizes are numbers, the table
has at least one slot and the array of invalid frees grows. `ChatAssumption`: "\n" and "\r" are two bytes, "disconnect" contains neither and fits the client's
input with its end (10, 2 and 512 in the code), and buffers have at least a byte. `PrintAssumption`: widths and digit
counts (see Printing).

**Hash table** (`HashTable_proofs`, on lemmas about one table in `Data_proofs`). `CountIsLive`
and `AllReachable` together say that a table is `Good`: well-formed, counted, and every live
slot reached by the walk of its key before any unoccupied slot. Store and erase keep tables good:
erase because a mark is not unoccupied, store because it writes where the walk first met a slot that may be taken,
so that nothing unoccupied is before it, and takes an unoccupied slot away from other walks, never gives them one.
`AnswersAreTrue` follows from it at the moment of an answer, and is kept because every call that
changes the table overwrites the answer. Two parts of `IInv` are there only to make it inductive:
`ForLeft` (the live slots ahead of the iteration are at least as many as it still means to meet,
and exactly as many when its body only reads), without which nothing relates `cut_i` to `cut_j` and
neither `ForStaysInside` nor `ForMeetsAll` follows; and `CopiedSoFar` (the new table has one element
for each used slot before `i`), without which the copy might have stopped, its table full, before
the last element, and `ResizeLosesNone` would not follow.

`LoopsOnlyWhenExhausted` needs that with a capacity that is a power of two the walk visits every slot in its first
`capacity` turns (`ProbesCover`). If turns m < n met the same slot, the capacity c would divide
half of (n - m)(n + m + 1), of which one factor is odd; an odd factor can be taken out of a multiple of c (`OddFactor`, by the least
number whose multiple of the other factor is one of c), so c would divide a number between 0 and c (`TurnsDiffer`). So the c
turns meet c different slots, which are all there are. Then no walk misses what it may stop at
(`WalkLands`), and with a `Good` table the stops run out as the property says (`LoopsWhenFull`). The moment of the
endless call is a step of its own in the model, so the property follows from `IInv` before that step.

That a whole walk may be taken for one step is `LoopIsFormula` (`WalkSpec => ImplementsHashTable`). `WalkInv` says of a walk that has
begun that it is at some slot of the probe sequence of its key, its `probe_inc` one more than the number of turns taken, that it has passed no slot
to stop at, that the prophecy `lost` is still what the closed formula says of it, and which call waits for it. A turn keeps that
(`LoopTurns`): adding the two remainders of `index` and `probe_inc` gives the next slot of the sequence (`ProbeNext`, from
`AddRemainders`). The sequence repeats after twice the capacity (`ProbeRepeats`), so a slot that any turn comes to is one that `Landing` knows
(`MeetingLands`, `LandsHere`): when a walk ends it is where the formula says and was not lost, and a lost one
never ends. Without the walks, every step is then a step of `HashTable` (`WalkStepIsNext`).

`TableIsDictionary` and `LoopIsDictionary` are the refinement of `Dictionary`, by the caller's table and by the one with its loops. The
bag of the pairs in a set of slots (`BagOf`) gains one pair with one slot, loses one with one, is the sum for two
disjoint sets, and is as large as the set (`BagOfMore`, `BagOfLess`, `BagOfBoth`, `BagOfSize`), so each effect on the slots is one on the bags
(`StorePairs`, `ErasePairs`). The copy of resize is one step of `Dictionary`, at its end: `CopiedPairs` says what the
new table has until then, the pairs of the used slots before `i` and no removed slot of its own. `Dictionary` leaves two things
open, which depend on where the pairs lie: which removed pair an add forgets, and which pairs a smaller table keeps.

**Dynamic array** (`DynArray_proofs`). `IInv` is `TypeOK /\ CountFits`: what growth makes is large
enough, for each of the two rules, unless the increment is 0. From it, each step of the array is
shown to be a step of `List` or to leave the list as it is (`NextPromised`), by lemmas about what append, cut,
remove and exchange of the block do to the contents. `ArrayIsList` holds for every order in which
`memcpy` may copy: that each place gets an element from behind it (`CopiedFromBehind`) follows from the last place for which
it is not so, whose neighbour would have to have got one.

**Files** (`File_proofs`). `IInv` is a table of what holds at each `pc` of a call: which call can be there (`Places`); that the
file opened by name and the block are held between these places and no others (`Resources`); how much of the work is
done (`Amounts`); where the position is in terms of the one at the beginning, with the two seeks that may fail unnoticed
(`Seeks`); and that the bytes read, or written, so far are those of the range so far unless somebody else has written
(`BytesSoFar`). All five properties follow from it at `pc = "ready"`. The work is in the last part: a piece written behind a
first part is a longer first part (`Written`, extended byte by byte, past the end of the file too), a piece read behind
what has been read is a longer subsequence.

**TCP example** (`Chat_proofs`). `IInv` has five parts. `Holding` ties the open sockets to the two places; `Delivery` says that
what was said is what was received followed by what is on its way, as long as the connection is open, and that only a tail is ever lost;
`CutOf` says that the server, which has taken the bytes in whatever pieces, has printed the lines of all of them, knows
whether one asked it to stop, and has in its array the bytes behind the last end; `Requests` relates why the programs stop to
the lines in what was said. `CutOf` is the heart: the loop over a received piece is a fold, which the proof unfolds into its steps
(`FoldSteps`) and follows by induction over the piece (`FoldTakes`), and a step takes one byte (`TakeByteOK`), for which the lines of
some bytes and one more have to be known (`NoEnd`, `OneEnd`, `LinesStay`). The lines are counted by their ends, so that
these lemmas are about cardinalities of sets of positions. `AgreeOnTheEnd` needs, besides, what the client's `fgets` can make of a line:
that it cuts only where its input is full (`FgetsIs`, the last part of `Requests`), and that the
two ways of recognising "disconnect" answer alike for a whole line (`AsksAlike`). Inductions are over sets of numbers (`AllNumbers`, from the
well-foundedness of the order), since the theorems on induction take an operator.

`ExampleIsLineServer` is the refinement of `LineServer`, and needs no more than `IInv`: what it adds are facts about steps. More bytes leave the
lines there are as they are (`MoreLines`), so `sent` only grows. What the server has received is a first part of what was said, so its lines are the first
of those sent; and of two such first parts, of which the shorter does not ask to stop, the longer makes the
server print on to some line (`PrintsOn`), which is the one that asks exactly if the server has met such a line. A server that answers
that the client has gone has received everything. `StepPromised` sets apart, once, the steps that send a line without room.

**INI parser** (`Ini_proofs`). `OwnsBlocks` is `Spec => []BlocksAreOwned`: at whichever character the parser gives up,
what it has allocated is in the result or in a call that is still open, and when all calls have returned the result has
it all. `IInv` says besides that `stack` is empty unless the parser runs (without which destroying the result would not account for the
sections on it) and that no capacity is 0 (without which doubling it would make no room). It says of no position what it is.
`KeepsContentsApart` is `Spec => []ContentsAreApart`, and needs positions. `TokenIsToken` is what it takes from the
tokenizer: a token begins at or behind where it was looked for, ends in the text, and the next one is looked for behind it, or at the
end of the text when there is none. `TokenStart` calls itself, so that there is such a function at all
is proved first (`WalkExists`, by induction over the distance from the end; a turn never goes back). `Apart` numbers the
sections in the order of the text, those of `stack` first, then those of the array backwards (`SectionAt`): all but the one
being read are `Closed`, from their first field up to the next declaration, and that one, the last, is `Open`, with nothing
at or behind `index`. A field keeps it open, a declaration or the end of the text closes it, and a call that returns moves a section
from one list to the other and none to another place in the text (`ReturnKeepsOrder`).

`ReadsLines` is `Spec => []ParseReadsLines`. `Lines` reads a text by its ends of line and the parser by tokens, and neither knows
of the other's steps; `Reached` is where they meet: some lines have said what the parser has read so far, and the
next token is where the next line begins. For each line the tokens that stand there are proved from its definition: a rest is
skipped (`RestIsSkipped`), a declaration is three tokens (`DeclarationIs`), an entry three others (`AssignmentIs`), so a line that is read adds exactly
what its tokens do (`LineAdds`), and from a place that is reached the next line with something to say is
of the kind of the next token (`ReachedIsAhead`, an induction over the lines, for the blank ones between). `Says`, the invariant, is that
the parser is at such a place, without an error, or is `Stuck`: some line is irregular, and all that the lines before it say
has been read. To be stuck is for good, because a step only adds (`More`, `StuckStays`). What has been read
(`ReadOf`) is, again, spread over the global section, `stack` and, backwards, the array, and a return leaves it as it is (`ReturnIsRead`).

`LooksUpTruly` is `Spec => []LookupsAreTrue`. What is inductive is `Exactly`, which says of every lookup what it
answers, what it misses included; the property, which leaves open what is missed, follows from it
(`ExactlyIsTrue`). A lookup in the result has only to be turned round: the first section of a name in the
array is the last in the text (`LastIsFirst`). A search in the text itself needs no result, so `Says` does not help; what it
finds from where a line begins is proved by induction from the end of the text, for both of its walks (`IsSearch`): an entry answers, ends the
search or passes it on to the next line (`FieldTurnsTo`), a declaration ends it (`SearchPassesDeclaration`). That gives the
answer for the global section (`GlobalIsFound`) and that the search of the code never has one in another
(`SectionHasNothing`, the reason for the violation of `SectionFieldsAreFound`).

**UTF-8** (`Text_proofs`). `LengthIsTold`, `DecodesEncoded` and `EncodesDecoded` say for every character and every code point what
the run says for a few: the syntax of RFC 3629 as a set of byte sequences gives the lengths by
cases; the code point is a division by 64, three times at most, and lemmas for each number of groups of six bits put them
together (`GroupsOfThree`, `GroupsOfFour`) and take them apart again (`FourAre`).

**Printing** (`Text_proofs`). `PrintsText`, `FillsBlocks` and `WalksCharacters` are the three properties of the run, for all formats,
formatters, widths and sizes of the buffer, under `PrintAssumption`: the width is a number of hexadecimal digits, an integer has at most
`MaxDigits` decimal ones, a string that is to end with a zero byte has one. First come lemmas about one formatter. The digits that the
loop writes, the last one first, are those of `Numeral`, which is defined by dividing (`DigitsArePadded`): the provers know nothing of
powers or recursive functions, so that there is such a function for `Power`, `Left` and `Numeral` is proved by
induction (`Recursion`), and that `DigitsCount` counts the digits follows from bounds by powers of ten (`DigitsCountFits`). So what a formatter
writes is what it stands for, as long as it is counted (`ItemWritten`), and once it has been used it is an integer 0.
Then come the invariant's parts. `Kept` says exactly what has become of the formatters: they are as they were made but for the integers that
an earlier call, or an earlier item of this one, has used. Without it nothing is known of what the next item writes. `Filling`
relates the block to two sums: it is the items so far, and not longer than what was counted for them *when the call began*; where the two differ
an integer is used twice. `Written` says that the buffers handed over, one after the other, and what the buffer still has are the
items so far, and that each of them ends with an item (`NoneCut`). `Walking` cannot be said of the text so far, because a text is defined from its end:
`TextFrom` and `CharsFrom` take the recursive functions of `IsText` and `StrLen` at any byte (`Backwards` proves that they exist), and the invariant says that
from the byte reached on there is text, with as many characters as are missing.

**Debugging allocator** (`Memory_proofs`). All five properties of its run are proved, with the lemmas on tables that the hash
table uses. `IInv` says that the table is `Good` (so a walk finds what is there, and `remove` comes to the slot that `get`
found: `RemoveFollowsGet`), that its live elements are the blocks of the heap, each once, and that their sizes and what
was taken back add up to what was asked for. The sum is a fold over a set in an order nobody knows; that it
changes by one summand when one slot does (`TotalOneMore`) needs that any element may be taken out first (`AddsAny`, by
induction over the size of the set), and so does the number of entries of the ledger's bag (`EntriesMore`). `LInv` relates
that number to `count`, and `NextPromised` shows each step to be one of `Ledger` or to leave it as it is. `RInv` says of
each place in the making of a report what has been written so far: for each block as many lines as there are such blocks among the slots the
iteration has met (`LeakLine`), each invalid free at its place behind them, and as many lines
of a trace as are due. `LoopsAreLate` and `BooksAreLedger` have the hypothesis that the number of
slots is a power of two, 256 in the code: with another one an allocation could fail to return with room left.

**Memory** (`Memory_proofs`). `MemoryInv` adds to the properties where blocks may be (`Placed`), how far
`current` has come (`Position`), what Windows has committed (`Pages`), and for circular memory
`Laps`: for each block either the memory has not turned since it was given, and the bytes given since lie
exactly between its end and `current`, or it has, and then those bytes and the size of a turn are
behind it. The history `given - upto` is what makes that sayable; `IntactForATurn` follows from it at
the moment a block is given. Two lemmas about `cut_align_nb` (it rounds up by less than the alignment, and
to no more than any multiple that is above) carry the arithmetic.

The type invariants of the hash table, the array, the memories, the example and printing are proved (`TypeCorrect`, `TypesAreKept`,
`TextTypeCorrect`), and are no
longer among what the runs check.

Only model-checked: liveness (`WalksEnd`, `CallsEnd`, `ServerStops`), which needs fairness and ENABLED. Every invariant and every other
action property of the passing runs is stated by a theorem.

## 5. Plan

Done, all with proofs: hash table (data, caller, loop, dictionary), dynamic array (with list), memory, debugging allocator
(with ledger), file, sockets and the TCP example (with line server), INI parser, UTF-8, printing. Nothing of the plan is left.

Runs are kept few: one for each component's promises, one for each disagreement. Properties that turn out to be the
shallowest of their run give way to those of the new modules.
