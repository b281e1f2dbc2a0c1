---- MODULE File ----
(***************************************************************************)
(* file.c: a caller with one file on disk, one Cut_File of its own, and    *)
(* the procedures that open the file by its name for the time of a call.   *)
(* Each call of the system is a step: it may do less than it was asked, or *)
(* fail, and another process may write to the file before the next one.    *)
(***************************************************************************)
EXTENDS Integers, Sequences

CONSTANTS
    Byte,
    Zero,           \* the byte of a part of the file that nothing was written to
    Systems,        \* systems the program is built for
    Contents,       \* contents of the file at the beginning
    Sizes,          \* sizes the caller asks for
    Data,           \* what the caller writes
    Positions,      \* positions the caller sets
    MaxLength       \* bound: nobody makes the file longer

ASSUME FileAssumption ==
    /\ Zero \in Byte
    /\ Systems \subseteq {"linux", "windows"}
    /\ Contents \cup Data \subseteq Seq(Byte)
    /\ Sizes \cup Positions \subseteq Nat
    /\ MaxLength \in Nat

VARIABLES
    system,
    exists,     \* the file is on the disk
    content,    \* its bytes
    files,      \* the caller's Cut_File and that of the procedures that take a name
    pc,         \* where the caller is
    call,       \* the call being executed, or the last one
    out,        \* the bytes read
    held,       \* a block for them has been allocated and not been freed
    ok,         \* the answer of the call
    touched     \* history: another process has written to the file since the call began

disk == <<exists, content>>
vars == <<system, disk, files, pc, call, out, held, ok, touched>>

\* start, before and strayed are history: the position and the bytes of the file when the call
\* began, and whether a seek failed whose answer the code does not look at.
NewCall(op, named, allocates, size, data, start, before) ==
    [op |-> op, named |-> named, allocates |-> allocates, size |-> size, data |-> data, done |-> 0,
     curr_pos |-> 0, prev_pos |-> 0, start |-> start, before |-> before, strayed |-> FALSE]

NoCall == NewCall("none", FALSE, FALSE, 0, << >>, 0, << >>)

Closed == [open |-> FALSE, writable |-> FALSE, pos |-> 0]

Init ==
    /\ system \in Systems
    /\ \/ exists = TRUE /\ content \in Contents
       \/ exists = FALSE /\ content = << >>
    /\ files = [h \in {"caller", "named"} |-> Closed]
    /\ pc = "ready"
    /\ call = NoCall
    /\ out = << >>
    /\ held = FALSE
    /\ ok = FALSE
    /\ touched = FALSE

\* The file the call works on.
Handle == IF call.named THEN "named" ELSE "caller"
Pos    == files[Handle].pos

MoveTo(pos) == files' = [files EXCEPT ![Handle].pos = pos]

\* The bytes after piece has been written at pos.
Written(bytes, pos, piece) ==
    LET end == pos + Len(piece)
    IN  IF piece = << >> THEN bytes
        ELSE [n \in 1 .. (IF end > Len(bytes) THEN end ELSE Len(bytes)) |->
                IF pos < n /\ n <= end THEN piece[n - pos]
                ELSE IF n <= Len(bytes) THEN bytes[n] ELSE Zero]

----------------------------------------------------------------------------
(***************************************************************************)
(* cut_open_file_0.  On Linux the file has to be there, and it is emptied  *)
(* even when it is opened for reading only, if its content is not to be    *)
(* kept.  On Windows a writable open makes the file; nobody may write to a *)
(* file that is open, nor open one that somebody may write to.             *)
(***************************************************************************)
CanOpen(writable) ==
    IF system = "linux"
    THEN exists
    ELSE /\ exists \/ writable
         /\ \A h \in DOMAIN files : files[h].open => ~writable /\ ~files[h].writable

OpenAs(h, writable, keep_content) ==
    /\ CanOpen(writable)
    /\ files' = [files EXCEPT ![h] = [open |-> TRUE, writable |-> writable, pos |-> 0]]
    /\ exists' = TRUE
    /\ content' = IF ~keep_content /\ (system = "linux" \/ writable) THEN << >> ELSE content

\* A call that is over in one step and gives no bytes.
Answer(yes) ==
    /\ ok' = yes
    /\ call' = NoCall
    /\ out' = << >>
    /\ held' = FALSE
    /\ touched' = FALSE
    /\ UNCHANGED <<system, pc>>

\* cut_open_file and cut_open_file_0.  It may fail for many reasons, one being a name too long for
\* the static buffer of cut_open_file.
Open(writable, keep_content) ==
    /\ pc = "ready"
    /\ ~files["caller"].open
    /\ \/ OpenAs("caller", writable, keep_content) /\ Answer(TRUE)
       \/ Answer(FALSE) /\ UNCHANGED <<disk, files>>

Close ==
    /\ pc = "ready"
    /\ files["caller"].open
    /\ files' = [files EXCEPT !["caller"] = Closed]
    /\ Answer(TRUE)
    /\ UNCHANGED disk

SetPosition(position) ==
    /\ pc = "ready"
    /\ files["caller"].open
    /\ \/ files' = [files EXCEPT !["caller"].pos = position] /\ Answer(TRUE)
       \/ Answer(FALSE) /\ UNCHANGED files
    /\ UNCHANGED disk

----------------------------------------------------------------------------
\* The calls that take several steps.

FirstStep(op) == IF op \in {"size", "entire"} THEN "size" ELSE op

Begin(op, named, allocates, size, data) ==
    /\ pc = "ready"
    /\ named \/ files["caller"].open
    /\ call' = NewCall(op, named, allocates, size, data,
                       IF named THEN 0 ELSE files["caller"].pos,
                       IF op = "write" THEN content ELSE << >>)
    /\ pc' = IF named THEN "open" ELSE FirstStep(op)
    /\ out' = << >>
    /\ held' = (op = "read" /\ allocates)
    /\ ok' = FALSE
    /\ touched' = FALSE
    /\ UNCHANGED <<system, disk, files>>

\* cut_get_file_size, cut_get_file_size_named.
GetSize(named) == Begin("size", named, FALSE, 0, << >>)

\* cut_read_file allocates, cut_read_file2 does not.
ReadFile(allocates, size) == Begin("read", FALSE, allocates, size, << >>)

\* cut_read_entire_file, cut_read_entire_file2, cut_read_entire_file_named.
ReadEntire(named, allocates) == Begin("entire", named, allocates \/ named, 0, << >>)

\* cut_write_file, cut_write_file_named.
WriteFile(named, data) ==
    /\ (IF named THEN 0 ELSE files["caller"].pos) + Len(data) <= MaxLength
    /\ Begin("write", named, FALSE, 0, data)

\* Fault: a call by name that fails leaves its file open.
FinishLeaving(yes) ==
    /\ ok' = yes
    /\ pc' = IF call.named /\ yes THEN "close" ELSE "ready"
    /\ held' = (held /\ yes)

\* The call has its answer; a block is freed if the answer is no.
Finish(yes) ==
    /\ ok' = yes
    /\ pc' = IF call.named THEN "close" ELSE "ready"
    /\ held' = (held /\ yes)

Fail == Finish(FALSE) /\ UNCHANGED <<system, disk, files, call, out, touched>>

NamedOpen ==
    /\ pc = "open"
    /\ \/ /\ OpenAs("named", call.op = "write", call.op # "write")
          /\ call' = [call EXCEPT !.before = IF call.op = "write" THEN content' ELSE << >>]
          /\ pc' = FirstStep(call.op)
       \/ pc' = "ready" /\ UNCHANGED <<disk, files, call>>
    /\ UNCHANGED <<system, out, held, ok, touched>>

NamedClose ==
    /\ pc = "close"
    /\ files' = [files EXCEPT !["named"] = Closed]
    /\ pc' = "ready"
    /\ UNCHANGED <<system, disk, call, out, held, ok, touched>>

----------------------------------------------------------------------------
\* cut_get_file_size asks Windows; on Linux it goes to the end of the file and back.

\* With the size, read_entire_file allocates and goes on.
SizeIs(n, known) ==
    /\ call' = [known EXCEPT !.size = n]
    /\ IF call.op = "size"
       THEN Finish(TRUE)
       ELSE held' = call.allocates /\ pc' = "position" /\ UNCHANGED ok

SizeWindows ==
    /\ pc = "size"
    /\ system = "windows"
    /\ SizeIs(Len(content), call)
    /\ UNCHANGED <<system, disk, files, out, touched>>

SizeCurrent ==
    /\ pc = "size"
    /\ system = "linux"
    /\ call' = [call EXCEPT !.curr_pos = Pos]
    /\ pc' = "size_end"
    /\ UNCHANGED <<system, disk, files, out, held, ok, touched>>

SizeEnd ==
    /\ pc = "size_end"
    /\ MoveTo(Len(content))
    /\ call' = [call EXCEPT !.size = Len(content)]
    /\ pc' = "size_back"
    /\ UNCHANGED <<system, disk, out, held, ok, touched>>

\* Fault: the position is left at the end.
SizeBackForgotten ==
    /\ pc = "size_back"
    /\ SizeIs(call.size, call)
    /\ UNCHANGED <<system, disk, files, out, touched>>

\* The answer of this seek is not looked at.
SizeBack ==
    /\ pc = "size_back"
    /\ \/ MoveTo(call.curr_pos) /\ SizeIs(call.size, call)
       \/ UNCHANGED files /\ SizeIs(call.size, [call EXCEPT !.strayed = TRUE])
    /\ UNCHANGED <<system, disk, out, touched>>

SizeFails == pc \in {"size", "size_end"} /\ Fail

----------------------------------------------------------------------------
\* cut_read_file2 and cut_read_entire_file_.

PositionKnown ==
    /\ pc = "position"
    /\ call' = [call EXCEPT !.prev_pos = Pos]
    /\ pc' = "read"
    /\ UNCHANGED <<system, disk, files, out, held, ok, touched>>

PositionFails == pc = "position" /\ Fail

\* Fault: always as many bytes as were asked for at first.
LeftToReadAll == call.size

LeftToRead == call.size - call.done

\* Fault: every piece is put at the start of the block.
PlaceOver(bytes) == bytes

Place(bytes) == out \o bytes

\* read gives some of the bytes that are left in the file.
Read(n) ==
    /\ pc = "read"
    /\ call.done < call.size
    /\ n <= LeftToRead
    /\ Pos + n <= Len(content)
    /\ out' = Place(SubSeq(content, Pos + 1, Pos + n))
    /\ call' = [call EXCEPT !.done = call.done + n]
    /\ MoveTo(Pos + n)
    /\ UNCHANGED <<system, disk, pc, held, ok, touched>>

\* At the end of the file it gives 0, and the loop asks again.
ReadNothing ==
    /\ pc = "read"
    /\ call.done < call.size
    /\ Pos >= Len(content)
    /\ UNCHANGED vars

\* The loop is over, or read has failed.
ReadEnd(yes) ==
    /\ pc = "read"
    /\ yes = (call.done = call.size)
    /\ IF call.op = "entire"
       THEN pc' = "restore" /\ ok' = yes /\ UNCHANGED held
       ELSE Finish(yes)
    /\ UNCHANGED <<system, disk, files, call, out, touched>>

\* Fault: the position is only set back when everything has been read.
RestoreIfRead ==
    /\ pc = "restore"
    /\ IF ok THEN MoveTo(call.prev_pos) ELSE UNCHANGED files
    /\ UNCHANGED call
    /\ Finish(ok)
    /\ UNCHANGED <<system, disk, out, touched>>

\* The answer of this seek is not looked at either.
Restore ==
    /\ pc = "restore"
    /\ \/ MoveTo(call.prev_pos) /\ UNCHANGED call
       \/ UNCHANGED files /\ call' = [call EXCEPT !.strayed = TRUE]
    /\ Finish(ok)
    /\ UNCHANGED <<system, disk, out, touched>>

----------------------------------------------------------------------------
\* cut_write_file.

\* Fault: every write begins with the first byte.
PieceFromStart(n) == SubSeq(call.data, 1, n)

Piece(n) == SubSeq(call.data, call.done + 1, call.done + n)

Write(n) ==
    /\ pc = "write"
    /\ files[Handle].writable
    /\ call.done + n <= Len(call.data)
    /\ content' = Written(content, Pos, Piece(n))
    /\ call' = [call EXCEPT !.done = call.done + n]
    /\ MoveTo(Pos + n)
    /\ UNCHANGED <<system, exists, pc, out, held, ok, touched>>

\* Fault: a write that fails is tried again.
WriteEndRetrying(yes) ==
    /\ pc = "write"
    /\ yes
    /\ call.done = Len(call.data)
    /\ Finish(yes)
    /\ UNCHANGED <<system, disk, files, call, out, touched>>

WriteEnd(yes) ==
    /\ pc = "write"
    /\ yes = (call.done = Len(call.data))
    /\ Finish(yes)
    /\ UNCHANGED <<system, disk, files, call, out, touched>>

----------------------------------------------------------------------------
\* Another process makes the file, empties it, or adds a byte.  Windows does not let it as long as
\* the file is open.
Other(b) ==
    /\ system = "windows" => \A h \in DOMAIN files : ~files[h].open
    /\ exists' = TRUE
    /\ content' \in {<< >>, IF Len(content) < MaxLength THEN Append(content, b) ELSE content}
    /\ touched' = TRUE
    /\ UNCHANGED <<system, files, pc, call, out, held, ok>>

CallStep ==
    \/ NamedOpen
    \/ NamedClose
    \/ SizeWindows \/ SizeCurrent \/ SizeEnd \/ SizeBack \/ SizeFails
    \/ PositionKnown \/ PositionFails
    \/ \E n \in 1 .. MaxLength : Read(n) \/ Write(n)
    \/ ReadNothing
    \/ \E yes \in BOOLEAN : ReadEnd(yes) \/ WriteEnd(yes)
    \/ Restore

Next ==
    \/ \E writable, keep_content \in BOOLEAN : Open(writable, keep_content)
    \/ Close
    \/ \E position \in Positions : SetPosition(position)
    \/ \E named \in BOOLEAN : GetSize(named)
    \/ \E allocates \in BOOLEAN, size \in Sizes : ReadFile(allocates, size)
    \/ \E named, allocates \in BOOLEAN : ReadEntire(named, allocates)
    \/ \E named \in BOOLEAN, data \in Data : WriteFile(named, data)
    \/ CallStep
    \/ \E b \in Byte \ {Zero} : Other(b)

Spec == Init /\ [][Next]_vars

\* A call that has begun goes on.
FairSpec == Spec /\ WF_vars(CallStep)

----------------------------------------------------------------------------
\* Properties.

Cut_File == [open : BOOLEAN, writable : BOOLEAN, pos : Nat]

Calls ==
    [op : {"none", "size", "read", "entire", "write"}, named : BOOLEAN, allocates : BOOLEAN,
     size : Nat, data : Data \cup {<< >>}, done : Nat, curr_pos : Nat, prev_pos : Nat, start : Nat,
     before : Seq(Byte), strayed : BOOLEAN]

\* The variables have their types, and no more bytes are read than the caller's block has.
TypeOK ==
    /\ system \in Systems
    /\ exists \in BOOLEAN
    /\ content \in Seq(Byte)
    /\ files \in [{"caller", "named"} -> Cut_File]
    /\ pc \in {"ready", "open", "size", "size_end", "size_back", "position", "read", "restore",
               "write", "close"}
    /\ call \in Calls
    /\ out \in Seq(Byte) /\ Len(out) <= call.size
    /\ {held, ok, touched} \subseteq BOOLEAN

\* Whichever step of a call fails, the file it has opened is closed again, and the block it has
\* allocated is the caller's if the answer is yes and freed if it is no.
NothingLeaks ==
    pc = "ready" => ~files["named"].open /\ held = (ok /\ call.allocates)

\* A call that only looks leaves the position of the caller's file where it was, also when it
\* fails in the middle, unless a seek fails that it does not look at.
PositionIsKept ==
    (pc = "ready" /\ call.op \in {"size", "entire"} /\ ~call.named /\ ~call.strayed)
        => files["caller"].pos = call.start

\* A read that answers yes, in any number of pieces, has given as many bytes as were asked for, or
\* as the file had when its size was taken, and has moved by as many, whatever another process
\* does to the file meanwhile; if none has written to it, they are the bytes of the file at the
\* position, or all of them.
ReadsAreTrue ==
    (pc = "ready" /\ ok) =>
        /\ call.op \in {"read", "entire"} => Len(out) = call.size
        /\ call.op = "read" =>
              /\ files["caller"].pos = call.start + call.size
              /\ ~touched => out = SubSeq(content, call.start + 1, call.start + call.size)
        /\ (call.op = "entire" /\ ~touched) => out = content
        /\ (call.op = "size" /\ ~touched) => call.size = Len(content)

\* At any time, and also after a failure, a write has put the first part of the data at the
\* position and has changed nothing else; if it answers yes, all of the data.
WritesArePrefixes ==
    (call.op = "write" /\ ~touched) =>
        /\ content = Written(call.before, call.start, SubSeq(call.data, 1, call.done))
        /\ (~call.named /\ files["caller"].open) => files["caller"].pos = call.start + call.done
        /\ (pc = "ready" /\ ok) => call.done = Len(call.data)

\* A read that never ends, as long as nobody adds to the file.
Stuck == pc = "read" /\ call.done < call.size /\ Pos >= Len(content)

\* A read gets stuck only when it asks for more than there is; that of an entire file only when
\* the position is not at its start.
StuckOnlyPastTheEnd ==
    (Stuck /\ ~touched) =>
        IF call.op = "read" THEN call.start + call.size > Len(content)
                            ELSE call.start > 0 \/ call.strayed

\* Every call comes to its end, or to the end of the file.
CallsEnd == pc # "ready" ~> (pc = "ready" \/ Stuck)
====
