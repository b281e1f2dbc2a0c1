---- MODULE Text ----
(***************************************************************************)
(* A program that prints texts, and walks over the characters of those it  *)
(* has made: print.c and utf8.c together.                                  *)
(***************************************************************************)
EXTENDS Printing, Utf8

VARIABLES
    at,     \* the next byte of the walk
    met     \* the code points of the characters met

vars == <<printVars, at, met>>

Init == InitPrint /\ at = 1 /\ met = << >>

Prints == PrintNext /\ UNCHANGED <<at, met>>

WalkBegin ==
    /\ pc = "made"
    /\ pc' = "walk"
    /\ UNCHANGED <<formatters, call, i, data, writes, history, at, met>>

\* Bytes that the walk reads for a character; some may be beyond the end.
Reads(first) == first .. first + CharLen(data[first]) - 1

IsThere(n) == n \in DOMAIN data /\ data[n] # Unset

\* One turn of cut_utf8_str_for, whose code asks for the code point.
WalkStep ==
    /\ pc = "walk"
    /\ at <= Len(data)
    /\ IF data[at] # Unset /\ \A n \in Reads(at) : IsThere(n)
       THEN met' = Append(met, Codepoint(SubSeq(data, at, Len(data)))) /\ at' = at + CharLen(data[at])
            /\ UNCHANGED pc
       ELSE pc' = "undefined" /\ UNCHANGED <<at, met>>
    /\ UNCHANGED <<formatters, call, i, data, writes, history>>

WalkEnd ==
    /\ pc = "walk"
    /\ at > Len(data)
    /\ pc' = "walked"
    /\ UNCHANGED <<formatters, call, i, data, writes, history, at, met>>

Done ==
    /\ pc \in {"made", "printed", "walked"}
    /\ CallEnd
    /\ at' = 1
    /\ met' = << >>

Next ==
    \/ Prints
    \/ WalkBegin
    \/ WalkStep
    \/ WalkEnd
    \/ Done

Spec == Init /\ [][Next]_vars

----------------------------------------------------------------------------

\* The buffers that print hands over are, one after the other, the text,
\* whatever became of the writes before; none is longer than the buffer, no
\* parameter is cut between two of them, and the buffer is overrun only by a
\* single parameter that is longer.
PrintedIsText ==
    LET asked == FlattenSeq([n \in DOMAIN writes |-> writes[n].asked]) IN
    /\ pc \in {"print", "printed"} => asked \o data = TextUpTo(i - 1)
    /\ pc = "printed" => i = Len(format) + 1
    /\ \A n \in DOMAIN writes :
          /\ Len(writes[n].asked) <= FlushSize
          /\ \E m \in 0 .. i - 1 :
                FlattenSeq([k \in 1 .. n |-> writes[k].asked]) = TextUpTo(m)
    /\ pc = "overrun" <=> pc \in {"print", "overrun"} /\ \E m \in 1 .. i - 1 :
                             IsParameter(m) /\ Len(Meaning(m)) > FlushSize

\* sprint counts what it is going to write: the block it gives back is the
\* text, of that length; only an integer whose formatter has been used before
\* in the same call leaves bytes that nothing has written.
SprintFills ==
    /\ pc = "sprint" => Len(data) <= size /\ data = TextUpTo(i - 1)
    /\ pc \in {"made", "walk", "walked", "undefined"} =>
          LET text == TextUpTo(Len(format)) IN
          /\ Len(data) = size
          /\ IsPrefix(text, data)
          /\ Len(text) < size => UsedTwice

\* The walk over a text, put together from formats and strings that are text,
\* meets its characters with their code points in order, as many as StrLen
\* says, and reads nothing that is not there.
WalkMeetsCharacters ==
    pc \in {"walk", "walked", "undefined"} /\ IsText(data) =>
        /\ pc # "undefined"
        /\ FlattenSeq([n \in DOMAIN met |-> Encode(met[n])]) = SubSeq(data, 1, at - 1)
        /\ pc = "walked" => Len(met) = StrLen(data) /\ at = Len(data) + 1
====
