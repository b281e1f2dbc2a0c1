---- MODULE Ini ----
(***************************************************************************)
(* ini.c: a caller that parses a text, looks up what it says, in the       *)
(* result of the parser or in the text itself, and destroys the result.    *)
(* Positions are those of the code plus one.                               *)
(***************************************************************************)
EXTENDS Integers, Sequences, SequencesExt

CONSTANTS
    Letter,         \* characters that mean nothing to the parser
    Texts,          \* texts that are parsed
    Names,          \* names that are looked up
    InitCapacity    \* of the arrays of sections and of fields (4)

\* "\t" is also '\r'; "?" is a character below 32 or above 126.
Blank     == {" ", "\t"}
InName    == Letter \cup {" ", ";"}
Character == InName \cup Blank \cup {"\n", "[", "]", "=", "?"}

ASSUME IniAssumption ==
    /\ Letter \cap (Blank \cup {"\n", ";", "[", "]", "=", "?"}) = {}
    /\ Texts \subseteq Seq(Character)
    /\ Names \subseteq Seq(Character) \ {<< >>}
    /\ InitCapacity \in Nat \ {0}

VARIABLES
    text,
    index,      \* of the next character
    pc,
    global,     \* the global section
    stack,      \* sections whose parsing has begun and not ended: each call is inside the one before
    sections,   \* those that are in the array of the result, with its capacity
    error,
    blocks,     \* how many blocks are out
    answer      \* of the last lookup

result == <<global, sections, error>>
vars == <<text, index, pc, stack, blocks, answer, result>>

Unset == 0      \* a position that nothing has written

\* Words are <<first, last>>, and so is the declaration, with its brackets.
Section(decl, name) ==
    [decl |-> decl, name |-> name, fields |-> << >>, capacity |-> InitCapacity,
     content_start |-> Unset, content_end |-> Unset]

NoWord   == <<1, 0>>
NoAnswer == [op |-> "none"]

Init ==
    /\ text \in Texts
    /\ index = 1
    /\ pc = "ready"
    /\ global = Section(NoWord, NoWord)
    /\ stack = << >>
    /\ sections = [data |-> << >>, capacity |-> InitCapacity]
    /\ error = FALSE
    /\ blocks = 0
    /\ answer = NoAnswer

Word(name) == SubSeq(text, name[1], name[2])

----------------------------------------------------------------------------
(***************************************************************************)
(* cut_ini_parser_get_next_token.                                          *)
(***************************************************************************)

AfterComment(i) ==
    LET ends == {n \in i .. Len(text) : text[n] = "\n"}
    IN  IF ends = {} THEN Len(text) + 1 ELSE 1 + Min(ends)

\* The first character from i on that is not skipped.
TokenStart(i) ==
    LET start[n \in 1 .. Len(text) + 1] ==
            IF n > Len(text) THEN n
            ELSE IF text[n] \in Blank \cup {"\n"} THEN start[n + 1]
            ELSE IF text[n] = ";" THEN start[AfterComment(n)]
            ELSE n
    IN  start[i]

TokenKind(start) ==
    IF start > Len(text) THEN "end"
    ELSE IF text[start] \in {"[", "]"} THEN "separator"
    ELSE IF text[start] = "=" THEN "op"
    ELSE IF text[start] \in InName THEN "name"
    ELSE "unknown"

\* A name or a value goes on over blanks and semicolons.
TokenEnd(start) ==
    IF TokenKind(start) = "name"
    THEN CHOOSE n \in start .. Len(text) :
            /\ \A m \in start .. n : text[m] \in InName
            /\ n < Len(text) => text[n + 1] \notin InName
    ELSE start

Token(i) ==
    LET start == TokenStart(i)
        kind  == TokenKind(start)
    IN  [kind |-> kind,
         at   |-> <<start, TokenEnd(start)>>,
         next |-> IF kind \in {"end", "unknown"} THEN start ELSE TokenEnd(start) + 1]

Is(token, char) == text[token.at[1]] = char

----------------------------------------------------------------------------
\* The parser.

ParseBegin ==
    /\ pc = "ready"
    /\ index' = 1
    /\ pc' = "parse"
    /\ global' = [Section(NoWord, NoWord) EXCEPT !.content_end = 1, !.content_start = 1]
    /\ sections' = [data |-> << >>, capacity |-> InitCapacity]
    /\ error' = FALSE
    /\ blocks' = blocks + 2
    /\ answer' = NoAnswer
    /\ UNCHANGED <<text, stack>>

\* The section that is being parsed.
Current == IF stack = << >> THEN global ELSE Last(stack)

Becomes(section) ==
    IF stack = << >> THEN global' = section /\ UNCHANGED stack
                     ELSE stack' = Append(Front(stack), section) /\ UNCHANGED global

\* The loops end at the first error.
Stops == error' = TRUE /\ pc' = "return"
GoesOn == UNCHANGED <<error, pc>>

\* Fault: the array is enlarged when it has overflowed.
RoomLate(count, capacity) == IF count > capacity THEN 2 * capacity ELSE capacity

\* The array that gets one more element.
Room(count, capacity) == IF count >= capacity THEN 2 * capacity ELSE capacity

WithField(section, name, value) ==
    [section EXCEPT !.fields   = Append(section.fields, [name |-> name, value |-> value]),
                    !.capacity = Room(Len(section.fields), section.capacity)]

\* The content of a section begins with its first field.
Begun(section, name) ==
    IF stack # << >> /\ section.fields = << >>
    THEN [section EXCEPT !.content_start = name[1]]
    ELSE section

\* A name: cut_ini_parse_entry.
ParseEntry ==
    LET name    == Token(index)
        op      == Token(name.next)
        value   == Token(op.next)
        section == Begun(Current, name.at)
    IN
    /\ pc = "parse"
    /\ name.kind = "name"
    /\ index' = (IF op.kind = "op" THEN value.next ELSE op.next)
    /\ IF op.kind = "op" /\ value.kind = "name"
       THEN Becomes(WithField(section, name.at, value.at)) /\ GoesOn
       ELSE Becomes(section) /\ Stops
    /\ UNCHANGED <<text, sections, blocks, answer>>

\* A section ends where the next one is declared or at the end of the text.
Ended(section, end) ==
    [section EXCEPT !.content_end   = end,
                    !.content_start = IF stack # << >> /\ section.fields = << >> THEN end ELSE @]

\* Fault: the bracket of the next declaration belongs to the content.
UpTo(position) == position

Before(position) == IF position > 1 THEN position - 1 ELSE 1

\* A separator: cut_ini_parse_section, up to its loop.
ParseSection ==
    LET open  == Token(index)
        name  == Token(open.next)
        close == Token(name.next)
        ended == Ended(Current, Before(open.at[1]))
        outer == IF stack = << >> THEN stack ELSE Append(Front(stack), ended)
        found == Section(<<open.at[1], close.at[1]>>, name.at)
    IN
    /\ pc = "parse"
    /\ open.kind = "separator"
    /\ index' = (IF Is(open, "]") THEN open.next ELSE IF name.kind = "name" THEN close.next ELSE name.next)
    /\ global' = (IF stack = << >> THEN ended ELSE global)
    /\ IF Is(open, "[") /\ name.kind = "name" /\ close.kind = "separator" /\ Is(close, "]")
       THEN stack' = Append(outer, found) /\ blocks' = blocks + 1 /\ GoesOn
       ELSE stack' = outer /\ UNCHANGED blocks /\ Stops
    /\ UNCHANGED <<text, sections, answer>>

ParseEnd ==
    /\ pc = "parse"
    /\ Token(index).kind = "end"
    /\ index' = Token(index).next
    /\ Becomes(Ended(Current, index'))
    /\ pc' = "return"
    /\ UNCHANGED <<text, sections, error, blocks, answer>>

\* An operator where an entry should begin, or a character that begins nothing.
ParseUnknown ==
    /\ pc = "parse"
    /\ Token(index).kind \in {"op", "unknown"}
    /\ index' = Token(index).next
    /\ Stops
    /\ UNCHANGED <<text, global, stack, sections, blocks, answer>>

\* Fault: a section that has not been read to its end is not kept.
KeptIfRead(section) == IF error THEN << >> ELSE <<section>>

Kept(section) == <<section>>

\* The innermost section is put into the array, whether or not there was an error.
SectionReturns ==
    /\ pc = "return"
    /\ stack # << >>
    /\ sections' = [data     |-> sections.data \o Kept(Last(stack)),
                    capacity |-> Room(Len(sections.data), sections.capacity)]
    /\ stack' = Front(stack)
    /\ UNCHANGED <<text, index, pc, global, error, blocks, answer>>

GlobalReturns ==
    /\ pc = "return"
    /\ stack = << >>
    /\ pc' = "parsed"
    /\ UNCHANGED <<text, index, stack, blocks, answer, result>>

\* cut_ini_destroy_parsed_data.
Destroy ==
    /\ pc = "parsed"
    /\ pc' = "destroyed"
    /\ blocks' = blocks - 2 - Len(sections.data)
    /\ answer' = NoAnswer
    /\ UNCHANGED <<text, index, stack, result>>

----------------------------------------------------------------------------
\* Lookups.

Global == << >>     \* no section: a null pointer

Answer(op, section, name, value) ==
    answer' = [op |-> op, section |-> section, name |-> name, value |-> value]

NotFound == << >>

\* cut_ini_get_section_entry_value.
ValueIn(section, name) ==
    LET found == {n \in DOMAIN section.fields : Word(section.fields[n].name) = name}
    IN  IF found = {} THEN NotFound ELSE Word(section.fields[Min(found)].value)

\* cut_ini_get_global_entry_value.
GetGlobalEntryValue(name) ==
    /\ pc = "parsed"
    /\ Answer("entry", Global, name, ValueIn(global, name))
    /\ UNCHANGED <<text, index, pc, stack, blocks, result>>

\* Fault: the last section of that name that the array has.
LastOf(found) == Max(found)

FirstOf(found) == Min(found)

\* cut_ini_get_entry_value.
GetEntryValue(section, name) ==
    LET found == {n \in DOMAIN sections.data : Word(sections.data[n].name) = section} IN
    /\ pc = "parsed"
    /\ Answer("entry", section, name,
              IF found = {} THEN NotFound ELSE ValueIn(sections.data[FirstOf(found)], name))
    /\ UNCHANGED <<text, index, pc, stack, blocks, result>>

\* Where the search for a field begins: behind the name of the section; Unset if there is none.
FieldsFrom(section) ==
    LET from[i \in 1 .. Len(text) + 1] ==
            LET token == Token(i)
                name  == Token(token.next)
            IN  IF token.kind \in {"end", "unknown"} THEN Unset
                ELSE IF token.kind # "separator" \/ Is(token, "]") THEN from[token.next]
                ELSE IF name.kind = "name" /\ Word(name.at) = section THEN name.next
                ELSE from[name.next]
    IN  IF section = Global THEN 1 ELSE from[1]

\* The search ends at the first name or value that is what is looked for.
FieldFrom(start, name) ==
    LET field[i \in 1 .. Len(text) + 1] ==
            LET token == Token(i)
                op    == Token(token.next)
                value == Token(op.next)
            IN  IF token.kind = "op" \/ (token.kind = "name" /\ Word(token.at) # name)
                THEN field[token.next]
                ELSE IF token.kind = "name" /\ op.kind = "op" /\ value.kind = "name"
                THEN Word(value.at) ELSE NotFound
    IN  field[start]

\* cut_ini_get_global_field, cut_ini_get_field: they need no result of the parser.
GetField(section, name) ==
    LET start == FieldsFrom(section) IN
    /\ pc = "ready"
    /\ Answer("field", section, name, IF start = Unset THEN NotFound ELSE FieldFrom(start, name))
    /\ UNCHANGED <<text, index, pc, stack, blocks, result>>

Next ==
    \/ ParseBegin
    \/ ParseEntry
    \/ ParseSection
    \/ ParseEnd
    \/ ParseUnknown
    \/ SectionReturns
    \/ GlobalReturns
    \/ Destroy
    \/ \E name \in Names :
          \/ GetGlobalEntryValue(name)
          \/ \E section \in Names : GetEntryValue(section, name)
          \/ \E section \in Names \cup {Global} : GetField(section, name)

Spec == Init /\ [][Next]_vars

----------------------------------------------------------------------------
(***************************************************************************)
(* What the properties compare with: the text read line by line, without a *)
(* tokenizer. A regular line is blank, a comment, a declaration or an      *)
(* entry; a name or a value ends at a tab, at "=", at "]" or with the line.*)
(***************************************************************************)
IsBlank(i, j) == \A n \in i .. j : text[n] \in Blank
IsGap(i, j)   == IsBlank(i, j) /\ (i <= j => text[i] = "\t")
IsRest(i, j)  == \E n \in i .. j + 1 : IsBlank(i, n - 1) /\ (n <= j => text[n] = ";")

WordsIn(i, j) ==
    {w \in (i .. j) \X (i .. j) : /\ w[1] <= w[2]
                                /\ text[w[1]] \in Letter
                                /\ \A n \in w[1] .. w[2] : text[n] \in InName}

\* name ends before the separator that follows the gap behind it.
EndsAt(name, separator, n) == text[n] = separator /\ IsGap(name[2] + 1, n - 1)

DeclaredIn(i, j) ==
    {Word(name) : name \in {w \in WordsIn(i, j) :
        \E open \in i .. w[1] - 1, close \in w[2] + 1 .. j :
            /\ IsBlank(i, open - 1) /\ text[open] = "[" /\ IsBlank(open + 1, w[1] - 1)
            /\ EndsAt(w, "]", close) /\ IsRest(close + 1, j)}}

EntriesIn(i, j) ==
    {[name |-> Word(e[1]), value |-> Word(e[2])] : e \in {ws \in WordsIn(i, j) \X WordsIn(i, j) :
        /\ IsBlank(i, ws[1][1] - 1)
        /\ \E op \in ws[1][2] + 1 .. ws[2][1] - 1 :
              EndsAt(ws[1], "=", op) /\ IsBlank(op + 1, ws[2][1] - 1)
        /\ ws[2][2] < j => text[ws[2][2] + 1] = "\t"
        /\ IsRest(ws[2][2] + 1, j)}}

\* What the lines say up to the first that is not regular; the global section comes first.
Nothing == [from |-> 1, regular |-> TRUE, sections |-> <<[name |-> << >>, fields |-> << >>]>>]

ReadLine(reading, end) ==
    LET declared == DeclaredIn(reading.from, end - 1)
        entries  == EntriesIn(reading.from, end - 1)
        said     == reading.sections
        going(all) == [from |-> end + 1, regular |-> TRUE, sections |-> all]
    IN
    IF ~reading.regular THEN reading
    ELSE IF IsRest(reading.from, end - 1) THEN going(said)
    ELSE IF declared # {} THEN
        going(Append(said, [name |-> CHOOSE name \in declared : TRUE, fields |-> << >>]))
    ELSE IF entries # {} THEN
        going(Append(Front(said), [name   |-> Last(said).name,
                                   fields |-> Append(Last(said).fields, CHOOSE entry \in entries : TRUE)]))
    ELSE [reading EXCEPT !.regular = FALSE]

Lines ==
    LET reading[n \in 0 .. Len(text) + 1] ==
            IF n = 0 THEN Nothing
            ELSE IF n <= Len(text) /\ text[n] # "\n" THEN reading[n - 1]
            ELSE ReadLine(reading[n - 1], n)
    IN  reading[Len(text) + 1]

\* The result of the parser in the same form: its sections are in the array from the last to the first.
Read ==
    LET words(field)    == [name |-> Word(field.name), value |-> Word(field.value)]
        meaning(sect) == [name   |-> Word(sect.name),
                          fields |-> [n \in DOMAIN sect.fields |-> words(sect.fields[n])]]
        all == <<global>> \o Reverse(sections.data)
    IN  [n \in DOMAIN all |-> meaning(all[n])]

Extends(longer, shorter) ==
    /\ IsPrefix(Front(shorter), longer)
    /\ Len(longer) >= Len(shorter)
    /\ LET end == longer[Len(shorter)] IN
         end.name = Last(shorter).name /\ IsPrefix(Last(shorter).fields, end.fields)

ValueOf(fields, name) ==
    LET found == {n \in DOMAIN fields : fields[n].name = name}
    IN  IF found = {} THEN NotFound ELSE fields[Min(found)].value

----------------------------------------------------------------------------

\* A text of regular lines is parsed without an error into exactly the
\* sections and fields its lines say; of any other text the result still has
\* what the lines before the first irregular one say, whatever comes after
\* and even when the parser stops with an error.
ParseReadsLines ==
    pc = "parsed" /\ answer = NoAnswer =>
        LET lines == Lines
            read  == Read
        IN  /\ Extends(read, lines.sections)
            /\ lines.regular => ~error /\ read = lines.sections

\* When the parser reports no error, the content of every section begins with
\* the name of its first field and ends just before the next declaration or with
\* the text: the nested calls hand no section the content of another.
ContentsAreApart ==
    pc = "parsed" /\ ~error =>
        LET all == Reverse(sections.data) IN
        \A n \in DOMAIN all :
            LET section == all[n] IN
            /\ section.fields # << >> => section.content_start = section.fields[1].name[1]
            /\ section.decl[2] <= section.content_start
            /\ section.content_start <= section.content_end
            /\ section.content_end = IF n = Len(all) THEN Len(text) + 1 ELSE all[n + 1].decl[1] - 1
            /\ \A m \in DOMAIN section.fields : section.fields[m].value[2] <= section.content_end

\* No lookup in a text of regular lines gives a value that the text does not give
\* to what was asked for: in the result it is always that of the first entry of that
\* name in the last section of that name, and of the search in the text itself any value
\* is that of the first entry of that name in a section of that name. A global entry
\* is found by that search unless an earlier one has the name for its value. What else
\* it may fail to find is left open here.
LookupsAreTrue ==
    answer # NoAnswer =>
        LET lines  == Lines
            all    == lines.sections
            fields == all[1].fields
            of  == {n \in 2 .. Len(all) : all[n].name = answer.section}
            at  == IF answer.section = Global THEN 1 ELSE Max(of)
            in  == IF answer.section = Global THEN {1} ELSE of
            met == {n \in DOMAIN fields : answer.name \in {fields[n].name, fields[n].value}}
        IN
        /\ lines.regular /\ answer.op = "entry" =>
              answer.value = IF answer.section # Global /\ of = {} THEN NotFound
                             ELSE ValueOf(all[at].fields, answer.name)
        /\ lines.regular /\ answer.op = "field" /\ answer.value # NotFound =>
              \E n \in in : answer.value = ValueOf(all[n].fields, answer.name)
        /\ lines.regular /\ answer.op = "field" =>
              (answer.section = Global /\ met # {} /\ fields[Min(met)].name = answer.name
                 => answer.value = fields[Min(met)].value)

\* What src/README.md says of the lookups by field: they find the entry of a
\* section as well, here that of a section whose entries have other values.
SectionFieldsAreFound ==
    answer.op = "field" /\ answer.section # Global =>
        LET lines == Lines IN
        \A n \in 2 .. Len(lines.sections) :
            LET section == lines.sections[n] IN
            lines.regular /\ section.name = answer.section /\ ValueOf(section.fields, answer.name) # NotFound
                => answer.value # NotFound

\* Every block is in the result or belongs to a section that is being parsed,
\* also after an error, so that destroying the result frees them all; and no
\* array is written past its capacity.
BlocksAreOwned ==
    /\ blocks = IF pc \in {"ready", "destroyed"} THEN 0 ELSE 2 + Len(stack) + Len(sections.data)
    /\ Len(sections.data) <= sections.capacity
    /\ \A section \in {global} \cup Range(stack) \cup Range(sections.data) :
          Len(section.fields) <= section.capacity
====
