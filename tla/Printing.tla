---- MODULE Printing ----
(***************************************************************************)
(* print.c: a program that holds formatters and passes them, as often as it*)
(* likes, to sprint, which fills a block, and to print, which writes       *)
(* through a buffer of FlushSize bytes.                                    *)
(***************************************************************************)
EXTENDS Integers, Sequences, SequencesExt, FiniteSetsExt

CONSTANTS
    Slots,          \* places of the formatters
    Formatters,     \* what they may be
    Formats,
    Width,          \* of an integer in bits (64)
    MaxDigits,      \* the most digits an integer has (19)
    FlushSize,      \* (128)
    MaxCalls        \* bound

Percent == 37
Minus   == 45
Zero    == 48

Power(base, n) ==
    LET power[m \in 0 .. n] == IF m = 0 THEN 1 ELSE base * power[m - 1]
    IN  power[n]

IntKinds == {"int", "hex"}
Signed   == -Power(2, Width - 1) .. Power(2, Width - 1) - 1

ASSUME PrintAssumption ==
    /\ Width \in Nat \ {0} /\ Width % 4 = 0
    /\ MaxDigits \in Nat \ {0}
    /\ Power(2, Width - 1) < Power(10, MaxDigits)
    /\ FlushSize \in Nat \ {0}
    /\ MaxCalls \in Nat
    /\ \A f \in Formatters : IF f.kind \in IntKinds
                             THEN f \in [kind : IntKinds, value : Signed]
                             ELSE f \in [kind : {"str", "str0"}, value : Seq(0 .. 255)]
    /\ \A f \in Formatters : f.kind = "str0" => \E n \in DOMAIN f.value : f.value[n] = 0
    /\ \A fmt \in Formats : fmt \in Seq(0 .. 255)

VARIABLES
    formatters,
    pc,
    format, args,   \* of the call
    i,              \* the next byte of the format
    data,           \* what the block of sprint, the buffer of print holds
    size,           \* of the block of sprint
    writes,         \* of print: what was to be written and how much of it was
    made,           \* the formatters as they were made
    before,         \* places that earlier calls have used
    calls           \* how many calls there have been

call == <<format, args, size>>
history == <<made, before, calls>>
printVars == <<formatters, pc, call, i, data, writes, history>>

Unset == -1     \* a byte of a block that nothing has written

InitPrint ==
    /\ made \in [Slots -> Formatters]
    /\ formatters = made
    /\ pc = "idle"
    /\ format = << >> /\ args = << >> /\ size = 0
    /\ i = 1
    /\ data = << >>
    /\ writes = << >>
    /\ before = {}
    /\ calls = 0

----------------------------------------------------------------------------
\* Formatters.

AbsOf(value) == IF value < 0 THEN -value ELSE value

\* cut_format_int_digits_count.
DigitsCount(value) ==
    LET enough == {n \in 1 .. MaxDigits - 1 : AbsOf(value) < Power(10, n)}
    IN  IF enough = {} THEN MaxDigits ELSE Min(enough)

Sign(value) == IF value < 0 THEN <<Minus>> ELSE << >>

HexDigit(n) == IF n < 10 THEN Zero + n ELSE 55 + n

\* What the loop over the digits of a number leaves of it after some turns.
Left(number, base, turns) ==
    LET left[n \in 0 .. turns] == IF n = 0 THEN number ELSE left[n - 1] \div base
    IN  left[turns]

\* The loop writes the last digit first.
DigitsOf(number, base, count) ==
    [n \in 1 .. count |-> HexDigit(Left(number, base, count - n) % base)]

\* cut_format_int_count, cut_format_int_proc.
IntCount(value) == DigitsCount(value) + Len(Sign(value))
IntBytes(value) == Sign(value) \o DigitsOf(AbsOf(value), 10, DigitsCount(value))

\* cut_format_int_hex_count, cut_format_int_hex_proc: all digits, in two's complement.
HexCount == 2 + Width \div 4
HexBytes(value) == <<Zero, 120>> \o DigitsOf(value % Power(2, Width), 16, Width \div 4)

\* cut_format_str0_count, cut_format_str0_proc: up to the byte that ends the string.
UpToNull(str) == SubSeq(str, 1, Min({n \in DOMAIN str : str[n] = 0}) - 1)

\* Fault: the sign is not counted.
CountUnsigned(f) ==
    CASE f.kind = "int"  -> DigitsCount(f.value)
      [] f.kind = "hex"  -> HexCount
      [] f.kind = "str"  -> Len(f.value)
      [] f.kind = "str0" -> Len(UpToNull(f.value))

\* What the procedure count of a formatter answers.
Count(f) ==
    CASE f.kind = "int"  -> IntCount(f.value)
      [] f.kind = "hex"  -> HexCount
      [] f.kind = "str"  -> Len(f.value)
      [] f.kind = "str0" -> Len(UpToNull(f.value))

\* What its procedure proc writes.
Bytes(f) ==
    CASE f.kind = "int"  -> IntBytes(f.value)
      [] f.kind = "hex"  -> HexBytes(f.value)
      [] f.kind = "str"  -> f.value
      [] f.kind = "str0" -> UpToNull(f.value)

\* Writing an integer divides the formatter's own value, digit by digit.
Used(f) ==
    IF f.kind = "int"
    THEN [f EXCEPT !.value = (IF @ < 0 THEN -1 ELSE 1) * Left(AbsOf(@), 10, DigitsCount(@))]
    ELSE f

----------------------------------------------------------------------------
\* The parameter that belongs to a byte of a format.
Parameter(fmt, n) == Cardinality({m \in 1 .. n : fmt[m] = Percent})

Slot(n) == args[Parameter(format, n)]

IsParameter(n) == format[n] = Percent

\* The bytes that stand for one of the format.
Item(n) == IF IsParameter(n) THEN Bytes(formatters[Slot(n)]) ELSE <<format[n]>>

ItemCount(fmt, params, n) ==
    IF fmt[n] = Percent THEN Count(formatters[params[Parameter(fmt, n)]]) ELSE 1

\* The first loop of cut_sprint_v.
CountAll(fmt, params) ==
    LET count[n \in 0 .. Len(fmt)] == IF n = 0 THEN 0 ELSE count[n - 1] + ItemCount(fmt, params, n)
    IN  count[Len(fmt)]

ItemUsed(n) ==
    formatters' = IF IsParameter(n) THEN [formatters EXCEPT ![Slot(n)] = Used(@)] ELSE formatters

Begin(fmt, params) ==
    /\ pc = "idle"
    /\ calls < MaxCalls
    /\ Len(params) = Parameter(fmt, Len(fmt))
    /\ format' = fmt
    /\ args' = params
    /\ calls' = calls + 1
    /\ UNCHANGED <<formatters, i, data, writes, made, before>>

\* cut_sprint_v, up to the block.
SprintBegin(fmt, params) ==
    /\ Begin(fmt, params)
    /\ pc' = "sprint"
    /\ size' = CountAll(fmt, params)

\* One turn of its second loop.
SprintItem ==
    /\ pc = "sprint"
    /\ i <= Len(format)
    /\ data' = data \o Item(i)
    /\ ItemUsed(i)
    /\ i' = i + 1
    /\ UNCHANGED <<pc, call, writes, history>>

\* The block is given to the caller as it is.
SprintEnd ==
    /\ pc = "sprint"
    /\ i > Len(format)
    /\ data' = data \o [n \in 1 .. size - Len(data) |-> Unset]
    /\ pc' = "made"
    /\ UNCHANGED <<formatters, call, i, writes, history>>

\* cut_print, cut_print_v.
PrintBegin(fmt, params) ==
    /\ Begin(fmt, params)
    /\ pc' = "print"
    /\ UNCHANGED size

\* Nothing looks at how much of the buffer has been written.
Flush == \E got \in 0 .. Len(data) : writes' = Append(writes, [asked |-> data, got |-> got])

\* Fault: a buffer that the item fills is taken for one it does not fit in.
FullLate(count) == count > FlushSize + 1

Full(count) == count > FlushSize

\* One turn of the loop. An item longer than the buffer is written past its end.
PrintItem ==
    /\ pc = "print"
    /\ i <= Len(format)
    /\ IF Full(Len(data) + ItemCount(format, args, i))
       THEN Flush /\ data' = Item(i)
       ELSE UNCHANGED writes /\ data' = data \o Item(i)
    /\ pc' = IF Len(data') > FlushSize THEN "overrun" ELSE "print"
    /\ ItemUsed(i)
    /\ i' = i + 1
    /\ UNCHANGED <<call, history>>

PrintEnd ==
    /\ pc = "print"
    /\ i > Len(format)
    /\ IF data = << >> THEN UNCHANGED writes ELSE Flush
    /\ data' = << >>
    /\ pc' = "printed"
    /\ UNCHANGED <<formatters, call, i, history>>

\* The program is done with the text; the formatters stay.
CallEnd ==
    /\ pc' = "idle"
    /\ format' = << >> /\ args' = << >> /\ size' = 0
    /\ i' = 1
    /\ data' = << >>
    /\ writes' = << >>
    /\ before' = before \cup Range(args)
    /\ UNCHANGED <<formatters, made, calls>>

PrintNext ==
    \/ \E fmt \in Formats : \E params \in [1 .. Parameter(fmt, Len(fmt)) -> Slots] :
          SprintBegin(fmt, params) \/ PrintBegin(fmt, params)
    \/ SprintItem
    \/ SprintEnd
    \/ PrintItem
    \/ PrintEnd

----------------------------------------------------------------------------
\* What the properties compare with: the numerals of a number, most significant first.

Numeral(number, base) ==
    LET numeral[n \in 0 .. number] ==
            IF n < base THEN <<HexDigit(n)>> ELSE Append(numeral[n \div base], HexDigit(n % base))
    IN  numeral[number]

Padded(numeral, count) == [n \in 1 .. count - Len(numeral) |-> Zero] \o numeral

\* An integer is printed once: it is 0 for the later uses.
Meaning(n) ==
    LET number == Parameter(format, n)
        f      == made[args[number]]
        again  == args[number] \in before \cup {args[m] : m \in 1 .. number - 1}
    IN  CASE f.kind = "int" /\ again  -> <<Zero>>
          [] f.kind = "int" /\ ~again -> Sign(f.value) \o Numeral(AbsOf(f.value), 10)
          [] f.kind = "hex" ->
                <<Zero, 120>> \o Padded(Numeral(IF f.value < 0 THEN Power(2, Width) + f.value ELSE f.value,
                                                16), Width \div 4)
          [] f.kind = "str"  -> f.value
          [] f.kind = "str0" ->
                CHOOSE s \in Prefixes(f.value) : 0 \notin Range(s) /\ IsPrefix(Append(s, 0), f.value)

\* The text that the first n bytes of the format stand for.
TextUpTo(n) == FlattenSeq([m \in 1 .. n |-> IF IsParameter(m) THEN Meaning(m) ELSE <<format[m]>>])

\* An integer that is used twice in the same call.
UsedTwice ==
    \E m, n \in DOMAIN args : m < n /\ args[m] = args[n] /\ made[args[m]].kind = "int"
====
