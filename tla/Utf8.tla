---- MODULE Utf8 ----
(***************************************************************************)
(* utf8.c: lengths and code points of characters. A character is a sequence*)
(* of bytes, as far as they are there to be read.                          *)
(***************************************************************************)
EXTENDS Integers, Sequences

Byte == 0 .. 255

\* cut_utf8_char_len.
CharLen(first) ==
    IF first <= 127 THEN 1
    ELSE IF first <= 223 THEN 2
    ELSE IF first <= 239 THEN 3
    ELSE 4

\* What a byte behind the first adds, with a mask for its last 6 bits.
Low(byte) == byte % 64

\* Fault: the bits of a character of four bytes are those of one of three.
CodepointShort(c) ==
    IF c[1] <= 127 THEN c[1]
    ELSE IF c[1] <= 223 THEN (c[1] % 32) * 64 + Low(c[2])
    ELSE (c[1] % 16) * 4096 + Low(c[2]) * 64 + Low(c[3])

\* cut_utf8_char_codepoint.
Codepoint(c) ==
    IF c[1] <= 127 THEN c[1]
    ELSE IF c[1] <= 223 THEN (c[1] % 32) * 64 + Low(c[2])
    ELSE IF c[1] <= 239 THEN (c[1] % 16) * 4096 + Low(c[2]) * 64 + Low(c[3])
    ELSE (c[1] % 8) * 262144 + Low(c[2]) * 4096 + Low(c[3]) * 64 + Low(c[4])

\* cut_utf8_str_len: a character that the string cuts counts for one.
StrLen(str) ==
    LET count[i \in 1 .. Len(str) + 4] == IF i > Len(str) THEN 0 ELSE 1 + count[i + CharLen(str[i])]
    IN  count[1]

----------------------------------------------------------------------------
(***************************************************************************)
(* What these are compared with: the syntax that the comment in utf8.c     *)
(* quotes from RFC 3629, and its encoding of a code point.                 *)
(***************************************************************************)
Within(byte, first, last) == first <= byte /\ byte <= last
IsTail(byte) == Within(byte, 128, 191)

OneByte   == {c \in Seq(Byte) : Len(c) = 1 /\ Within(c[1], 0, 127)}
TwoBytes  == {c \in Seq(Byte) : Len(c) = 2 /\ Within(c[1], 194, 223) /\ IsTail(c[2])}
ThreeBytes ==
    {c \in Seq(Byte) :
        /\ Len(c) = 3
        /\ Within(c[1], 224, 239)
        /\ Within(c[2], IF c[1] = 224 THEN 160 ELSE 128, IF c[1] = 237 THEN 159 ELSE 191)
        /\ IsTail(c[3])}
FourBytes ==
    {c \in Seq(Byte) :
        /\ Len(c) = 4
        /\ Within(c[1], 240, 244)
        /\ Within(c[2], IF c[1] = 240 THEN 144 ELSE 128, IF c[1] = 244 THEN 143 ELSE 191)
        /\ IsTail(c[3])
        /\ IsTail(c[4])}

Character == OneByte \cup TwoBytes \cup ThreeBytes \cup FourBytes

\* Unicode scalar values: without the halves of surrogate pairs.
Scalar == (0 .. 55295) \cup (57344 .. 1114111)

Encode(scalar) ==
    IF scalar <= 127 THEN <<scalar>>
    ELSE IF scalar <= 2047 THEN <<192 + scalar \div 64, 128 + Low(scalar)>>
    ELSE IF scalar <= 65535 THEN
            <<224 + scalar \div 4096, 128 + Low(scalar \div 64), 128 + Low(scalar)>>
    ELSE <<240 + scalar \div 262144, 128 + Low(scalar \div 4096),
           128 + Low(scalar \div 64), 128 + Low(scalar)>>

\* A string of whole characters.
IsText(str) ==
    LET text[i \in 1 .. Len(str) + 1] ==
            i > Len(str) \/ \E n \in i .. Len(str) : SubSeq(str, i, n) \in Character /\ text[n + 1]
    IN  text[1]
====
