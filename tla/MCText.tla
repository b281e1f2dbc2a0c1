---- MODULE MCText ----
\* Integers of 8 bits, a buffer of 5 bytes, and formats and strings with characters of one to four bytes.
EXTENDS Text

MCFormatters ==
    {[kind |-> "int", value |-> n] : n \in {-128, -10, 0, 9, 100}}
    \cup {[kind |-> "hex", value |-> n] : n \in {-1, 10}}
    \cup {[kind |-> "str", value |-> s] :
            s \in {<< >>, <<226, 130, 172>>, <<240, 159, 152, 128>>, <<97, 226, 130>>, <<97, 98, 99, 100, 101, 102>>}}
    \cup {[kind |-> "str0", value |-> <<194, 162, 0, 97, 0>>]}

MCFormats == {<<37>>, <<97, 37>>, <<37, 37>>, <<195, 169, 37, 98, 37>>, <<37, 37, 97>>, <<97, 98, 99, 100, 101, 102>>}
====
