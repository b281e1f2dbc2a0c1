---- MODULE MCChat ----
(***************************************************************************)
(* A small conversation for TLC: up to three bytes of any kind are typed,  *)
(* then nothing, or "ad", which asks to stop, on the same line or on the   *)
(* next.  The client's input takes four bytes, the server's line three,    *)
(* its receive buffer two.                                                 *)
(***************************************************************************)
EXTENDS Chat

CONSTANTS a, d

MCDisconnect == <<a, d>>

MCTyped ==
    LET any == UNION {[1 .. n -> Byte] : n \in 0 .. 3}
    IN  {first \o then : first \in any, then \in {<< >>, <<a, d, LF>>, <<LF, a, d, CR, LF>>}}
====
