---- MODULE LineServer ----
(***************************************************************************)
(* What how_to/network_tcp_server.c promises: it prints the lines that its *)
(* client sends, each once and in their order, up to the one that asks it  *)
(* to stop.  Nothing is promised once a line is longer than the server has *)
(* room for.                                                               *)
(***************************************************************************)
EXTENDS Naturals, Sequences, SequencesExt

CONSTANTS
    Line,
    Disconnect      \* the line that asks to stop

VARIABLES
    sent,       \* lines that the client has sent to their ends
    printed,
    fits,       \* whether all that was sent has room
    why         \* why the server has stopped

vars == <<sent, printed, fits, why>>

Init ==
    /\ sent = << >>
    /\ printed = << >>
    /\ fits = TRUE
    /\ why = "none"

\* The client goes on sending whether or not the server still runs.
Send ==
    /\ UNCHANGED <<printed, why>>
    /\ sent' \in Seq(Line)
    /\ IsPrefix(sent, sent')

\* All the lines up to the n-th are printed.
PrintTo(n) ==
    /\ why = "none"
    /\ \A m \in 1 .. n - 1 : sent[m] # Disconnect
    /\ printed' = SubSeq(sent, 1, n)
    /\ why' = IF sent[n] = Disconnect THEN "requested" ELSE "none"
    /\ UNCHANGED sent

\* The client has gone, and nothing that it has sent is missing.
HangUp ==
    /\ why = "none"
    /\ why' = "disconnected"
    /\ printed = sent
    /\ UNCHANGED <<sent, printed>>

\* A call of the system fails.
Fail ==
    /\ why = "none"
    /\ why' = "failed"
    /\ UNCHANGED <<sent, printed>>

\* The client sends a line that has no room.
Overflow == fits' = FALSE

Next ==
    \/ /\ fits /\ UNCHANGED fits
       /\ \/ Send
          \/ HangUp
          \/ Fail
          \/ \E n \in Len(printed) + 1 .. Len(sent) : PrintTo(n)
    \/ Overflow

Spec == Init /\ [][Next]_vars
====
