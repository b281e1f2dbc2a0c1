---- MODULE Chat ----
(***************************************************************************)
(* how_to/network_tcp_client.c and how_to/network_tcp_server.c: a client   *)
(* sends what is typed, a server cuts what it receives into lines and      *)
(* prints them, until a line asks it to stop.  Neither knows how the bytes *)
(* of the other are grouped.                                               *)
(***************************************************************************)
EXTENDS Network, SequencesExt

CONSTANTS
    LF, CR,         \* the bytes that end a line
    Disconnect,     \* "disconnect"
    LineSize,       \* size of the server's line (1024)
    ReceivedSize,   \* size of the server's receive buffer (256)
    InputSize,      \* size of the client's input (1024)
    Typed           \* what may be typed: sequences of bytes, none of them 0

ASSUME ChatAssumption ==
    /\ {LF, CR} \subseteq Byte /\ LF # CR
    /\ Disconnect \in Seq(Byte \ {LF, CR}) /\ Disconnect # << >>
    /\ LineSize \in Nat \ {0}
    /\ ReceivedSize \in Nat \ {0}
    /\ InputSize \in Nat /\ Len(Disconnect) + 2 < InputSize
    /\ Typed \subseteq Seq(Byte)

VARIABLES
    stdin,      \* what the client has not read yet
    client,     \* place of the client, the sockets it still closes, why it stops
    said,       \* history: the bytes the client has given to its socket
    server,     \* the same of the server
    cutter,     \* the server's line, what it has printed, disconnect_requested
    received    \* history: the bytes the server has received

clientVars == <<stdin, client, said>>
serverVars == <<server, cutter, received>>
vars == <<network, clientVars, serverVars>>

Init ==
    /\ NetworkInit
    /\ stdin \in Typed
    /\ client = [pc |-> "open", closing |-> << >>, why |-> "none"]
    /\ said = << >>
    /\ server = [pc |-> "open", closing |-> << >>, why |-> "none"]
    /\ cutter = [line |-> << >>, printed |-> << >>, requested |-> FALSE]
    /\ received = << >>

At(place)          == [pc |-> place, closing |-> << >>, why |-> "none"]
Leave(closing, why) == [pc |-> "closing", closing |-> closing, why |-> why]

\* Where a program that has the next of its sockets to close is then.
Closed(program) ==
    IF program.closing = << >> THEN [program EXCEPT !.pc = "stopped"]
                               ELSE [program EXCEPT !.closing = Tail(program.closing)]

CloseNext(program) ==
    /\ program.pc = "closing"
    /\ IF program.closing = << >> THEN UNCHANGED network ELSE SockClose(Head(program.closing))

----------------------------------------------------------------------------
\* The server.

ServerOpen(ok) ==
    /\ server.pc = "open"
    /\ SockOpen("listener", ok)
    /\ server' = IF ok THEN At("bind") ELSE Leave(<< >>, "failed")
    /\ UNCHANGED <<clientVars, cutter, received>>

ServerBind(ok) ==
    /\ server.pc = "bind"
    /\ SockBind(ok)
    /\ server' = IF ok THEN At("listen") ELSE Leave(<<"listener">>, "failed")
    /\ UNCHANGED <<clientVars, cutter, received>>

ServerListen(ok) ==
    /\ server.pc = "listen"
    /\ SockListen(ok)
    /\ server' = IF ok THEN At("accept") ELSE Leave(<<"listener">>, "failed")
    /\ UNCHANGED <<clientVars, cutter, received>>

ServerAccept(ok) ==
    /\ server.pc = "accept"
    /\ SockAccept(ok)
    /\ server' = IF ok THEN At("receive") ELSE Leave(<<"listener">>, "failed")
    /\ UNCHANGED <<clientVars, cutter, received>>

EndsInCR(line) == line # << >> /\ Last(line) = CR

\* A line without the one '\r' that may end it.
Stripped(line) == IF EndsInCR(line) THEN Front(line) ELSE line

\* Fault: the line is kept when it has been printed.
EndLineKeeping(c) ==
    [line      |-> c.line,
     printed   |-> Append(c.printed, Stripped(c.line)),
     requested |-> Stripped(c.line) = Disconnect]

\* Fault: the '\r' is taken off for printing only.
EndLineUnstripped(c) ==
    [line      |-> << >>,
     printed   |-> Append(c.printed, Stripped(c.line)),
     requested |-> c.line = Disconnect]

EndLine(c) ==
    [line      |-> << >>,
     printed   |-> Append(c.printed, Stripped(c.line)),
     requested |-> Stripped(c.line) = Disconnect]

\* A line that does not fit is dropped so far, with the byte that does not fit.
Lengthen(c, b) ==
    [c EXCEPT !.line = IF Len(c.line) < LineSize THEN Append(c.line, b) ELSE << >>]

\* One turn of the loop over what has been received, up to the line that asks to stop.
TakeByte(c, b) == IF c.requested THEN c ELSE IF b = LF THEN EndLine(c) ELSE Lengthen(c, b)

EndOfServer == <<"accepted", "listener">>

\* Fault: the end of the connection is taken for a message of no bytes.
ServerReceiveOn(n) ==
    /\ server.pc = "receive"
    /\ SockReceive(n)
    /\ LET bytes == SubSeq(stream, 1, n) IN
       /\ received' = received \o bytes
       /\ cutter' = FoldLeft(TakeByte, cutter, bytes)
       /\ server' = IF cutter'.requested THEN Leave(EndOfServer, "requested") ELSE server
    /\ UNCHANGED clientVars

\* Fault: the line begins afresh with each message.
ServerReceiveAfresh(n) ==
    /\ server.pc = "receive"
    /\ SockReceive(n)
    /\ LET bytes == SubSeq(stream, 1, n) IN
       /\ received' = received \o bytes
       /\ cutter' = FoldLeft(TakeByte, [cutter EXCEPT !.line = << >>], bytes)
       /\ server' = IF n = 0 THEN Leave(EndOfServer, "disconnected")
                    ELSE IF cutter'.requested THEN Leave(EndOfServer, "requested")
                    ELSE server
    /\ UNCHANGED clientVars

\* One turn of the while loop.
ServerReceive(n) ==
    /\ server.pc = "receive"
    /\ SockReceive(n)
    /\ LET bytes == SubSeq(stream, 1, n) IN
       /\ received' = received \o bytes
       /\ cutter' = FoldLeft(TakeByte, cutter, bytes)
       /\ server' = IF n = 0 THEN Leave(EndOfServer, "disconnected")
                    ELSE IF cutter'.requested THEN Leave(EndOfServer, "requested")
                    ELSE server
    /\ UNCHANGED clientVars

ServerReceiveFails ==
    /\ server.pc = "receive"
    /\ server' = Leave(EndOfServer, "failed")
    /\ UNCHANGED <<network, clientVars, cutter, received>>

ServerClose ==
    /\ CloseNext(server)
    /\ server' = Closed(server)
    /\ UNCHANGED <<clientVars, cutter, received>>

----------------------------------------------------------------------------
\* The client.

ClientOpen(ok) ==
    /\ client.pc = "open"
    /\ SockOpen("client", ok)
    /\ client' = IF ok THEN At("connect") ELSE Leave(<< >>, "failed")
    /\ UNCHANGED <<serverVars, stdin, said>>

ClientConnect(ok) ==
    /\ client.pc = "connect"
    /\ SockConnect(ok)
    /\ client' = IF ok THEN At("send") ELSE Leave(<<"client">>, "failed")
    /\ UNCHANGED <<serverVars, stdin, said>>

\* How many bytes fgets takes: to the end of the line, of the buffer or of what was typed.
FgetsCount(bytes) ==
    CHOOSE n \in 0 .. Len(bytes) :
        /\ n < InputSize
        /\ \A m \in 1 .. n - 1 : bytes[m] # LF
        /\ n = Len(bytes) \/ n = InputSize - 1 \/ (n > 0 /\ bytes[n] = LF)

\* The input without the '\n' and '\r' that end it is "disconnect".
AsksToStop(input) ==
    \E n \in 0 .. Len(input) :
        /\ SubSeq(input, 1, n) = Disconnect
        /\ \A m \in n + 1 .. Len(input) : input[m] \in {LF, CR}

\* One turn of the while loop: n of the bytes are sent.
ClientSend(n) ==
    /\ client.pc = "send"
    /\ stdin # << >>
    /\ LET input == SubSeq(stdin, 1, FgetsCount(stdin)) IN
       /\ SockSend(input, n)
       /\ said' = said \o SubSeq(input, 1, n)
       /\ stdin' = SubSeq(stdin, Len(input) + 1, Len(stdin))
       /\ client' = IF n < Len(input) THEN Leave(<<"client">>, "failed")
                    ELSE IF AsksToStop(input) THEN Leave(<<"client">>, "requested")
                    ELSE client
    /\ UNCHANGED serverVars

\* Nothing more is typed.
ClientEnd ==
    /\ client.pc = "send"
    /\ stdin = << >>
    /\ client' = Leave(<<"client">>, "end")
    /\ UNCHANGED <<network, serverVars, stdin, said>>

ClientClose ==
    /\ CloseNext(client)
    /\ client' = Closed(client)
    /\ UNCHANGED <<serverVars, stdin, said>>

\* What the programs do when nothing fails.
ServerRuns ==
    \/ ServerOpen(TRUE)
    \/ ServerBind(TRUE)
    \/ ServerListen(TRUE)
    \/ ServerAccept(TRUE)
    \/ \E n \in 0 .. ReceivedSize : ServerReceive(n)
    \/ ServerClose

ServerFails ==
    \/ ServerOpen(FALSE)
    \/ ServerBind(FALSE)
    \/ ServerListen(FALSE)
    \/ ServerAccept(FALSE)
    \/ ServerReceiveFails

ClientNext ==
    \/ \E ok \in BOOLEAN : ClientOpen(ok) \/ ClientConnect(ok)
    \/ \E n \in 0 .. InputSize - 1 : ClientSend(n)
    \/ ClientEnd
    \/ ClientClose

Next == ServerRuns \/ ServerFails \/ ClientNext

Spec == Init /\ [][Next]_vars

\* The server runs on until it has to wait for the client; a client that stops does so.
FairSpec == Spec /\ WF_vars(ServerRuns) /\ WF_vars(ClientClose)

----------------------------------------------------------------------------
\* Properties.

Program ==
    [pc      : {"open", "bind", "listen", "accept", "receive", "connect", "send", "closing",
                "stopped"},
     closing : {<< >>, <<"client">>, <<"listener">>, EndOfServer},
     why     : {"none", "failed", "disconnected", "requested", "end"}]

Cutters == [line : Seq(Byte), printed : Seq(Seq(Byte)), requested : BOOLEAN]

\* The variables have their types and the line is never longer than its array.
TypeOK ==
    /\ NetworkTypeOK
    /\ {stdin, said, received} \subseteq Seq(Byte)
    /\ {client, server} \subseteq Program
    /\ cutter \in Cutters /\ Len(cutter.line) <= LineSize

\* The lines of some bytes, as they would be cut with all of them at hand.
Ends(bytes) == {n \in DOMAIN bytes : bytes[n] = LF}

LineTo(bytes, end) == SubSeq(bytes, 1 + Max({n \in Ends(bytes) : n < end} \cup {0}), end - 1)

NthEnd(bytes, n) == CHOOSE end \in Ends(bytes) : Cardinality({m \in Ends(bytes) : m <= end}) = n

Lines(bytes) ==
    [n \in 1 .. Cardinality(Ends(bytes)) |-> Stripped(LineTo(bytes, NthEnd(bytes, n)))]

UpToStop(lines) ==
    LET stops == {n \in DOMAIN lines : lines[n] = Disconnect}
    IN  IF stops = {} THEN lines ELSE SubSeq(lines, 1, Min(stops))

\* Every line fits in the server's array, also one that has not ended.
LinesFit(bytes) ==
    \A n \in 1 .. Len(bytes) - LineSize : \E m \in n .. n + LineSize : bytes[m] = LF

\* However the bytes were grouped when they were sent and when they were received, the server
\* prints the lines that the client has sent, up to the one that asks it to stop; and all of
\* them, if it says that the client has disconnected.
PiecesDoNotMatter ==
    /\ LinesFit(received) => cutter.printed = UpToStop(Lines(received))
    /\ server.why = "disconnected" => received = said

Promised == INSTANCE LineServer WITH
    Line <- Seq(Byte), sent <- Lines(said), printed <- cutter.printed, fits <- LinesFit(said), why <- server.why

\* The two programs with all their calls are a client that sends lines and a server that prints each of
\* them once, in their order and none before it has been sent whole, stops at the one that asks it to, and
\* says that the client has gone only behind the last; whatever becomes of either of them.
ImplementsLineServer == Promised!Spec

\* A program that has stopped has closed its sockets, whichever call has failed.
SocketsAreClosed ==
    /\ server.pc = "stopped" => open \cap {"listener", "accepted"} = {}
    /\ client.pc = "stopped" => "client" \notin open

\* The client's last input was a line of its own.
LastInputIsLine ==
    \E n \in 1 .. Len(said) :
        /\ n = 1 \/ said[n - 1] = LF
        /\ SubSeq(said, n, Len(said)) \in {Disconnect \o <<LF>>, Disconnect \o <<CR, LF>>}

\* The two programs, which recognise "disconnect" in different ways, agree: the server is asked
\* to stop only by a client that stops for this reason, and such a client is understood, if
\* the request was a line.
AgreeOnTheEnd ==
    LinesFit(said) =>
        /\ server.why = "requested" => client.why = "requested"
        /\ (client.why = "requested" /\ LastInputIsLine) => server.why # "disconnected"

\* The server stops when the client it is connected with stops.
ServerStops ==
    (client.pc = "closing" /\ connection \in {"pending", "accepted"}) ~> server.pc = "stopped"
====
