---- MODULE Network ----
(***************************************************************************)
(* network.c: the sockets of a TCP connection and the calls on them.  Each *)
(* call is the whole procedure; whether the system lets it succeed is a    *)
(* parameter, and what the caller does then is the caller's.  There are    *)
(* three sockets: the one a server listens with, the one accept gives it   *)
(* and the one of a client.  Bytes go from the client to the server.       *)
(***************************************************************************)
EXTENDS Integers, Sequences

CONSTANTS Byte

Sockets == {"listener", "accepted", "client"}

VARIABLES
    open,       \* the sockets that are open
    listening,  \* the system takes connections for the listener
    connection, \* what has become of the client's connection
    stream      \* bytes on their way to the server

network == <<open, listening, connection, stream>>

NetworkInit ==
    /\ open = {}
    /\ listening = FALSE
    /\ connection = "none"
    /\ stream = << >>

NetworkTypeOK ==
    /\ open \subseteq Sockets
    /\ listening \in BOOLEAN
    /\ connection \in {"none", "pending", "accepted", "closed"}
    /\ stream \in Seq(Byte)

\* cut_sock_open.
SockOpen(s, ok) ==
    /\ open' = IF ok THEN open \cup {s} ELSE open
    /\ UNCHANGED <<listening, connection, stream>>

\* cut_sock_bind and cut_sock_listen of a listener.  The endpoint is valid: the conversion
\* does not fail.
SockBind(ok) == ok \in BOOLEAN /\ UNCHANGED network

SockListen(ok) == listening' = ok /\ UNCHANGED <<open, connection, stream>>

\* cut_sock_connect: the system may take the connection before the server accepts it.
SockConnect(ok) ==
    /\ ok => listening
    /\ connection' = IF ok THEN "pending" ELSE connection
    /\ UNCHANGED <<open, listening, stream>>

\* Fault: the socket stays open although the caller is told that there is none.
SockAcceptUnclosed(ok) ==
    \/ ~ok /\ UNCHANGED network
    \/ /\ connection = "pending"
       /\ connection' = "accepted"
       /\ open' = open \cup {"accepted"}
       /\ UNCHANGED <<listening, stream>>

\* cut_sock_accept.  It waits for a connection, fails, or closes the socket again because the
\* address of the peer is of neither family.
SockAccept(ok) ==
    \/ ~ok /\ UNCHANGED network
    \/ /\ connection = "pending"
       /\ connection' = IF ok THEN "accepted" ELSE "closed"
       /\ open' = IF ok THEN open \cup {"accepted"} ELSE open
       /\ UNCHANGED <<listening, stream>>

\* cut_sock_receive of n bytes.  It waits for bytes; there are 0 when the peer has closed its
\* end and all of them have been received.
SockReceive(n) ==
    /\ n <= Len(stream)
    /\ n = 0 => stream = << >> /\ "client" \notin open
    /\ stream' = SubSeq(stream, n + 1, Len(stream))
    /\ UNCHANGED <<open, listening, connection>>

\* cut_sock_send: n of the bytes are sent, and the call answers whether these are all.  Nothing
\* tells the client at once that the server has gone; the bytes are then lost.
SockSend(bytes, n) ==
    /\ n <= Len(bytes)
    /\ stream' = IF connection = "closed" THEN stream ELSE stream \o SubSeq(bytes, 1, n)
    /\ UNCHANGED <<open, listening, connection>>

\* cut_sock_close.  What a client has sent can still be received; a server that closes ends
\* the connection, and with the listener those that wait for it.
SockClose(s) ==
    /\ open' = open \ {s}
    /\ listening' = (listening /\ s # "listener")
    /\ connection' = IF \/ s = "accepted"
                        \/ s = "listener" /\ connection = "pending"
                     THEN "closed" ELSE connection
    /\ UNCHANGED stream
====
