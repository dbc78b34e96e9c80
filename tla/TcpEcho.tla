------------------------------ MODULE TcpEcho ------------------------------
(***************************************************************************)
(* The stream echo of Exp04_TCP_Sockets: tcp_server.c accepts one client,  *)
(* answers whatever one recv returns and stops on "exit" or at the end of  *)
(* the stream; tcp_client.c sends a message and takes what one recv        *)
(* returns for its answer.  The streams keep the order of the bytes, not   *)
(* the bounds of messages.  A byte is <<message, place in it>>, a byte of  *)
(* an answer <<answer, place in it>>.                                      *)
(***************************************************************************)
EXTENDS Integers, Sequences

CONSTANTS
    TcpScripts,    \* what the client may send: sequences of [size, exit]
    AnswerSize     \* the bytes of an answer

ASSUME TcpAssumption ==
    /\ AnswerSize \in Nat \ {0}
    /\ \A s \in TcpScripts : s \in Seq([size : Nat, exit : BOOLEAN]) /\ s # <<>>

VARIABLES
    script,        \* the client's messages
    tcl, msg,      \* the client: "start", "send", "recv" or "done"; its message
    got,           \* what it printed as the answer to each message
    tserver,       \* the server: "accept", "recv" or "stopped"
    toServer, toClient,   \* bytes under way
    served,        \* answers the server has sent
    cut            \* whether a recv returned anything but one whole message or answer

tcpVars == <<script, tcl, msg, got, tserver, toServer, toClient, served, cut>>

TcpInit ==
    /\ script \in TcpScripts
    /\ tcl = "start" /\ msg = 1 /\ got = <<>> /\ tserver = "accept"
    /\ toServer = <<>> /\ toClient = <<>> /\ served = 0 /\ cut = FALSE

Message(i, size) == [p \in 1..size |-> <<i, p>>]
IsOne(bytes, i, size) == bytes = Message(i, size)

(* recv returns what has arrived so far: at least one byte, in order. *)
Take(stream, k) == SubSeq(stream, 1, k)
Rest(stream, k) == SubSeq(stream, k + 1, Len(stream))

-----------------------------------------------------------------------------
(* tcp_client.c *)

TcpConnect ==
    /\ tcl = "start" /\ tcl' = "send"
    /\ UNCHANGED <<script, msg, got, tserver, toServer, toClient, served, cut>>

TcpSend ==
    /\ tcl = "send" /\ tcl' = "recv"
    /\ toServer' = IF tserver = "stopped" THEN toServer
                   ELSE toServer \o Message(msg, script[msg].size)
    /\ UNCHANGED <<script, msg, got, tserver, toClient, served, cut>>

GoOn(answer) ==
    /\ got' = Append(got, answer)
    /\ msg' = msg + 1
    /\ tcl' = IF msg = Len(script) THEN "done" ELSE "send"

TcpRecv(k) ==
    /\ tcl = "recv" /\ k <= Len(toClient)
    /\ GoOn(Take(toClient, k)) /\ toClient' = Rest(toClient, k)
    /\ cut' = (cut \/ ~IsOne(Take(toClient, k), toClient[1][1], AnswerSize))
    /\ UNCHANGED <<script, tserver, toServer, served>>

(* The server has closed; with bytes unread that resets the connection and *)
(* may cost the client what is under way.  A client run with a message     *)
(* ignores the end and goes on, the interactive one ends.                  *)
TcpRecvEnd ==
    /\ tcl = "recv" /\ tserver = "stopped" /\ (toClient = <<>> \/ toServer # <<>>)
    /\ \/ GoOn(<<>>)
       \/ tcl' = "done" /\ UNCHANGED <<msg, got>>
    /\ UNCHANGED <<script, tserver, toServer, toClient, served, cut>>

-----------------------------------------------------------------------------
(* tcp_server.c *)

TcpAccept ==
    /\ tserver = "accept" /\ tcl # "start"
    /\ tserver' = "recv"
    /\ UNCHANGED <<script, tcl, msg, got, toServer, toClient, served, cut>>

(* The whole text that one recv returned is compared with "exit". *)
IsExit(bytes) == \E i \in 1..Len(script) : script[i].exit /\ IsOne(bytes, i, script[i].size)

Answer(k, reply, next) ==
    /\ tserver = "recv" /\ k <= Len(toServer)
    /\ toServer' = Rest(toServer, k)
    /\ toClient' = IF tcl = "done" THEN toClient ELSE toClient \o reply
    /\ served' = served + 1
    /\ cut' = (cut \/ ~IsOne(Take(toServer, k), toServer[1][1], script[toServer[1][1]].size))
    /\ tserver' = next
    /\ UNCHANGED <<script, tcl, msg, got>>

NextPlace(k) == IF IsExit(Take(toServer, k)) THEN "stopped" ELSE "recv"
Reply == Message(served + 1, AnswerSize)
TcpAnswer_bug(k) == Answer(k, IF NextPlace(k) = "recv" THEN Reply ELSE Reply \o Reply, "recv")
TcpAnswer(k) == Answer(k, Reply, NextPlace(k))

TcpServerEnd ==
    /\ tserver = "recv" /\ toServer = <<>> /\ tcl = "done"
    /\ tserver' = "stopped"
    /\ UNCHANGED <<script, tcl, msg, got, toServer, toClient, served, cut>>

-----------------------------------------------------------------------------
TcpClientStep == TcpConnect \/ TcpSend \/ (\E k \in 1..Len(toClient) : TcpRecv(k)) \/ TcpRecvEnd
TcpServerStep == TcpAccept \/ (\E k \in 1..Len(toServer) : TcpAnswer(k)) \/ TcpServerEnd
TcpNext == TcpClientStep \/ TcpServerStep
TcpSpec == TcpInit /\ [][TcpNext]_tcpVars
FairTcpSpec == TcpSpec /\ WF_tcpVars(TcpClientStep) /\ WF_tcpVars(TcpServerStep)

-----------------------------------------------------------------------------
(* As long as every recv returns one whole message, which TCP does not     *)
(* promise, each answer printed is the answer to the message just sent.    *)
InStep ==
    ~cut => /\ \A i \in 1..Len(got) : got[i] \in {Message(i, AnswerSize), <<>>}
            /\ tcl = "send" => toServer = <<>> /\ toClient = <<>>

(* However the streams are cut, client and server have both ended, unless  *)
(* the client was given an empty message: then each waits for the other.   *)
TcpEnded ==
    (\A i \in 1..Len(script) : script[i].size > 0) => tcl = "done" /\ tserver = "stopped"
=============================================================================
