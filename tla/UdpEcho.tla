------------------------------ MODULE UdpEcho ------------------------------
(***************************************************************************)
(* The datagram echo of Exp05_UDP_Sockets: udp_server.c answers every      *)
(* datagram to its sender and stops on "exit"; udp_client.c sends its      *)
(* messages one by one and waits up to three seconds for each answer.  It  *)
(* takes whatever datagram comes first for the answer.  The network loses, *)
(* delays, reorders and duplicates datagrams.                              *)
(***************************************************************************)
EXTENDS Integers, Sequences

CONSTANTS
    UdpClients,
    UdpScripts,    \* what a client may send: sequences of "text" and "exit"
    MaxDups        \* a bound on the datagrams the network duplicates

ASSUME UdpAssumption ==
    /\ MaxDups \in Nat
    /\ \A s \in UdpScripts : s \in Seq({"text", "exit"}) /\ s # <<>>

VARIABLES
    messages,      \* each client's messages
    ucl,           \* each client: "send", "wait" in recvfrom, or "done"
    at,            \* the message it is at
    shown,         \* per message: the message the printed answer was for; 0 after a time-out
    userver,       \* the server: "receive", "stopped", or "error" after a failed recvfrom
    net,           \* datagrams under way: <<direction, client, message>>
    dups, lost     \* what the network has done so far

clientSide == <<ucl, at, shown>>
udpVars    == <<messages, clientSide, userver, net, dups, lost>>

UdpInit ==
    /\ messages \in [UdpClients -> UdpScripts]
    /\ ucl = [c \in UdpClients |-> "send"] /\ at = [c \in UdpClients |-> 1]
    /\ shown = [c \in UdpClients |-> <<>>]
    /\ userver = "receive" /\ net = {} /\ dups = 0 /\ lost = FALSE

-----------------------------------------------------------------------------
(* The network.  A datagram that is received may stay: it was duplicated.  *)

Deliver(m, sent) ==
    /\ m \in net
    /\ \/ net' = (net \ {m}) \cup sent /\ dups' = dups
       \/ dups < MaxDups /\ net' = net \cup sent /\ dups' = dups + 1
    /\ UNCHANGED <<messages, lost>>

Lose(m) ==
    /\ m \in net
    /\ net' = net \ {m} /\ lost' = TRUE
    /\ UNCHANGED <<messages, clientSide, userver, dups>>

-----------------------------------------------------------------------------
(* udp_client.c *)

UdpSend(c) ==
    /\ ucl[c] = "send"
    /\ ucl' = [ucl EXCEPT ![c] = "wait"]
    /\ net' = net \cup {<<"request", c, at[c]>>}
    /\ UNCHANGED <<messages, at, shown, userver, dups, lost>>

(* After its last message the client closes its socket. *)
Proceed(c, j, last) ==
    /\ ucl[c] = "wait"
    /\ shown' = [shown EXCEPT ![c] = Append(@, j)]
    /\ at' = [at EXCEPT ![c] = @ + 1]
    /\ ucl' = [ucl EXCEPT ![c] = IF at[c] = last THEN "done" ELSE "send"]
    /\ UNCHANGED userver
Answered(c, j) == Proceed(c, j, Len(messages[c]))

UdpRecv(c, j) == Deliver(<<"reply", c, j>>, {}) /\ Answered(c, j)

(* recvfrom fails after SO_RCVTIMEO. *)
UdpTimeout_bug(c) == ucl[c] = "wait" /\ UNCHANGED udpVars
UdpTimeout(c) == Answered(c, 0) /\ UNCHANGED <<messages, net, dups, lost>>

-----------------------------------------------------------------------------
(* udp_server.c *)

Stops(c, i) == messages[c][i] = "exit"

Serve(c, i, to) ==
    /\ userver = "receive"
    /\ Deliver(<<"request", c, i>>, {<<"reply", d, i>> : d \in to})
    /\ userver' = IF Stops(c, i) THEN "stopped" ELSE "receive"
    /\ UNCHANGED clientSide

UdpServe_stale_bug(c, i) == \E d \in UdpClients : Serve(c, i, {d})
UdpServe(c, i) == Serve(c, i, {c})

UdpServerError ==
    /\ userver = "receive" /\ userver' = "error"
    /\ UNCHANGED <<messages, clientSide, net, dups, lost>>

-----------------------------------------------------------------------------
UdpServerStep == \E m \in net : m[1] = "request" /\ UdpServe(m[2], m[3])
UdpClientStep(c) ==
    UdpSend(c) \/ UdpTimeout(c) \/ \E m \in net : m[2] = c /\ UdpRecv(c, m[3])
UdpNext ==
    \/ UdpServerStep \/ UdpServerError
    \/ (\E c \in UdpClients : UdpClientStep(c))
    \/ \E m \in net : Lose(m)
UdpSpec == UdpInit /\ [][UdpNext]_udpVars
FairUdpSpec ==
    /\ UdpSpec /\ WF_udpVars(UdpServerStep)
    /\ \A c \in UdpClients : WF_udpVars(UdpClientStep(c))

-----------------------------------------------------------------------------
(* What a client prints as the answer answers a message it has sent, an    *)
(* earlier one only if it had given up on one before or the network        *)
(* duplicated a datagram, and no message is answered twice otherwise.      *)
AnswersBelong ==
    \A c \in UdpClients : \A k \in 1..Len(shown[c]) :
        LET j == shown[c][k] IN
        j # 0 =>
            /\ j <= k
            /\ j # k /\ dups = 0 => \E i \in 1..k-1 : shown[c][i] = 0
            /\ dups = 0 => \A i \in 1..k-1 : shown[c][i] # j

(* Every client has ended, whatever the network and the server did; and on  *)
(* a network that loses nothing the "exit" of a client has stopped the     *)
(* server, also when it came late and the client had long given up.        *)
UdpEnded ==
    /\ \A c \in UdpClients : ucl[c] = "done"
    /\ ~lost /\ userver # "error" /\ (\E c \in UdpClients : \E i \in 1..Len(messages[c]) : Stops(c, i))
        => userver = "stopped"
=============================================================================
