------------------------------ MODULE ReadLine ------------------------------
(***************************************************************************)
(* The iterative line server tcpServer.c and its clients tcpClient.c.  A   *)
(* client sends each of its arguments with the terminating zero byte; TCP  *)
(* hands the bytes over in segments of any size; read_line puts the lines  *)
(* together again in a static buffer that outlives the call and the        *)
(* connection.  A byte is a pair <<connection, position in its stream>>.   *)
(***************************************************************************)
EXTENDS Integers, Sequences, FiniteSets

CONSTANTS
    Clients,      \* one connection each
    Streams,      \* what a client may send: [len, ends], ends the zero bytes' places
    MAX_MSG,      \* the size of rcv_msg and of main's line
    MaxOpen,      \* descriptors the process may have open beside the listening one
    None

(* A longer line would run over main's line[MAX_MSG]: out of the model.    *)
ASSUME StreamsAssumption ==
    /\ MAX_MSG \in Nat \ {0} /\ MaxOpen \in Nat \ {0} /\ None \notin Clients
    /\ IsFiniteSet(Clients)
    /\ \A s \in Streams : /\ s.len \in s.ends /\ s.ends \subseteq 1..s.len
                          /\ \A i \in 0..s.len-MAX_MSG : \E e \in s.ends : e \in i+1..i+MAX_MSG

VARIABLES
    stream,       \* the arguments each client was started with
    sent,         \* bytes of it the client has handed to TCP
    exited,       \* clients that have ended, normally or not
    sock,         \* how far each connection has got at the server
    open,         \* the connections whose descriptor the server has not closed
    spc, newSd,   \* the server: where it is, and the connection it serves
    rcv_ptr, rcv_msg, n,       \* the static variables of read_line
    line,         \* the bytes copied into main's line so far
    taken,        \* bytes recv has returned
    printed       \* lines main has printed, per connection

clientVars == <<stream, sent, exited>>
conns      == <<sock, open>>
buffer     == <<rcv_ptr, rcv_msg, n>>
readVars   == <<clientVars, conns, spc, newSd, buffer, line, taken, printed>>

IsEnd(b) == b[2] \in stream[b[1]].ends
Bytes(c, i, j) == [k \in 1..j-i+1 |-> <<c, i + k - 1>>]

ReadInit ==
    /\ stream \in [Clients -> Streams]
    /\ sent = [c \in Clients |-> 0] /\ exited = {}
    /\ sock = [c \in Clients |-> "idle"] /\ open = {}
    /\ spc = "accept" /\ newSd = None
    /\ rcv_ptr = 0 /\ rcv_msg = <<>> /\ n = 0 /\ line = <<>>
    /\ taken = [c \in Clients |-> 0] /\ printed = [c \in Clients |-> <<>>]

-----------------------------------------------------------------------------
(* tcpClient.c *)

Connect(c) ==
    /\ spc # "dead" /\ sock[c] = "idle" /\ c \notin exited
    /\ sock' = [sock EXCEPT ![c] = "backlog"]
    /\ UNCHANGED <<clientVars, open, spc, newSd, buffer, line, taken, printed>>

(* One argument with its zero byte. *)
SendArgument(c) ==
    /\ sock[c] # "idle" /\ c \notin exited /\ sent[c] < stream[c].len
    /\ \E e \in stream[c].ends :
          /\ e > sent[c] /\ \A f \in stream[c].ends : f > sent[c] => e <= f
          /\ sent' = [sent EXCEPT ![c] = e]
    /\ UNCHANGED <<stream, exited, conns, spc, newSd, buffer, line, taken, printed>>

(* The end of main after the last argument, or of a client that is killed; *)
(* the socket is closed by the exit.                                       *)
Exit(c) ==
    /\ sock[c] # "idle" /\ c \notin exited
    /\ exited' = exited \cup {c}
    /\ UNCHANGED <<stream, sent, conns, spc, newSd, buffer, line, taken, printed>>

-----------------------------------------------------------------------------
(* main of tcpServer.c *)

Accept(c) ==
    /\ spc = "accept" /\ sock[c] = "backlog" /\ Cardinality(open) < MaxOpen
    /\ sock' = [sock EXCEPT ![c] = "served"] /\ open' = open \cup {c}
    /\ newSd' = c /\ line' = <<>> /\ spc' = "read"
    /\ UNCHANGED <<clientVars, buffer, taken, printed>>

(* Descriptors that were never closed have used up the process's limit. *)
AcceptFails ==
    /\ spc = "accept" /\ Cardinality(open) >= MaxOpen
    /\ spc' = "dead"
    /\ UNCHANGED <<clientVars, conns, newSd, buffer, line, taken, printed>>

-----------------------------------------------------------------------------
(* read_line *)

Recv(k) ==
    /\ spc = "read" /\ rcv_ptr = 0
    /\ k <= sent[newSd] - taken[newSd]
    /\ rcv_msg' = Bytes(newSd, taken[newSd] + 1, taken[newSd] + k) /\ n' = k
    /\ taken' = [taken EXCEPT ![newSd] = @ + k]
    /\ spc' = "copy"
    /\ UNCHANGED <<clientVars, conns, newSd, rcv_ptr, line, printed>>

(* read_line returns ERROR and main goes back to accept.  Only the end of  *)
(* the connection closes the descriptor, a failed recv leaves it open.     *)
EndConnection(result, state, descriptors) ==
    /\ spc = "read" /\ rcv_ptr = 0
    /\ rcv_msg' = <<>> /\ n' = result
    /\ sock' = [sock EXCEPT ![newSd] = state] /\ open' = descriptors
    /\ newSd' = None /\ spc' = "accept"
    /\ UNCHANGED <<clientVars, rcv_ptr, line, taken, printed>>

AtEnd == spc = "read" /\ newSd \in exited /\ taken[newSd] = sent[newSd]
RecvEnd_open_bug == AtEnd /\ EndConnection(0, "ended", open)
RecvEnd   == AtEnd /\ EndConnection(0, "ended", open \ {newSd})
RecvError == EndConnection(-1, "failed", open)

(* A second line is still in the buffer. *)
Resume ==
    /\ spc = "read" /\ rcv_ptr > 0
    /\ spc' = "copy"
    /\ UNCHANGED <<clientVars, conns, newSd, buffer, line, taken, printed>>

(* Where the copying loop stops: at the next zero byte, or at n. *)
StopsAt(i) ==
    /\ i \in rcv_ptr..n
    /\ i < n => IsEnd(rcv_msg[i + 1])
    /\ \A j \in rcv_ptr..i-1 : ~IsEnd(rcv_msg[j + 1])

Copied(i) == line \o SubSeq(rcv_msg, rcv_ptr + 1, i)

Return(i) ==
    /\ printed' = [printed EXCEPT ![newSd] = Append(@, Copied(i))]
    /\ line' = <<>> /\ spc' = "read"

LastLine(i)  == i = n - 1 /\ Return(i) /\ rcv_ptr' = 0
MoreLines_bug(i) == i < n - 1 /\ Return(i) /\ rcv_ptr' = 0
MoreLines(i) == i < n - 1 /\ Return(i) /\ rcv_ptr' = i + 1
Unfinished(i) == i = n /\ line' = Copied(i) /\ rcv_ptr' = 0 /\ spc' = "read" /\ UNCHANGED printed

Copy ==
    /\ spc = "copy"
    /\ \E i \in 0..n : StopsAt(i) /\ (LastLine(i) \/ MoreLines(i) \/ Unfinished(i))
    /\ UNCHANGED <<clientVars, conns, newSd, rcv_msg, n, taken>>

-----------------------------------------------------------------------------
ReadServerStep ==
    \/ (\E c \in Clients : Accept(c)) \/ AcceptFails
    \/ (\E k \in 1..MAX_MSG : Recv(k)) \/ RecvEnd \/ Resume \/ Copy
ReadNext ==
    \/ ReadServerStep \/ RecvError
    \/ \E c \in Clients : Connect(c) \/ SendArgument(c) \/ Exit(c)
ReadSpec == ReadInit /\ [][ReadNext]_readVars

(* The server runs whenever it can; a client that has connected sends on   *)
(* or ends.                                                                *)
FairReadSpec ==
    /\ ReadSpec /\ WF_readVars(ReadServerStep)
    /\ \A c \in Clients : WF_readVars(SendArgument(c) \/ Exit(c))

-----------------------------------------------------------------------------
(* Bytes of a connection that have left the buffer. *)
InBuffer(c) == c = newSd /\ (spc = "copy" \/ rcv_ptr > 0)
Consumed(c) == taken[c] - (IF InBuffer(c) THEN n - rcv_ptr ELSE 0)

LineEndingAt(c, e) ==
    LET start == CHOOSE s \in 0..e-1 : /\ s \in {0} \cup stream[c].ends
                                       /\ stream[c].ends \cap s+1..e-1 = {}
    IN  Bytes(c, start + 1, e - 1)

(* However TCP cuts the stream and however many lines a segment holds, the *)
(* lines printed for a connection are exactly the terminated lines among   *)
(* the bytes its client sent, in order, none cut, joined, lost or repeated *)
(* and none with bytes of another connection.  The static buffer is empty  *)
(* whenever no connection is served, and main's line is never overrun.     *)
LinesExact ==
    /\ spc = "accept" => rcv_ptr = 0
    /\ Len(line) < MAX_MSG
    /\ \A c \in Clients :
        LET complete == stream[c].ends \cap 1..Consumed(c) IN
        /\ Len(printed[c]) = Cardinality(complete)
        /\ \A e \in complete :
              printed[c][Cardinality(complete \cap 1..e)] = LineEndingAt(c, e)

(* Only failed recvs leave a descriptor open, and the server ends only     *)
(* when they have used up all of them.                                     *)
OnlyFailuresLeak ==
    /\ \A c \in open : c = newSd \/ sock[c] = "failed"
    /\ spc = "dead" => Cardinality({c \in Clients : sock[c] = "failed"}) = MaxOpen

(* Every connection has ended with all the lines its client sent printed,  *)
(* unless it failed or the server has died of leaks.                       *)
EveryLinePrinted ==
    \A c \in Clients :
        \/ spc = "dead" \/ sock[c] \in {"idle", "failed"}
        \/ /\ sock[c] = "ended"
           /\ Len(printed[c]) = Cardinality(stream[c].ends \cap 1..sent[c])
=============================================================================
