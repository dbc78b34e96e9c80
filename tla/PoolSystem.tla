----------------------------- MODULE PoolSystem -----------------------------
(***************************************************************************)
(* The client pool of client.c against the thread-pool server of server.c, *)
(* with the kernel's accept backlog between them.  Client i opens          *)
(* connection i.  A connect waits while the backlog is full, fails once    *)
(* the server has stopped listening and, where Timeouts allows, fails by   *)
(* timing out on a full backlog.                                           *)
(***************************************************************************)
EXTENDS Server, ClientPool

CONSTANT Timeouts      \* whether a connect may time out

ASSUME SystemAssumption == Conns = Clients /\ Timeouts \in BOOLEAN

systemVars == <<vars, poolVars>>

SystemInit == Init /\ PoolInit

(* The server's end is gone without a reply: closed by a worker, reset in  *)
(* the backlog with the listening socket, or ended with the process.       *)
Answered(i) == \E w \in Workers : <<w, i>> \in answers
ServerEnded(i) ==
    \/ sock[i] = "closed" \/ pc[Main] = "done"
    \/ sock[i] = "backlog" /\ ~KernelListening

Connect(i) == ConnectOk(i) /\ ClientConnect(i)
ConnectRefused(i) ==
    /\ \/ ~KernelListening
       \/ Timeouts /\ Cardinality(InBacklog) >= Backlog
    /\ ConnectFails(i) /\ UNCHANGED vars
Request(i)   == SendOk(i) /\ ClientSend(i)
SendError(i) == ServerEnded(i) /\ SendFails(i) /\ UNCHANGED vars
Reply(i)     == Answered(i) /\ RecvReply(i) /\ UNCHANGED vars
NoReply(i)   == ~Answered(i) /\ ServerEnded(i) /\ RecvNothing(i) /\ UNCHANGED vars
Finish(i)    == CloseSocket(i) /\ ClientClose(i)

(* exit() in the pool's main closes every socket it had opened. *)
ProcessExit(i) == cmain = "failed" /\ ClientClose(i) /\ UNCHANGED poolVars

ClientSystemStep(i) ==
    \/ Connect(i) \/ ConnectRefused(i) \/ Request(i) \/ SendError(i)
    \/ Reply(i) \/ NoReply(i) \/ Finish(i) \/ ProcessExit(i)
    \/ LocalStep(i) /\ UNCHANGED vars
PoolMainStep == (MainSteps \/ Announce) /\ UNCHANGED vars

SystemNext ==
    \/ ServerStep /\ UNCHANGED poolVars
    \/ PoolMainStep
    \/ \E i \in Clients : ClientSystemStep(i)
SystemSpec == SystemInit /\ [][SystemNext]_systemVars

(* Nothing but fairness of the two processes' threads is assumed: in       *)
(* particular nothing about when a client sends, which is now modelled.    *)
FairSystemSpec ==
    /\ SystemSpec /\ ServerFairness
    /\ WF_systemVars((Create \/ JoinAll \/ Announce) /\ UNCHANGED vars)
    /\ \A i \in Clients : WF_systemVars(ClientSystemStep(i))

-----------------------------------------------------------------------------
(* "Server closed connection unexpectedly", and any other end without a    *)
(* reply, happens to a connected client only once the server is stopping.  *)
NoReplyOnlyAtShutdown ==
    server_running /\ cmain # "failed" =>
        \A i \in connected : cpc[i] \in {"close", "done"} => i \in replied

(* A reply a client has read was sent by exactly one worker, after the     *)
(* client sent its request.                                                *)
ReplyIsGenuine ==
    \A i \in replied : i \in requests /\ \E w \in Workers :
        answers \cap (Workers \X {i}) = {<<w, i>>}

(* Server and pool hold at most this many connections without one reply:   *)
(* workers in recv, the ring, the one main waits to push, the backlog.     *)
HoldingCapacity == Cardinality(Workers) + QueueSize + 1 + Backlog

(* If no connect fails, the whole pool is served and returns.  It holds for *)
(* PoolSize <= HoldingCapacity and for no larger pool: beyond it the        *)
(* connected clients wait at the barrier for one that cannot connect, and   *)
(* the workers wait in recv for the connected ones.                         *)
NoConnectFails == \A i \in Clients : cpc[i] = "done" => i \in connected
PoolServed == []NoConnectFails => <>(cmain \in {"done", "failed"})
=============================================================================
