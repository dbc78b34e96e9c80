----------------------------- MODULE ClientPool -----------------------------
(***************************************************************************)
(* The client pool of "Assements 2/Problem_A/client.c": main starts one    *)
(* thread per client and joins them; each thread connects, meets the       *)
(* others at two barriers, sends one request, reads one reply and closes.  *)
(* The server is an environment here: a connect may succeed or fail, a     *)
(* reply may come or the connection may end.  PoolSystem composes it with  *)
(* Server.                                                                 *)
(***************************************************************************)
EXTENDS Integers, FiniteSets

CONSTANT PoolSize
Clients == 1..PoolSize
Pooled  == PoolSize > 1       \* the barriers exist only in a pool

ASSUME PoolSizeAssumption == PoolSize \in Nat \ {0}

VARIABLES
    cmain,       \* main(): "create", "join", "done", or "failed" after exit()
    created,     \* threads created so far
    cpc,         \* per client: its place in client_worker
    connected,   \* clients whose connect succeeded
    at_connect, at_send,   \* clients that have entered each barrier
    announced,   \* client 1 has printed "All %d clients connected"
    replied      \* clients that have printed a server response

poolVars == <<cmain, created, cpc, connected, at_connect, at_send, announced, replied>>

PoolInit ==
    /\ cmain = "create" /\ created = 0
    /\ cpc = [i \in Clients |-> "unborn"]
    /\ connected = {} /\ at_connect = {} /\ at_send = {}
    /\ announced = FALSE /\ replied = {}

Alive(i, place) == cmain \in {"create", "join"} /\ cpc[i] = place
Step(i, from, to) == Alive(i, from) /\ cpc' = [cpc EXCEPT ![i] = to]

(* main: pthread_create in a loop, exit() if one fails, then pthread_join. *)
StartThread(last) ==
    /\ cmain = "create"
    /\ created' = created + 1 /\ cpc' = [cpc EXCEPT ![created + 1] = "connect"]
    /\ cmain' = IF last THEN "join" ELSE "create"
    /\ UNCHANGED <<connected, at_connect, at_send, announced, replied>>

Create == StartThread(created' = PoolSize)

CreateFails ==
    /\ Pooled /\ cmain = "create" /\ cmain' = "failed"
    /\ UNCHANGED <<created, cpc, connected, at_connect, at_send, announced, replied>>

JoinAll ==
    /\ cmain = "join" /\ \A i \in Clients : cpc[i] = "done"
    /\ cmain' = "done"
    /\ UNCHANGED <<created, cpc, connected, at_connect, at_send, announced, replied>>

(* client_worker: a socket, a host name or a connect that fails returns    *)
(* before the barriers.                                                    *)
ConnectOk(i) ==
    /\ Step(i, "connect", IF Pooled THEN "connected" ELSE "send")
    /\ connected' = connected \cup {i}
    /\ UNCHANGED <<cmain, created, at_connect, at_send, announced, replied>>

ConnectFails(i) ==
    /\ Step(i, "connect", "done")
    /\ UNCHANGED <<cmain, created, connected, at_connect, at_send, announced, replied>>

(* pthread_barrier_wait: enter, and leave once pool_size threads have.     *)
(* Client 1 prints between the two barriers.                               *)
EnterConnectBarrier(i) ==
    /\ Step(i, "connected", "wait_connect")
    /\ at_connect' = at_connect \cup {i}
    /\ UNCHANGED <<cmain, created, connected, at_send, announced, replied>>

PassConnectBarrier(i) ==
    /\ Step(i, "wait_connect", "together")
    /\ UNCHANGED <<cmain, created, connected, at_connect, at_send, announced, replied>>

(* The barrier is initialised for one thread too few. *)
LeaveConnectBarrier_bug(i) == Cardinality(at_connect) >= PoolSize - 1 /\ PassConnectBarrier(i)
LeaveConnectBarrier(i)     == at_connect = Clients /\ PassConnectBarrier(i)

Announce ==
    /\ Step(1, "together", "announced") /\ announced' = TRUE
    /\ UNCHANGED <<cmain, created, connected, at_connect, at_send, replied>>

EnterSendBarrier(i) ==
    /\ Step(i, IF i = 1 THEN "announced" ELSE "together", "wait_send")
    /\ at_send' = at_send \cup {i}
    /\ UNCHANGED <<cmain, created, connected, at_connect, announced, replied>>

(* The second barrier is missing. *)
LeaveSendBarrier_bug(i) ==
    /\ Step(i, "wait_send", "send")
    /\ UNCHANGED <<cmain, created, connected, at_connect, at_send, announced, replied>>
LeaveSendBarrier(i) == at_send = Clients /\ LeaveSendBarrier_bug(i)

SendOk(i) ==
    /\ Step(i, "send", "recv")
    /\ UNCHANGED <<cmain, created, connected, at_connect, at_send, announced, replied>>

(* A send or a recv that fails closes and returns, as a lost connection does. *)
SendFails(i) ==
    /\ Step(i, "send", "close")
    /\ UNCHANGED <<cmain, created, connected, at_connect, at_send, announced, replied>>

RecvReply(i) ==
    /\ Step(i, "recv", "close") /\ replied' = replied \cup {i}
    /\ UNCHANGED <<cmain, created, connected, at_connect, at_send, announced>>

RecvNothing(i) ==
    /\ Step(i, "recv", "close")
    /\ UNCHANGED <<cmain, created, connected, at_connect, at_send, announced, replied>>

CloseSocket(i) ==
    /\ Step(i, "close", "done")
    /\ UNCHANGED <<cmain, created, connected, at_connect, at_send, announced, replied>>

-----------------------------------------------------------------------------
(* The steps that need no answer from the server. *)
MainSteps == Create \/ CreateFails \/ JoinAll
LocalStep(i) ==
    \/ EnterConnectBarrier(i) \/ LeaveConnectBarrier(i)
    \/ EnterSendBarrier(i) \/ LeaveSendBarrier(i)

PoolNext ==
    \/ MainSteps \/ Announce
    \/ \E i \in Clients :
        \/ ConnectOk(i) \/ ConnectFails(i) \/ LocalStep(i)
        \/ SendOk(i) \/ SendFails(i) \/ RecvReply(i) \/ RecvNothing(i) \/ CloseSocket(i)
PoolSpec == PoolInit /\ [][PoolNext]_poolVars
=============================================================================
