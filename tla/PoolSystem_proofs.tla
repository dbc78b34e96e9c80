-------------------------- MODULE PoolSystem_proofs --------------------------
(***************************************************************************)
(* Theorems about the client pool, and about the pool and the thread-pool  *)
(* server together, for any number of clients, workers and signals, and    *)
(* any queue and backlog.                                                  *)
(***************************************************************************)
EXTENDS PoolSystem, PoolProperties, Server_proofs

USE DEF Clients

-----------------------------------------------------------------------------
(* The pool alone, for every pool size.                                    *)

(* The places behind the first barrier, and those behind the second one. *)
BehindConnect == {"together", "announced", "wait_send", "send", "recv", "close"}
BehindSend    == {"send", "recv", "close"}

(* What having been at a barrier means, the strengthening that makes the   *)
(* barrier properties inductive: whoever waits at the first barrier is     *)
(* connected, whoever passed it saw everybody there; client 1 announces    *)
(* before it waits at the second one; only a running thread is connected.  *)
BarrierInv ==
    /\ at_connect \subseteq connected
    /\ \A i \in Clients : i > created => cpc[i] = "unborn"
    /\ \A i \in Clients : cpc[i] \in {"unborn", "connect"} => i \notin connected
    /\ \A i \in Clients : cpc[i] = "connected" => i \in connected
    /\ \A i \in Clients : cpc[i] \in BehindConnect \/ (cpc[i] = "done" /\ i \in connected)
                              => at_connect = Clients
    /\ \A i \in Clients : cpc[i] \in BehindSend => at_send = Clients
    /\ at_send # {} => at_connect = Clients
    /\ replied # {} => at_connect = Clients
    /\ cpc[1] = "announced" \/ 1 \in at_send => announced
    /\ cmain = "done" => \A i \in Clients : cpc[i] = "done"

(* At the start every variable is of its type.                             *)
LEMMA PoolTypeInit == PoolInit => PoolTypeOK
<1> SUFFICES ASSUME PoolInit PROVE PoolTypeOK
  OBVIOUS
<1>1. created \in 0..PoolSize
  BY PoolSizeAssumption DEF PoolInit
<1> QED
  BY <1>1, Zenon DEF PoolInit, PoolTypeOK

(* Every step keeps the types, and main creates no thread beyond the last. *)
LEMMA PoolTypeNext == PoolTypeOK /\ (cmain = "create" => created < PoolSize) /\ [PoolNext]_poolVars
                          => PoolTypeOK' /\ (cmain' = "create" => created' < PoolSize)
<1> SUFFICES ASSUME PoolTypeOK, cmain = "create" => created < PoolSize, [PoolNext]_poolVars
             PROVE  PoolTypeOK' /\ (cmain' = "create" => created' < PoolSize)
  OBVIOUS
<1> USE PoolSizeAssumption DEF PoolTypeOK, Alive, Step
<1>1. CASE Create
  <2>1. created' = created + 1 /\ created < PoolSize /\ created + 1 \in Clients
    BY <1>1 DEF Create, StartThread
  <2>2. cmain' \in {"create", "join"} /\ (cmain' = "create" => created' # PoolSize)
    BY <1>1 DEF Create, StartThread
  <2>3. cpc' = [cpc EXCEPT ![created + 1] = "connect"]
        /\ UNCHANGED <<connected, at_connect, at_send, announced, replied>>
    BY <1>1 DEF Create, StartThread
  <2> QED BY <2>1, <2>2, <2>3
<1>0. CASE CreateFails \/ JoinAll
  BY <1>0 DEF CreateFails, JoinAll
<1>2. CASE Announce
  BY <1>2 DEF Announce
<1>3. ASSUME NEW i \in Clients, LocalStep(i)
      PROVE  PoolTypeOK' /\ (cmain' = "create" => created' < PoolSize)
  BY <1>3 DEF LocalStep, EnterConnectBarrier, LeaveConnectBarrier, PassConnectBarrier,
     EnterSendBarrier, LeaveSendBarrier, LeaveSendBarrier_bug
<1>4. ASSUME NEW i \in Clients, ConnectOk(i) \/ ConnectFails(i)
      PROVE  PoolTypeOK' /\ (cmain' = "create" => created' < PoolSize)
  BY <1>4 DEF ConnectOk, ConnectFails
<1>5. ASSUME NEW i \in Clients, SendOk(i) \/ SendFails(i) \/ CloseSocket(i)
      PROVE  PoolTypeOK' /\ (cmain' = "create" => created' < PoolSize)
  BY <1>5 DEF SendOk, SendFails, CloseSocket
<1>6. ASSUME NEW i \in Clients, RecvReply(i) \/ RecvNothing(i)
      PROVE  PoolTypeOK' /\ (cmain' = "create" => created' < PoolSize)
  BY <1>6 DEF RecvReply, RecvNothing
<1>7. CASE UNCHANGED poolVars
  BY <1>7 DEF poolVars
<1> QED
  BY <1>0, <1>1, <1>2, <1>3, <1>4, <1>5, <1>6, <1>7 DEF PoolNext, MainSteps

(* The pool's variables keep their types: main never creates a thread too  *)
(* many, at any pool size.                                                 *)
THEOREM PoolTypeCorrect == PoolSpec => []PoolTypeOK
<1> DEFINE TInv == PoolTypeOK /\ (cmain = "create" => created < PoolSize)
<1>1. PoolInit => TInv
  BY PoolTypeInit, PoolSizeAssumption DEF PoolInit
<1>2. TInv /\ [PoolNext]_poolVars => TInv'
  BY PoolTypeNext
<1>3. TInv => PoolTypeOK
  OBVIOUS
<1> HIDE DEF TInv
<1> QED
  BY <1>1, <1>2, <1>3, PTL DEF PoolSpec

-----------------------------------------------------------------------------
(* At the start nobody has come to a barrier.                              *)
LEMMA BarrierInit == PoolInit => BarrierInv
BY PoolSizeAssumption DEF PoolInit, BarrierInv, BehindConnect, BehindSend

(* Every step keeps the count of those at the barriers.                    *)
LEMMA BarrierNext == PoolTypeOK /\ PoolTypeOK' /\ Pooled /\ BarrierInv /\ [PoolNext]_poolVars => BarrierInv'
<1> SUFFICES ASSUME PoolTypeOK, PoolTypeOK', Pooled, BarrierInv, [PoolNext]_poolVars
             PROVE  BarrierInv'
  OBVIOUS
<1> 1 \in Clients
  BY PoolSizeAssumption
<1> USE DEF BarrierInv, BehindConnect, BehindSend, PoolTypeOK, Alive, Step
<1>1. CASE Create
  BY <1>1, PoolSizeAssumption DEF Create, StartThread
<1>2. CASE CreateFails \/ JoinAll
  BY <1>2 DEF CreateFails, JoinAll
<1>3. CASE Announce
  BY <1>3 DEF Announce
<1>4. ASSUME NEW i \in Clients, EnterConnectBarrier(i) PROVE BarrierInv'
  BY <1>4 DEF EnterConnectBarrier
<1>5. ASSUME NEW i \in Clients, LeaveConnectBarrier(i) PROVE BarrierInv'
  BY <1>5 DEF LeaveConnectBarrier, PassConnectBarrier
<1>6. ASSUME NEW i \in Clients, EnterSendBarrier(i) PROVE BarrierInv'
  BY <1>6 DEF EnterSendBarrier
<1>7. ASSUME NEW i \in Clients, LeaveSendBarrier(i) PROVE BarrierInv'
  BY <1>7 DEF LeaveSendBarrier, LeaveSendBarrier_bug
<1>8. ASSUME NEW i \in Clients, ConnectOk(i) PROVE BarrierInv'
  <2>1. /\ cpc[i] = "connect" /\ cpc' = [cpc EXCEPT ![i] = "connected"]
        /\ cmain \in {"create", "join"}
        /\ connected' = connected \cup {i}
        /\ UNCHANGED <<cmain, created, at_connect, at_send, announced, replied>>
    BY <1>8 DEF ConnectOk
  <2> QED BY <2>1
<1>12. ASSUME NEW i \in Clients, ConnectFails(i) PROVE BarrierInv'
  <2>1. i \notin connected
    BY <1>12 DEF ConnectFails
  <2> QED BY <1>12, <2>1 DEF ConnectFails
<1>9. ASSUME NEW i \in Clients, SendOk(i) \/ SendFails(i) \/ CloseSocket(i) PROVE BarrierInv'
  BY <1>9 DEF SendOk, SendFails, CloseSocket
<1>10. ASSUME NEW i \in Clients, RecvReply(i) \/ RecvNothing(i) PROVE BarrierInv'
  BY <1>10 DEF RecvReply, RecvNothing
<1>11. CASE UNCHANGED poolVars
  BY <1>11 DEF poolVars
<1> QED
  BY <1>1, <1>2, <1>3, <1>4, <1>5, <1>6, <1>7, <1>8, <1>9, <1>10, <1>11, <1>12
  DEF PoolNext, MainSteps, LocalStep

(* What the invariant says of the two properties of the barriers.          *)
LEMMA BarriersMean == PoolTypeOK /\ (Pooled => BarrierInv) => AllConnectedFirst /\ OneFailureStrandsPool
<1> SUFFICES ASSUME PoolTypeOK, Pooled, BarrierInv
             PROVE  AllConnectedFirst /\ OneFailureStrandsPool
  BY DEF AllConnectedFirst, OneFailureStrandsPool
<1> 1 \in Clients
  BY PoolSizeAssumption
<1>1. at_connect = Clients => connected = Clients
  BY DEF BarrierInv, PoolTypeOK
<1>2. AllConnectedFirst
  BY <1>1 DEF AllConnectedFirst, BarrierInv, BehindConnect, BehindSend
<1>3. OneFailureStrandsPool
  BY <1>1 DEF OneFailureStrandsPool, BarrierInv, PoolTypeOK
<1> QED
  BY <1>2, <1>3

(* The invariant of the barriers holds.                                    *)
LEMMA BarrierCorrect == PoolSpec => [](PoolTypeOK /\ (Pooled => BarrierInv))
<1> DEFINE BInv == Pooled => BarrierInv
<1>1. PoolInit => BInv
  BY BarrierInit
<1>2. PoolTypeOK /\ PoolTypeOK' /\ BInv /\ [PoolNext]_poolVars => BInv'
  BY BarrierNext DEF Pooled
<1> HIDE DEF BInv
<1>3. PoolSpec => [](PoolTypeOK /\ BInv)
  BY <1>1, <1>2, PoolTypeCorrect, PTL DEF PoolSpec
<1> QED
  BY <1>3 DEF BInv

(* With any number of clients, nobody sends before all of them are         *)
(* connected and client 1 said so.                                         *)
THEOREM BarriersCorrect == PoolSpec => []AllConnectedFirst
<1>1. PoolTypeOK /\ (Pooled => BarrierInv) => AllConnectedFirst
  BY BarriersMean
<1> QED
  BY <1>1, BarrierCorrect, PTL

(* With any number of clients, one connect that failed keeps the whole     *)
(* pool silent, and main from returning if another client did connect.     *)
THEOREM StrandingCorrect == PoolSpec => []OneFailureStrandsPool
<1>1. PoolTypeOK /\ (Pooled => BarrierInv) => OneFailureStrandsPool
  BY BarriersMean
<1> QED
  BY <1>1, BarrierCorrect, PTL

-----------------------------------------------------------------------------
(* The pool and the server together.                                       *)

(* While server_running, no handler has passed its first statement, main   *)
(* has not left its loop, and it listens once it has started; before that  *)
(* no connection exists.                                                   *)
RunningInv ==
    /\ server_running => \A s \in Signals : hpc[s] \in {"unsent", "flag"}
    /\ server_running => pc[Main] \notin {"shut_lock", "shut_unlock", "join", "done"}
    /\ server_running /\ pc[Main] # "start" => listening
    /\ pc[Main] = "start" => ~listening /\ \A c \in Conns : sock[c] = "idle"

(* A worker answers only a request, and as long as no handler interrupts   *)
(* its recv it closes only what it has answered or what the client left.   *)
Served(c) == Answered(c) \/ c \in gone
ServedInv ==
    /\ \A a \in answers : a[2] \in requests
    /\ \A w \in Workers : pc[w] = "send" => client_sd[w] \in requests
    /\ server_running => \A w \in Workers : pc[w] = "close" => Served(client_sd[w])
    /\ server_running => \A c \in Conns : sock[c] = "closed" => Served(c)

(* What each client has done, by its place: a client is connected and has  *)
(* sent its request only after those calls, and has closed when it is done *)
(* or when its process failed.                                             *)
PlacesInv ==
    /\ \A i \in Clients : i > created => cpc[i] = "unborn"
    /\ \A i \in connected : cpc[i] \notin {"unborn", "connect"}
    /\ \A i \in Clients : i \in requests => cpc[i] \in {"recv", "close", "done"}
    /\ \A i \in Clients : i \in gone => cpc[i] = "done" \/ cmain = "failed"

RepliesInv ==
    /\ \A i \in replied : Answered(i)
    /\ NoReplyOnlyAtShutdown

PoolSystemInv == RunningInv /\ ServedInv /\ PlacesInv /\ RepliesInv

-----------------------------------------------------------------------------
USE ConstantsAssumption DEF Threads

(* Every step of the server keeps what is known while it is running.       *)
LEMMA RunningNext == Ring /\ Owned /\ RunningInv /\ [Next]_vars => RunningInv'
<1> SUFFICES ASSUME Ring, Owned, RunningInv, [Next]_vars PROVE RunningInv'
  OBVIOUS
<1>0. /\ pc \in [Threads -> WorkerPcs \cup MainPcs] /\ server_running \in BOOLEAN
      /\ sock \in [Conns -> {"idle", "backlog", "accepted", "closed"}]
      /\ hpc \in [Signals -> {"unsent", "flag", "close", "lock", "unlock", "done"}]
  BY DEF Ring, Typed, TypeOK
<1> USE <1>0 DEF RunningInv, control
<1>1. CASE MainStep \/ AcceptError
  <2> USE DEF Move, Lock, Unlock, At, Goto, handlers, net
  <2>1. CASE Start \/ MainLoop \/ AcceptEnter \/ AcceptClosed \/ AcceptError \/ AcceptFailed \/ Join
    BY <2>1 DEF Start, MainLoop, AcceptEnter, AcceptClosed, AcceptError, AcceptFailed, Join
  <2>2. CASE PushLock \/ PushMustWait \/ PushSleep \/ PushDrop \/ PushUnlock \/ ShutUnlock
    BY <2>2 DEF PushLock, PushMustWait, PushSleep, PushDrop, PushUnlock, ShutUnlock
  <2>3. CASE PushStore
    <3>1. pc'[Main] = "push_unlock" /\ pc[Main] = "push"
      BY <2>3 DEF PushStore, Store, SignalOne, not_empty
    <3> QED BY <2>3, <3>1 DEF PushStore, Store
  <2>4. CASE ShutBroadcast
    BY <2>4 DEF ShutBroadcast, Woken, not_empty
  <2>5. ASSUME NEW c \in Conns, Accept(c) PROVE RunningInv'
    BY <2>5 DEF Accept
  <2> QED BY <1>1, <2>1, <2>2, <2>3, <2>4, <2>5 DEF MainStep, Push
<1>2. ASSUME NEW w \in Workers, WorkerStep(w) PROVE RunningInv'
  <2>1. UNCHANGED <<control, hpc>>
    BY <1>2 DEF WorkerStep, WorkerLoop, Pop, PopLock, PopMustWait, PopSleep, PopNothing, PopTake,
       Take, PopUnlock, Recv, Receive, Send, Close, Move, Lock, Unlock, handlers
  <2>2. pc'[Main] = pc[Main] \/ (pc[Main] = "push_wait" /\ pc'[Main] = "push_lock")
    BY <1>2 DEF WorkerStep, WorkerLoop, Pop, PopLock, PopMustWait, PopSleep, PopNothing, PopTake,
       Take, SignalOne, not_full, PopUnlock, Recv, Receive, Send, Close, Move, Lock, Unlock, Goto
  <2>3. pc[Main] = "start" => sock' = sock
    <3>1. CASE Close(w)
      BY <3>1 DEF Close, At, HandInv, Ring, Typed, Owned, NoConnShared
    <3>2. CASE ~Close(w)
      BY <1>2, <3>2 DEF WorkerStep, WorkerLoop, Pop, PopLock, PopMustWait, PopSleep, PopNothing,
         PopTake, Take, PopUnlock, Recv, Receive, Send, Move, Lock, Unlock, net
    <3> QED BY <3>1, <3>2
  <2> QED BY <2>1, <2>2, <2>3
<1>3. ASSUME NEW s \in Signals, HandlerStep(s) PROVE RunningInv'
  <2> USE DEF HandlerMove, net
  <2>1. CASE HandlerFlag(s) \/ HandlerClose(s)
    BY <2>1 DEF HandlerFlag, HandlerClose
  <2>2. CASE HandlerBroadcast(s)
    BY <2>2 DEF HandlerBroadcast, Broadcast, Woken, not_empty, not_full
  <2>3. CASE HandlerReturn(s)
    <3>1. PICK place \in Interrupted(pc[hthread[s]]) : pc' = [pc EXCEPT ![hthread[s]] = place]
      BY <2>3 DEF HandlerReturn, Goto
    <3>2. place = pc[hthread[s]] \/ pc[hthread[s]] \in {"blocked", "recv"}
      BY <3>1 DEF Interrupted
    <3>3. place # pc[hthread[s]] => place \in {"failed", "recv", "close"}
      BY <3>1 DEF Interrupted
    <3>4. ~server_running
      BY <2>3 DEF HandlerReturn
    <3> QED BY <2>3, <3>1, <3>2, <3>3, <3>4 DEF HandlerReturn
  <2> QED BY <1>3, <2>1, <2>2, <2>3 DEF HandlerStep
<1>4. ASSUME NEW t \in Threads, SpuriousWake(t) PROVE RunningInv'
  BY <1>4 DEF SpuriousWake, Woken, not_empty, not_full, handlers, net
<1>5. ASSUME NEW s \in Signals, NEW t \in SignalThreads, Deliver(s, t) PROVE RunningInv'
  BY <1>5 DEF Deliver, net
<1>6. ASSUME NEW c \in Conns, ClientStep(c) PROVE RunningInv'
  <2>1. pc[Main] = "start" => ~KernelListening
    BY DEF KernelListening
  <2> QED BY <1>6, <2>1 DEF ClientStep, ClientConnect, ClientSend, ClientClose, handlers
<1>7. CASE UNCHANGED vars
  BY <1>7 DEF vars, handlers, net
<1> QED BY <1>1, <1>2, <1>3, <1>4, <1>5, <1>6, <1>7 DEF Next, ServerStep

(* Steps that start no send, no close and no end of a connection. *)
LEMMA ServedQuiet ==
  ASSUME ServedInv, UNCHANGED <<sock, answers>>, requests \subseteq requests', gone \subseteq gone',
         server_running' => server_running,
         \A w \in Workers : pc'[w] \in {"send", "close"} =>
             pc'[w] = pc[w] /\ client_sd'[w] = client_sd[w]
  PROVE  ServedInv'
BY DEF ServedInv, Served, Answered

(* Every step of the server keeps what is known of the connections it has  *)
(* served.                                                                 *)
LEMMA ServedNext == Ring /\ RunningInv /\ ServedInv /\ [Next]_vars => ServedInv'
<1> SUFFICES ASSUME Ring, RunningInv, ServedInv, [Next]_vars PROVE ServedInv'
  OBVIOUS
<1>0. /\ pc \in [Threads -> WorkerPcs \cup MainPcs] /\ server_running \in BOOLEAN
      /\ client_sd \in [Threads -> Conns \cup {None}] /\ answers \subseteq Workers \X Conns
      /\ sock \in [Conns -> {"idle", "backlog", "accepted", "closed"}]
  BY DEF Ring, Typed, TypeOK
<1> USE <1>0 DEF control, clients
<1>1. CASE MainStep \/ AcceptError
  <2>1. \A w \in Workers : pc'[w] \in {"send", "close"} => pc'[w] = pc[w] /\ client_sd'[w] = client_sd[w]
    <3> USE DEF Move, Lock, Unlock, Goto
    <3>1. CASE PushStore
      BY <3>1 DEF PushStore, Store, SignalOne, not_empty
    <3>2. CASE ShutBroadcast
      BY <3>2 DEF ShutBroadcast, Woken, not_empty
    <3> QED BY <1>1, <3>1, <3>2 DEF MainStep, Push, Start, MainLoop, AcceptEnter, AcceptClosed,
       AcceptError, AcceptFailed, Accept, PushLock, PushMustWait, PushSleep, PushDrop, PushUnlock,
       ShutUnlock, Join
  <2>2. CASE \E c \in Conns : Accept(c)
    <3>1. UNCHANGED <<requests, gone, answers, server_running>>
          /\ \A c \in Conns : sock'[c] = "closed" => sock[c] = "closed"
      BY <2>2 DEF Accept
    <3> QED BY <2>1, <3>1 DEF ServedInv, Served, Answered
  <2>3. CASE ~\E c \in Conns : Accept(c)
    <3>1. UNCHANGED <<requests, gone, answers, sock, server_running>>
      BY <1>1, <2>3 DEF MainStep, Push, Start, MainLoop, AcceptEnter, AcceptClosed, AcceptError,
         AcceptFailed, PushLock, PushMustWait, PushSleep, PushDrop, PushStore, Store, PushUnlock,
         ShutBroadcast, ShutUnlock, Join, Move, Lock, Unlock, net
    <3> QED BY <2>1, <3>1, ServedQuiet
  <2> QED BY <2>2, <2>3
<1>2. ASSUME NEW w \in Workers, WorkerStep(w) PROVE ServedInv'
  <2>0. UNCHANGED <<requests, gone, server_running>>
    BY <1>2 DEF WorkerStep, WorkerLoop, Pop, PopLock, PopMustWait, PopSleep, PopNothing, PopTake,
       Take, PopUnlock, Recv, Receive, Send, Close, Move, Lock, Unlock, net
  <2>1. CASE \/ WorkerLoop(w) \/ PopLock(w) \/ PopMustWait(w) \/ PopSleep(w)
             \/ PopNothing(w) \/ PopUnlock(w)
    BY <2>0, <2>1, ServedQuiet DEF WorkerLoop, PopLock, PopMustWait, PopSleep, PopNothing, PopUnlock,
       Move, Lock, Unlock, Goto, net
  <2>2. CASE PopTake(w)
    <3>1. \A v \in Workers : pc'[v] \in {"send", "close"} => v # w /\ pc'[v] = pc[v]
      BY <2>2 DEF PopTake, Take, SignalOne, not_full, Goto
    <3>2. \A v \in Workers : v # w => client_sd'[v] = client_sd[v]
      BY <2>2 DEF PopTake, Take
    <3>3. UNCHANGED <<sock, answers>>
      BY <2>2 DEF PopTake, Take, net
    <3> QED BY <2>0, <3>1, <3>2, <3>3, ServedQuiet
  <2>3. CASE Recv(w)
    <3>1. UNCHANGED <<sock, answers, client_sd>>
          /\ \/ client_sd[w] \in requests /\ pc' = [pc EXCEPT ![w] = "send"]
             \/ client_sd[w] \in gone /\ pc' = [pc EXCEPT ![w] = "close"]
      BY <2>3 DEF Recv, Receive, Move, Goto, net
    <3> QED BY <2>0, <3>1 DEF ServedInv, Served, Answered
  <2>4. CASE Send(w)
    <3>1. /\ client_sd[w] \in requests /\ UNCHANGED <<sock, client_sd>>
          /\ pc' = [pc EXCEPT ![w] = "close"]
          /\ answers' = answers \cup {<<w, client_sd[w]>>}
             \/ (client_sd[w] \in gone /\ answers' = answers)
      BY <2>4 DEF Send, At, Goto, ServedInv
    <3>2. Served(client_sd[w])' /\ \A c : Served(c) => Served(c)'
      BY <2>0, <3>1 DEF Served, Answered
    <3> QED BY <2>0, <3>1, <3>2 DEF ServedInv
  <2>5. CASE Close(w)
    <3>1. /\ pc[w] = "close" /\ sock' = [sock EXCEPT ![client_sd[w]] = "closed"]
          /\ client_sd' = [client_sd EXCEPT ![w] = None]
          /\ pc' = [pc EXCEPT ![w] = "loop"] /\ answers' = answers
      BY <2>5 DEF Close, At, Goto
    <3> QED BY <2>0, <3>1 DEF ServedInv, Served, Answered
  <2> QED BY <1>2, <2>1, <2>2, <2>3, <2>4, <2>5 DEF WorkerStep, Pop
<1>3. ASSUME NEW s \in Signals, HandlerStep(s) PROVE ServedInv'
  <2> USE DEF HandlerMove, net
  <2>1. CASE HandlerFlag(s) \/ HandlerClose(s)
    BY <2>1, ServedQuiet DEF HandlerFlag, HandlerClose
  <2>2. CASE HandlerBroadcast(s)
    BY <2>2, ServedQuiet DEF HandlerBroadcast, Broadcast, Woken, not_empty, not_full
  <2>3. CASE HandlerReturn(s)
    <3>1. PICK place \in Interrupted(pc[hthread[s]]) : pc' = [pc EXCEPT ![hthread[s]] = place]
      BY <2>3 DEF HandlerReturn, Goto
    <3>2. place = pc[hthread[s]] \/ place \in {"failed", "recv", "close"}
      BY <3>1 DEF Interrupted
    <3>3. \A w \in Workers : pc'[w] = "send" => pc[w] = "send"
      BY <3>1, <3>2
    <3>4. ~server_running' /\ UNCHANGED <<sock, answers, requests, gone, client_sd>>
      BY <2>3 DEF HandlerReturn, RunningInv
    <3> QED BY <3>3, <3>4 DEF ServedInv
  <2> QED BY <1>3, <2>1, <2>2, <2>3 DEF HandlerStep
<1>4. ASSUME NEW t \in Threads, SpuriousWake(t) PROVE ServedInv'
  BY <1>4, ServedQuiet DEF SpuriousWake, Woken, not_empty, not_full, net
<1>5. ASSUME NEW s \in Signals, NEW t \in SignalThreads, Deliver(s, t) PROVE ServedInv'
  BY <1>5, ServedQuiet DEF Deliver, net
<1>6. ASSUME NEW c \in Conns, ClientStep(c) PROVE ServedInv'
  <2>1. CASE ClientConnect(c)
    BY <2>1 DEF ClientConnect, ServedInv, Served, Answered
  <2>2. CASE ClientSend(c) \/ ClientClose(c)
    BY <2>2, ServedQuiet DEF ClientSend, ClientClose
  <2> QED BY <1>6, <2>1, <2>2 DEF ClientStep
<1>7. CASE UNCHANGED vars
  BY <1>7, ServedQuiet DEF vars, net
<1> QED BY <1>1, <1>2, <1>3, <1>4, <1>5, <1>6, <1>7 DEF Next, ServerStep

-----------------------------------------------------------------------------
(* A step of the composition is a step of the server or leaves it alone,   *)
(* and a step of the pool or leaves that alone.                            *)
LEMMA SystemSteps == [SystemNext]_systemVars => [Next]_vars /\ [PoolNext]_poolVars
<1> USE SystemAssumption
<1>1. CASE ServerStep /\ UNCHANGED poolVars
  BY <1>1 DEF Next
<1>2. CASE PoolMainStep
  BY <1>2 DEF PoolMainStep, PoolNext
<1>3. ASSUME NEW i \in Clients, ClientSystemStep(i) PROVE [Next]_vars /\ [PoolNext]_poolVars
  <2>1. [Next]_vars
    BY <1>3 DEF ClientSystemStep, Connect, ConnectRefused, Request, SendError, Reply, NoReply,
       Finish, ProcessExit, Next, ClientStep
  <2>2. [PoolNext]_poolVars
    BY <1>3 DEF ClientSystemStep, Connect, ConnectRefused, Request, SendError, Reply, NoReply,
       Finish, ProcessExit, PoolNext
  <2> QED BY <2>1, <2>2
<1>4. CASE UNCHANGED systemVars
  BY <1>4 DEF systemVars
<1> QED
  BY <1>1, <1>2, <1>3, <1>4 DEF SystemNext

(* A behaviour of the composition is one of the server and one of the      *)
(* pool.                                                                   *)
LEMMA SystemIsBoth == SystemSpec => Spec /\ PoolSpec
<1>1. SystemInit => Init /\ PoolInit
  BY DEF SystemInit
<1> QED
  BY <1>1, SystemSteps, PTL DEF SystemSpec, Spec, PoolSpec

(* The server never takes back what a client relies on. *)
Keeps ==
    /\ requests' = requests /\ gone' = gone /\ answers \subseteq answers'
    /\ server_running' => server_running

(* No step of the server takes back what a client relies on.               *)
LEMMA ServerKeeps == ServerStep => Keeps
<1> USE DEF Keeps, net, clients, control, Move, Lock, Unlock
<1>1. CASE MainStep \/ AcceptError
  BY <1>1 DEF MainStep, Push, Start, MainLoop, AcceptEnter, AcceptClosed, AcceptError, AcceptFailed,
     Accept, PushLock, PushMustWait, PushSleep, PushDrop, PushStore, Store, PushUnlock,
     ShutBroadcast, ShutUnlock, Join
<1>2. ASSUME NEW w \in Workers, WorkerStep(w) PROVE Keeps
  BY <1>2 DEF WorkerStep, WorkerLoop, Pop, PopLock, PopMustWait, PopSleep, PopNothing, PopTake,
     Take, PopUnlock, Recv, Receive, Send, Close
<1>3. ASSUME NEW s \in Signals, HandlerStep(s) PROVE Keeps
  BY <1>3 DEF HandlerStep, HandlerFlag, HandlerClose, HandlerBroadcast, Broadcast, HandlerReturn,
     HandlerMove
<1>4. ASSUME NEW t \in Threads, SpuriousWake(t) PROVE Keeps
  BY <1>4 DEF SpuriousWake
<1>5. ASSUME NEW s \in Signals, NEW t \in SignalThreads, Deliver(s, t) PROVE Keeps
  BY <1>5 DEF Deliver
<1> HIDE DEF Keeps
<1> QED
  BY <1>1, <1>2, <1>3, <1>4, <1>5 DEF ServerStep

(* Every step keeps what each client has done with its place.              *)
LEMMA PlacesNext == PoolTypeOK /\ PlacesInv /\ [SystemNext]_systemVars => PlacesInv'
<1> SUFFICES ASSUME PoolTypeOK, PlacesInv, [SystemNext]_systemVars PROVE PlacesInv'
  OBVIOUS
<1>0. /\ cpc \in [Clients -> {"unborn", "connect", "connected", "wait_connect", "together",
                             "announced", "wait_send", "send", "recv", "close", "done"}]
      /\ created \in 0..PoolSize /\ connected \subseteq Clients /\ Clients = 1..PoolSize
  BY DEF PoolTypeOK, Clients
<1> USE <1>0, PoolSizeAssumption DEF PlacesInv, Step, Alive
<1>1. CASE ServerStep /\ UNCHANGED poolVars
  BY <1>1, ServerKeeps DEF Keeps, poolVars
<1>2. CASE PoolMainStep
  <2>1. UNCHANGED <<requests, gone>>
    BY <1>2 DEF PoolMainStep, vars, net, clients
  <2>2. CASE Create
    <3>1. /\ created' = created + 1 /\ cpc' = [cpc EXCEPT ![created + 1] = "connect"]
          /\ connected' = connected /\ cmain = "create"
      BY <2>2 DEF Create, StartThread
    <3>2. created + 1 \in Clients => cpc[created + 1] = "unborn"
      OBVIOUS
    <3>3. \A i \in Clients : i \in requests \/ i \in gone \/ i \in connected => i # created + 1
      BY <3>1, <3>2
    <3> QED BY <2>1, <3>1, <3>3
  <2>3. CASE CreateFails \/ JoinAll
    BY <2>1, <2>3 DEF CreateFails, JoinAll
  <2>4. CASE Announce
    <3>1. /\ cpc[1] = "together" /\ cpc' = [cpc EXCEPT ![1] = "announced"]
          /\ UNCHANGED <<cmain, created, connected, replied>>
      BY <2>4 DEF Announce
    <3> QED BY <2>1, <3>1
  <2> QED BY <1>2, <2>2, <2>3, <2>4 DEF PoolMainStep, MainSteps
<1>3. ASSUME NEW i \in Clients, ClientSystemStep(i) PROVE PlacesInv'
  <2> USE DEF vars, net, clients, poolVars
  <2>1. CASE Connect(i) \/ ConnectRefused(i)
    BY <2>1 DEF Connect, ConnectOk, ClientConnect, ConnectRefused, ConnectFails
  <2>2. CASE Request(i) \/ SendError(i)
    BY <2>2 DEF Request, SendOk, ClientSend, SendError, SendFails
  <2>3. CASE Reply(i) \/ NoReply(i)
    BY <2>3 DEF Reply, RecvReply, NoReply, RecvNothing
  <2>4. CASE Finish(i) \/ ProcessExit(i)
    BY <2>4 DEF Finish, CloseSocket, ProcessExit, ClientClose
  <2>5. CASE LocalStep(i) /\ UNCHANGED vars
    BY <2>5 DEF LocalStep, EnterConnectBarrier, LeaveConnectBarrier, PassConnectBarrier,
       EnterSendBarrier, LeaveSendBarrier, LeaveSendBarrier_bug
  <2> QED BY <1>3, <2>1, <2>2, <2>3, <2>4, <2>5 DEF ClientSystemStep
<1>4. CASE UNCHANGED systemVars
  BY <1>4 DEF systemVars, vars, net, clients, poolVars
<1> QED
  BY <1>1, <1>2, <1>3, <1>4 DEF SystemNext

(* While both processes run, a connection that ended under a waiting       *)
(* client was answered.                                                    *)
LEMMA EndedAnswered ==
  ASSUME RunningInv, ServedInv, PlacesInv, server_running, cmain # "failed",
         NEW i \in Clients, cpc[i] \in {"send", "recv"}, ServerEnded(i)
  PROVE  Answered(i) /\ cpc[i] = "recv"
<1>1. pc[Main] = "start" => sock[i] = "idle"
  BY SystemAssumption DEF RunningInv
<1>2. sock[i] = "closed"
  BY <1>1 DEF ServerEnded, KernelListening, RunningInv
<1>3. Answered(i)
  BY <1>2, SystemAssumption DEF ServedInv, Served, PlacesInv
<1>4. i \in requests
  BY <1>3 DEF Answered, ServedInv
<1> QED
  BY <1>3, <1>4 DEF PlacesInv

(* Every step keeps the replies with those the server has answered.        *)
LEMMA RepliesNext ==
  PoolTypeOK /\ RunningInv /\ ServedInv /\ PlacesInv /\ RepliesInv /\ [SystemNext]_systemVars
      => RepliesInv'
<1> SUFFICES ASSUME PoolTypeOK, RunningInv, ServedInv, PlacesInv, RepliesInv,
                    [SystemNext]_systemVars
             PROVE  RepliesInv'
  OBVIOUS
<1>0. /\ cpc \in [Clients -> {"unborn", "connect", "connected", "wait_connect", "together",
                             "announced", "wait_send", "send", "recv", "close", "done"}]
      /\ created \in 0..PoolSize /\ connected \subseteq Clients /\ Clients = 1..PoolSize
  BY DEF PoolTypeOK, Clients
<1> USE <1>0, PoolSizeAssumption DEF RepliesInv, NoReplyOnlyAtShutdown, Answered, Step, Alive
<1>1. CASE ServerStep /\ UNCHANGED poolVars
  BY <1>1, ServerKeeps DEF Keeps, poolVars
<1>2. CASE PoolMainStep
  <2>1. UNCHANGED <<answers, server_running>>
    BY <1>2 DEF PoolMainStep, vars, net, control
  <2>2. CASE Create
    <3>1. /\ cpc' = [cpc EXCEPT ![created + 1] = "connect"] /\ cmain = "create"
          /\ UNCHANGED <<connected, replied>>
      BY <2>2 DEF Create, StartThread
    <3> QED BY <2>1, <3>1
  <2>3. CASE CreateFails \/ JoinAll
    BY <2>1, <2>3 DEF CreateFails, JoinAll
  <2>4. CASE Announce
    <3>1. /\ cpc[1] = "together" /\ cpc' = [cpc EXCEPT ![1] = "announced"]
          /\ UNCHANGED <<cmain, created, connected, replied>>
      BY <2>4 DEF Announce
    <3> QED BY <2>1, <3>1
  <2> QED BY <1>2, <2>2, <2>3, <2>4 DEF PoolMainStep, MainSteps
<1>3. ASSUME NEW i \in Clients, ClientSystemStep(i) PROVE RepliesInv'
  <2> USE DEF vars, net, control, clients, poolVars
  <2>1. CASE Connect(i)
    BY <2>1 DEF Connect, ConnectOk, ClientConnect
  <2>2. CASE ConnectRefused(i)
    <3>1. i \notin connected
      BY <2>2 DEF ConnectRefused, ConnectFails, PlacesInv
    <3> QED BY <2>2, <3>1 DEF ConnectRefused, ConnectFails
  <2>3. CASE Request(i) \/ Finish(i)
    <3>1. \/ cpc[i] = "send" /\ cpc' = [cpc EXCEPT ![i] = "recv"]
          \/ cpc[i] = "close" /\ cpc' = [cpc EXCEPT ![i] = "done"]
      BY <2>3 DEF Request, SendOk, Finish, CloseSocket
    <3>2. UNCHANGED <<answers, server_running, cmain, connected, replied>>
      BY <2>3 DEF Request, SendOk, ClientSend, Finish, CloseSocket, ClientClose
    <3> QED BY <3>1, <3>2
  <2>4. CASE SendError(i)
    <3>1. ~server_running \/ cmain = "failed"
      BY <2>4, EndedAnswered DEF SendError, SendFails
    <3> QED BY <2>4, <3>1 DEF SendError, SendFails
  <2>5. CASE Reply(i)
    BY <2>5 DEF Reply, RecvReply
  <2>6. CASE NoReply(i)
    <3>1. ~server_running \/ cmain = "failed"
      BY <2>6, EndedAnswered DEF NoReply, RecvNothing
    <3> QED BY <2>6, <3>1 DEF NoReply, RecvNothing
  <2>7. CASE LocalStep(i) /\ UNCHANGED vars
    BY <2>7 DEF LocalStep, EnterConnectBarrier, LeaveConnectBarrier, PassConnectBarrier,
       EnterSendBarrier, LeaveSendBarrier, LeaveSendBarrier_bug
  <2>8. CASE ProcessExit(i)
    BY <2>8 DEF ProcessExit, ClientClose
  <2> QED BY <1>3, <2>1, <2>2, <2>3, <2>4, <2>5, <2>6, <2>7, <2>8 DEF ClientSystemStep
<1>4. CASE UNCHANGED systemVars
  BY <1>4 DEF systemVars, vars, net, control, poolVars
<1> QED
  BY <1>1, <1>2, <1>3, <1>4 DEF SystemNext

(* At the start no client has connected.                                   *)
LEMMA PoolSystemInit == SystemInit => PoolSystemInv
<1> SUFFICES ASSUME SystemInit PROVE PoolSystemInv
  OBVIOUS
<1>1. RunningInv
  BY DEF SystemInit, Init, RunningInv
<1>2. ServedInv
  BY DEF SystemInit, Init, ServedInv
<1>3. PlacesInv /\ RepliesInv
  BY DEF SystemInit, Init, PoolInit, PlacesInv, RepliesInv, NoReplyOnlyAtShutdown
<1> QED
  BY <1>1, <1>2, <1>3 DEF PoolSystemInv

(* The invariants of the server, of the pool and of what joins them hold   *)
(* together.                                                               *)
LEMMA PoolSystemCorrect == SystemSpec => [](Ring /\ Owned /\ PoolTypeOK /\ PoolSystemInv)
<1>1. SystemSpec => [](Ring /\ Owned /\ PoolTypeOK)
  BY SystemIsBoth, OwnedCorrect, PoolTypeCorrect, PTL
<1>2. Ring /\ Owned /\ PoolTypeOK /\ PoolSystemInv /\ [SystemNext]_systemVars => PoolSystemInv'
  BY SystemSteps, RunningNext, ServedNext, PlacesNext, RepliesNext DEF PoolSystemInv
<1> QED
  BY <1>1, <1>2, PoolSystemInit, PTL DEF SystemSpec

(* For any number of clients and workers, and whatever timeouts, signals   *)
(* and wakeups do, a reply that a client has read was sent by exactly one  *)
(* worker, after that client sent its request.                             *)
THEOREM RepliesGenuine == SystemSpec => []ReplyIsGenuine
<1>1. Ring /\ Owned /\ PoolTypeOK /\ PoolSystemInv => ReplyIsGenuine
  <2> SUFFICES ASSUME Ring, Owned, PoolSystemInv, NEW i \in replied
               PROVE  i \in requests /\ \E w \in Workers : answers \cap (Workers \X {i}) = {<<w, i>>}
    BY DEF ReplyIsGenuine
  <2>1. PICK w \in Workers : <<w, i>> \in answers
    BY DEF PoolSystemInv, RepliesInv, Answered
  <2>2. i \in requests
    BY <2>1 DEF PoolSystemInv, ServedInv
  <2>3. answers \subseteq Workers \X Conns /\ \A a, b \in answers : a[2] = b[2] => a = b
    BY DEF Ring, Typed, TypeOK, Owned, OneAnswer
  <2>4. ASSUME NEW a \in answers \cap (Workers \X {i}) PROVE a = <<w, i>>
    BY <2>1, <2>3, <2>4
  <2> QED BY <2>1, <2>2, <2>4
<1> QED
  BY <1>1, PoolSystemCorrect, PTL

(* For any number of clients, workers and any queue and backlog, a client  *)
(* that connected goes without a reply only once a handler has stopped the *)
(* server or the client process has failed.                                *)
THEOREM NoReplyCorrect == SystemSpec => []NoReplyOnlyAtShutdown
<1>1. PoolSystemInv => NoReplyOnlyAtShutdown
  BY DEF PoolSystemInv, RepliesInv
<1> QED
  BY <1>1, PoolSystemCorrect, PTL
=============================================================================
