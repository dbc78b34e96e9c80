--------------------------- MODULE Server_proofs ---------------------------
(* Theorems about the thread-pool server, for any number of workers,       *)
(* connections and signals and any size of the ring buffer.                *)
EXTENDS ServerProperties, FiniteSetTheorems, SequenceTheorems, TLAPS

Typed == TypeOK /\ HandInv

USE ConstantsAssumption DEF Threads

(* At the start every variable is of its type.                             *)
LEMMA TypedInit == Init => Typed
<1> SUFFICES ASSUME Init PROVE TypeOK /\ HandInv
  BY DEF Typed
<1>1. pc \in [Threads -> WorkerPcs \cup MainPcs] /\ pc[Main] = "start"
      /\ \A w \in Workers : pc[w] = "loop"
  BY DEF Init, MainPcs, WorkerPcs
<1>2. TypeOK
  <2>1. server_running \in BOOLEAN /\ listening \in BOOLEAN
    BY Zenon DEF Init
  <2>2. /\ client_sockets \in [0..QueueSize-1 -> Conns \cup {None}]
        /\ head \in 0..QueueSize-1 /\ tail \in 0..QueueSize-1 /\ count \in 0..QueueSize
    BY DEF Init
  <2> QED BY <1>1, <2>1, <2>2 DEF Init, TypeOK, MainPcs, WorkerPcs
<1>3. HandInv
  BY <1>1 DEF Init, HandInv
<1> QED BY <1>2, <1>3

(* The steps of the three shared shapes keep the types. *)
LEMMA TypedMoveMain ==
    ASSUME Typed, NEW from \in MainPcs, NEW to \in MainPcs,
           Move(Main, from, to) \/ Lock(Main, from, to) \/ Unlock(Main, from, to),
           from \in {"push_lock", "push", "push_sleep", "push_wait"}
              <=> to \in {"push_lock", "push", "push_sleep", "push_wait"}
    PROVE  Typed'
<1>1. pc[Main] = from /\ pc' = [pc EXCEPT ![Main] = to] /\ client_sd' = client_sd
  BY DEF Move, Lock, Unlock, At, Goto
<1>2. TypeOK'
  BY <1>1 DEF Typed, TypeOK, Move, Lock, Unlock, control, queue, handlers, net, clients
<1>3. HandInv'
  <2>1. pc'[Main] = to /\ \A w \in Workers : pc'[w] = pc[w]
    BY <1>1 DEF Typed, TypeOK
  <2> QED BY <1>1, <2>1 DEF Typed, HandInv
<1> QED BY <1>2, <1>3 DEF Typed

(* A worker that moves on keeps the types, if it holds a connection        *)
(* exactly where it serves one.                                            *)
LEMMA TypedMoveWorker ==
    ASSUME Typed, NEW w \in Workers, NEW from \in WorkerPcs, NEW to \in WorkerPcs,
           Move(w, from, to) \/ Lock(w, from, to) \/ Unlock(w, from, to),
           to \in {"recv", "send", "close"} => client_sd[w] # None,
           to \notin {"pop_unlock", "recv", "send", "close"} => client_sd[w] = None
    PROVE  Typed'
BY DEF Typed, TypeOK, HandInv, Move, Lock, Unlock, At, Goto, control, queue, handlers,
       net, clients
(* The steps of the main thread keep the types.                            *)
LEMMA TypedMain == Typed /\ (MainStep \/ AcceptError) => Typed'
<1> SUFFICES ASSUME Typed, MainStep \/ AcceptError PROVE Typed'
  OBVIOUS
<1> USE DEF MainPcs, Locked
<1>1. CASE Start
  BY <1>1 DEF Start, Typed, TypeOK, HandInv, At, Goto, queue, handlers, net, clients
<1>2. CASE MainLoop
  BY <1>2, TypedMoveMain DEF MainLoop
<1>3. CASE AcceptEnter \/ AcceptClosed \/ AcceptError
  BY <1>3, TypedMoveMain DEF AcceptEnter, AcceptClosed, AcceptError
<1>4. CASE AcceptFailed
  BY <1>4, TypedMoveMain DEF AcceptFailed
<1>5. ASSUME NEW c \in Conns, Accept(c) PROVE Typed'
  BY <1>5 DEF Accept, Typed, TypeOK, HandInv, At, Goto, control, queue, handlers, clients
<1>6. CASE PushLock \/ PushMustWait \/ PushSleep \/ PushUnlock
  BY <1>6, TypedMoveMain DEF PushLock, PushMustWait, PushSleep, PushUnlock
<1>7. CASE PushDrop
  BY <1>7 DEF PushDrop, Typed, TypeOK, HandInv, At, Goto, control, queue, handlers, net, clients
<1>8. CASE PushStore
  <2>1. /\ client_sockets' \in [0..QueueSize-1 -> Conns \cup {None}]
        /\ head' \in 0..QueueSize-1 /\ tail' \in 0..QueueSize-1 /\ count' \in 0..QueueSize
    BY <1>8 DEF PushStore, Store, Typed, TypeOK
  <2>0. \/ pc' = [pc EXCEPT ![Main] = "push_unlock"]
        \/ \E u \in Workers : /\ pc[u] = "pop_wait"
                              /\ pc' = [pc EXCEPT ![Main] = "push_unlock", ![u] = "pop_lock"]
    BY <1>8 DEF PushStore, Store, SignalOne, not_empty, Goto
  <2>2. /\ pc' \in [Threads -> WorkerPcs \cup MainPcs] /\ pc'[Main] = "push_unlock"
        /\ \A w \in Workers : \/ pc'[w] = pc[w]
                              \/ pc[w] = "pop_wait" /\ pc'[w] = "pop_lock"
    BY <2>0 DEF Typed, TypeOK, WorkerPcs
  <2>3. TypeOK'
    BY <1>8, <2>1, <2>2 DEF PushStore, Store, Typed, TypeOK, WorkerPcs, control, handlers,
       net, clients
  <2>4. HandInv'
    BY <1>8, <2>2 DEF PushStore, Store, Typed, TypeOK, HandInv
  <2> QED BY <2>3, <2>4 DEF Typed
<1>9. CASE ShutBroadcast
  BY <1>9 DEF ShutBroadcast, Woken, Typed, TypeOK, HandInv, At, not_empty, control, queue,
              handlers, net, clients, WorkerPcs
<1>10. CASE ShutUnlock \/ Join
  BY <1>10, TypedMoveMain DEF ShutUnlock, Join
<1> QED
  BY <1>1, <1>2, <1>3, <1>4, <1>5, <1>6, <1>7, <1>8, <1>9, <1>10 DEF MainStep, Push

(* The steps of a worker keep the types.                                   *)
LEMMA TypedWorker == \A w \in Workers : Typed /\ WorkerStep(w) => Typed'
<1> SUFFICES ASSUME NEW w \in Workers, Typed, WorkerStep(w) PROVE Typed'
  OBVIOUS
<1> USE DEF WorkerPcs
<1>1. CASE WorkerLoop(w)
  BY <1>1, TypedMoveWorker DEF WorkerLoop, Move, At, Typed, HandInv
<1>2. CASE PopLock(w) \/ PopMustWait(w) \/ PopSleep(w) \/ PopNothing(w)
  BY <1>2, TypedMoveWorker DEF PopLock, PopMustWait, PopSleep, PopNothing, Lock, Unlock,
     Move, At, Typed, HandInv
<1>3. CASE PopTake(w)
  BY <1>3 DEF PopTake, Take, Typed, TypeOK, HandInv, At, Goto, SignalOne, not_full,
              control, queue, handlers, net, clients, MainPcs
<1>4. CASE PopUnlock(w)
  BY <1>4, TypedMoveWorker DEF PopUnlock
<1>5. CASE Recv(w)
  BY <1>5, TypedMoveWorker DEF Recv, Receive, Move, At, Typed, HandInv
<1>6. CASE Send(w)
  BY <1>6 DEF Send, Typed, TypeOK, HandInv, At, Goto, control, queue, handlers, clients
<1>7. CASE Close(w)
  BY <1>7 DEF Close, Typed, TypeOK, HandInv, At, Goto, control, queue, handlers, clients
<1> QED
  BY <1>1, <1>2, <1>3, <1>4, <1>5, <1>6, <1>7 DEF WorkerStep, Pop

(* The steps of the signal handler keep the types.                         *)
LEMMA TypedHandler == \A s \in Signals : Typed /\ HandlerStep(s) => Typed'
<1> SUFFICES ASSUME NEW s \in Signals, Typed, HandlerStep(s) PROVE Typed'
  OBVIOUS
<1> USE DEF HandlerMove, Typed, TypeOK, HandInv, queue, net, clients, control
<1>1. CASE HandlerFlag(s)
  BY <1>1 DEF HandlerFlag
<1>2. CASE HandlerClose(s)
  BY <1>2 DEF HandlerClose
<1>3. CASE HandlerBroadcast(s)
  BY <1>3 DEF HandlerBroadcast, Broadcast, Woken, not_empty, not_full, WorkerPcs, MainPcs
<1>4. CASE HandlerReturn(s)
  <2>1. PICK place \in Interrupted(pc[hthread[s]]) : Goto(hthread[s], place)
    BY <1>4 DEF HandlerReturn
  <2>2. CASE hthread[s] = None
    BY <1>4, <2>1, <2>2 DEF HandlerReturn, Goto
  <2>3. CASE hthread[s] # None
    <3>1. \/ place = pc[hthread[s]]
          \/ pc[hthread[s]] = "blocked" /\ place = "failed"
          \/ pc[hthread[s]] = "recv" /\ place = "close"
      BY <2>1 DEF Interrupted
    <3> QED BY <1>4, <2>1, <2>3, <3>1 DEF HandlerReturn, Goto, WorkerPcs, MainPcs
  <2> QED BY <2>2, <2>3
<1> QED
  BY <1>1, <1>2, <1>3, <1>4 DEF HandlerStep

(* Spurious wake-ups, signals, clients and stuttering keep the types.      *)
LEMMA TypedOther ==
    ASSUME Typed,
           \/ \E t \in Threads : SpuriousWake(t)
           \/ \E s \in Signals : \E t \in SignalThreads : Deliver(s, t)
           \/ \E c \in Conns : ClientStep(c)
           \/ UNCHANGED vars
    PROVE  Typed'
<1> USE DEF Typed, TypeOK, HandInv, queue, net, clients, control, handlers
<1>1. ASSUME NEW t \in Threads, SpuriousWake(t) PROVE Typed'
  BY <1>1 DEF SpuriousWake, Woken, not_empty, not_full, WorkerPcs, MainPcs
<1>2. ASSUME NEW s \in Signals, NEW t \in SignalThreads, Deliver(s, t) PROVE Typed'
  BY <1>2 DEF Deliver
<1>3. ASSUME NEW c \in Conns, ClientStep(c) PROVE Typed'
  BY <1>3 DEF ClientStep, ClientConnect, ClientSend, ClientClose
<1>4. CASE UNCHANGED vars
  BY <1>4 DEF vars
<1> QED
  BY <1>1, <1>2, <1>3, <1>4

(* Every step keeps the types.                                             *)
LEMMA TypedNext == Typed /\ [Next]_vars => Typed'
BY TypedMain, TypedWorker, TypedHandler, TypedOther DEF Next, ServerStep

(* Type correctness: every variable of the server keeps its type, and a    *)
(* thread has a descriptor in hand exactly where server.c says it does.    *)
THEOREM TypeCorrect == Spec => [](TypeOK /\ HandInv)
<1>1. Spec => []Typed
  BY TypedInit, TypedNext, PTL DEF Spec
<1> QED
  BY <1>1, PTL DEF Typed
-----------------------------------------------------------------------------
(* Mutual exclusion.  A handler is on a thread from its delivery on. *)
HandlersPlaced == \A s \in Signals : hpc[s] # "unsent" => hthread[s] \in Threads

Exclusive == MutexInv /\ HandlersPlaced

(* At the start no thread holds the mutex.                                 *)
LEMMA ExclusiveInit == Init => Exclusive
BY DEF Init, Exclusive, MutexInv, HandlersPlaced, Locked

(* Steps of thread t that take, keep or release the mutex; any waiters they *)
(* wake go from one place outside the critical sections to another.         *)
Wakes(t) == \A u \in Threads \ {t} :
    pc'[u] = pc[u] \/ (pc[u] \notin Locked /\ pc'[u] \notin Locked)

(* A step of one thread that takes, keeps or gives up the mutex leaves one *)
(* holder.                                                                 *)
LEMMA ExclusiveThread ==
    ASSUME Typed, Exclusive, NEW t \in Threads, Wakes(t), UNCHANGED <<hpc, hthread>>,
           \/ mutex = None /\ mutex' = t /\ pc[t] \notin Locked /\ pc'[t] \in Locked
           \/ mutex' = mutex /\ (pc[t] \in Locked <=> pc'[t] \in Locked)
           \/ mutex' = None /\ pc[t] \in Locked /\ pc'[t] \notin Locked
    PROVE  Exclusive'
<1> USE DEF Wakes, Exclusive, MutexInv, HandlersPlaced
<1>1. CASE mutex = None /\ mutex' = t /\ pc[t] \notin Locked /\ pc'[t] \in Locked
  BY <1>1
<1>2. CASE mutex' = mutex /\ (pc[t] \in Locked <=> pc'[t] \in Locked)
  <2>1. \A u \in Threads : pc'[u] \in Locked <=> pc[u] \in Locked
    BY <1>2
  <2>2. HandlersPlaced' /\ mutex' \in Threads \cup {None}
    BY <1>2 DEF Typed, TypeOK
  <2>3. mutex' # None => (pc'[mutex'] \in Locked <=> pc[mutex] \in Locked)
    BY <1>2, <2>1, <2>2
  <2> HIDE DEF Wakes
  <2>4. \A s \in Signals : hpc'[s] = "unlock" => mutex' # None
    BY <1>2
  <2> QED BY <1>2, <2>1, <2>2, <2>3, <2>4
<1>3. CASE mutex' = None /\ pc[t] \in Locked /\ pc'[t] \notin Locked
  BY <1>3
<1> QED BY <1>1, <1>2, <1>3

(* The three ways of going from one place to another keep the mutex        *)
(* exclusive.                                                              *)
LEMMA ExclusiveMove ==
    ASSUME Typed, Exclusive, NEW t \in Threads, NEW from, NEW to,
           \/ Move(t, from, to) /\ (from \in Locked <=> to \in Locked)
           \/ Lock(t, from, to) /\ from \notin Locked /\ to \in Locked
           \/ Unlock(t, from, to) /\ from \in Locked /\ to \notin Locked
    PROVE  Exclusive'
<1>1. pc[t] = from /\ pc' = [pc EXCEPT ![t] = to]
  BY DEF Move, Lock, Unlock, At, Goto
<1>2. pc'[t] = to /\ Wakes(t)
  BY <1>1 DEF Typed, TypeOK, Wakes
<1> QED
  BY <1>1, <1>2, ExclusiveThread DEF Move, Lock, Unlock, handlers

(* Every step keeps the mutex exclusive.                                   *)
LEMMA ExclusiveNext == Typed /\ Exclusive /\ [Next]_vars => Exclusive'
<1> SUFFICES ASSUME Typed, Exclusive, [Next]_vars PROVE Exclusive'
  OBVIOUS
<1>1. CASE MainStep \/ AcceptError
  <2>1. CASE Start
    BY <2>1, ExclusiveThread DEF Start, At, Goto, Wakes, handlers, Locked, Typed, TypeOK
  <2>2. CASE MainLoop \/ AcceptEnter \/ AcceptClosed \/ AcceptError \/ AcceptFailed \/ Join
    BY <2>2, ExclusiveMove DEF MainLoop, AcceptEnter, AcceptClosed, AcceptError,
       AcceptFailed, Join, Locked
  <2>3. ASSUME NEW c \in Conns, Accept(c) PROVE Exclusive'
    BY <2>3, ExclusiveThread DEF Accept, At, Goto, Wakes, handlers, Locked, Typed, TypeOK
  <2>4. CASE PushLock \/ PushMustWait \/ PushSleep \/ PushUnlock \/ ShutUnlock
    BY <2>4, ExclusiveMove DEF PushLock, PushMustWait, PushSleep, PushUnlock, ShutUnlock,
       Locked
  <2>5. CASE PushDrop
    BY <2>5, ExclusiveThread DEF PushDrop, At, Goto, Wakes, handlers, Locked, Typed, TypeOK
  <2>6. CASE PushStore
    <3>1. pc[Main] = "push" /\ pc'[Main] = "push_unlock" /\ Wakes(Main)
      BY <2>6 DEF PushStore, Store, At, SignalOne, Goto, not_empty, Wakes, Locked, Typed, TypeOK
    <3> QED BY <2>6, <3>1, ExclusiveThread DEF PushStore, Store, handlers, Locked
  <2>7. CASE ShutBroadcast
    <3>1. pc[Main] = "shut_lock" /\ pc'[Main] = "shut_unlock" /\ Wakes(Main)
      BY <2>7 DEF ShutBroadcast, At, Woken, not_empty, Wakes, Locked
    <3> QED BY <2>7, <3>1, ExclusiveThread DEF ShutBroadcast, handlers, Locked
  <2> QED BY <1>1, <2>1, <2>2, <2>3, <2>4, <2>5, <2>6, <2>7 DEF MainStep, Push
<1>2. ASSUME NEW w \in Workers, WorkerStep(w) PROVE Exclusive'
  <2>1. CASE WorkerLoop(w) \/ Recv(w)
    BY <2>1, ExclusiveMove DEF WorkerLoop, Recv, Receive, Locked
  <2>2. CASE PopLock(w) \/ PopMustWait(w) \/ PopSleep(w) \/ PopNothing(w) \/ PopUnlock(w)
    BY <2>2, ExclusiveMove DEF PopLock, PopMustWait, PopSleep, PopNothing, PopUnlock, Locked
  <2>3. CASE PopTake(w)
    <3>1. pc[w] = "pop" /\ pc'[w] = "pop_unlock" /\ Wakes(w)
      BY <2>3 DEF PopTake, Take, At, SignalOne, Goto, not_full, Wakes, Locked, Typed, TypeOK
    <3> QED BY <2>3, <3>1, ExclusiveThread DEF PopTake, Take, handlers, Locked
  <2>4. CASE Send(w) \/ Close(w)
    BY <2>4, ExclusiveThread DEF Send, Close, At, Goto, Wakes, handlers, Locked, Typed, TypeOK
  <2> QED BY <1>2, <2>1, <2>2, <2>3, <2>4 DEF WorkerStep, Pop
<1>3. ASSUME NEW s \in Signals, HandlerStep(s) PROVE Exclusive'
  <2> USE DEF HandlerMove, Exclusive, MutexInv, HandlersPlaced, Typed, TypeOK
  <2>1. CASE HandlerFlag(s)
    BY <1>3, <2>1 DEF HandlerFlag
  <2>2. CASE HandlerClose(s)
    BY <1>3, <2>2 DEF HandlerClose
  <2>3. CASE HandlerBroadcast(s)
    <3>1. \A t \in Threads : pc[t] \notin Locked /\ pc'[t] \notin Locked
      BY <2>3 DEF HandlerBroadcast, Broadcast, Woken, Locked
    <3>2. hthread[s] \in Threads /\ mutex' = hthread[s] /\ hpc' = [hpc EXCEPT ![s] = "unlock"]
          /\ hthread' = hthread /\ mutex = None
      BY <1>3, <2>3 DEF HandlerBroadcast, Broadcast
    <3> QED BY <3>1, <3>2
  <2>4. CASE HandlerReturn(s)
    <3>1. /\ hthread[s] \in Threads /\ mutex = hthread[s] /\ mutex' = None
          /\ hpc' = [hpc EXCEPT ![s] = "done"] /\ hthread' = hthread /\ hpc[s] = "unlock"
      BY <1>3, <2>4 DEF HandlerReturn
    <3>2. \A t \in Threads : pc[t] \notin Locked
      BY <3>1
    <3>3. PICK place \in Interrupted(pc[hthread[s]]) : pc' = [pc EXCEPT ![hthread[s]] = place]
      BY <2>4 DEF HandlerReturn, Goto
    <3>4. place = pc[hthread[s]] \/ place = "failed" \/ place = "close"
      BY <3>3 DEF Interrupted
    <3>5. \A t \in Threads : pc'[t] \notin Locked
      BY <3>1, <3>2, <3>3, <3>4 DEF Locked
    <3> QED BY <3>1, <3>5
  <2> QED BY <1>3, <2>1, <2>2, <2>3, <2>4 DEF HandlerStep
<1>4. ASSUME NEW t \in Threads, SpuriousWake(t) PROVE Exclusive'
  <2>1. Wakes(t) /\ pc[t] \notin Locked /\ pc'[t] \notin Locked
    BY <1>4 DEF SpuriousWake, Woken, not_empty, not_full, Wakes, Locked
  <2> QED BY <1>4, <2>1, ExclusiveThread DEF SpuriousWake, handlers
<1>5. ASSUME NEW s \in Signals, NEW t \in SignalThreads, Deliver(s, t) PROVE Exclusive'
  BY <1>5 DEF Deliver, Exclusive, MutexInv, HandlersPlaced, Typed, TypeOK
<1>6. ASSUME NEW c \in Conns, ClientStep(c) PROVE Exclusive'
  BY <1>6 DEF ClientStep, ClientConnect, ClientSend, ClientClose, handlers, Exclusive,
     MutexInv, HandlersPlaced
<1>7. CASE UNCHANGED vars
  BY <1>7 DEF vars, handlers, Exclusive, MutexInv, HandlersPlaced
<1> QED
  BY <1>1, <1>2, <1>3, <1>4, <1>5, <1>6, <1>7 DEF Next, ServerStep

(* Mutual exclusion: the queue's mutex is held by exactly the thread that  *)
(* is, itself or in a signal handler, between lock and unlock.             *)
THEOREM MutualExclusion == Spec => []MutexInv
<1>1. Typed /\ Exclusive /\ [Next]_vars => (Typed /\ Exclusive)'
  BY TypedNext, ExclusiveNext
<1>2. Spec => [](Typed /\ Exclusive)
  BY <1>1, TypedInit, ExclusiveInit, PTL DEF Spec
<1> QED
  BY <1>2, PTL DEF Exclusive

-----------------------------------------------------------------------------
(* The ring buffer.  Indices stay below 2 * QueueSize before reduction, so  *)
(* one subtraction reduces them.                                           *)
LEMMA ModSmall == ASSUME NEW a \in 0..QueueSize-1 PROVE a % QueueSize = a
OBVIOUS

(* The remainder of an index that has run over the end of the ring once.   *)
LEMMA ModOnce ==
    ASSUME NEW a \in QueueSize..2*QueueSize-1 PROVE a % QueueSize = a - QueueSize
OBVIOUS

(* Only queue_push's store and queue_pop's take touch the queue. *)
LEMMA QueueSteps ==
    [Next]_vars => UNCHANGED queue \/ PushStore \/ \E w \in Workers : PopTake(w)
<1> SUFFICES ASSUME [Next]_vars PROVE UNCHANGED queue \/ PushStore \/ \E w \in Workers : PopTake(w)
  OBVIOUS
<1> USE DEF Move, Lock, Unlock
<1>1. CASE MainStep \/ AcceptError
  BY <1>1 DEF MainStep, AcceptError, Start, MainLoop, AcceptEnter, AcceptClosed,
     AcceptFailed, Accept, Push, PushLock, PushMustWait, PushSleep, PushDrop, PushUnlock,
     ShutBroadcast, ShutUnlock, Join
<1>2. ASSUME NEW w \in Workers, WorkerStep(w) PROVE UNCHANGED queue \/ PopTake(w)
  BY <1>2 DEF WorkerStep, WorkerLoop, Pop, PopLock, PopMustWait, PopSleep, PopNothing,
     PopUnlock, Recv, Receive, Send, Close
<1>3. CASE (\E t \in Threads : SpuriousWake(t)) \/ (\E c \in Conns : ClientStep(c))
           \/ (\E s \in Signals : HandlerStep(s) \/ \E t \in SignalThreads : Deliver(s, t))
           \/ UNCHANGED vars
  BY <1>3 DEF SpuriousWake, ClientStep, ClientConnect, ClientSend, ClientClose, HandlerStep,
     HandlerFlag, HandlerClose, HandlerBroadcast, Broadcast, HandlerReturn, HandlerMove,
     Deliver, vars
<1> QED BY <1>1, <1>2, <1>3 DEF Next, ServerStep

(* Every step keeps the ring between head and tail.                        *)
LEMMA RingStep == Typed /\ RingInv /\ [Next]_vars => RingInv'
<1> SUFFICES ASSUME Typed, RingInv, [Next]_vars PROVE RingInv'
  OBVIOUS
<1> USE DEF RingInv
<1>1. head \in 0..QueueSize-1 /\ tail \in 0..QueueSize-1 /\ count \in 0..QueueSize
  BY DEF Typed, TypeOK
<1>2. CASE UNCHANGED queue
  BY <1>2 DEF queue
<1>3. CASE PushStore
  <2>1. count < QueueSize /\ head' = head /\ count' = count + 1
        /\ tail' = (tail + 1) % QueueSize
    BY <1>1, <1>3 DEF PushStore, Store
  <2>2. CASE head + count < QueueSize
    <3>1. tail = head + count
      BY <1>1, <2>2, ModSmall
    <3>2. head + count' = head + count + 1
      BY <1>1, <2>1
    <3> QED BY <2>1, <3>1, <3>2
  <2>3. CASE head + count >= QueueSize
    <3>1. tail = head + count - QueueSize
      BY <1>1, <2>1, <2>3, ModOnce
    <3>2. (head + count + 1) % QueueSize = head + count + 1 - QueueSize
      BY <1>1, <2>1, <2>3, ModOnce
    <3>3. (tail + 1) % QueueSize = tail + 1
      BY <1>1, <2>1, <2>3, <3>1, ModSmall
    <3> QED BY <1>1, <2>1, <3>1, <3>2, <3>3
  <2> QED BY <1>1, <2>2, <2>3
<1>4. ASSUME NEW w \in Workers, PopTake(w) PROVE RingInv'
  <2>1. count > 0 /\ tail' = tail /\ count' = count - 1 /\ head' = (head + 1) % QueueSize
    BY <1>1, <1>4 DEF PopTake, Take
  <2>2. CASE head + 1 < QueueSize
    <3>1. head' = head + 1
      BY <1>1, <2>1, <2>2, ModSmall
    <3> QED BY <1>1, <2>1, <3>1
  <2>3. CASE head + 1 = QueueSize
    <3>1. head' = 0 /\ head = QueueSize - 1
      BY <1>1, <2>1, <2>3, ModOnce
    <3>2. (head + count) % QueueSize = count - 1
      BY <1>1, <2>1, <2>3, ModOnce
    <3>3. (count - 1) % QueueSize = count - 1
      BY <1>1, <2>1, ModSmall
    <3> QED BY <1>1, <2>1, <3>1, <3>2, <3>3
  <2> QED BY <1>1, <2>2, <2>3
<1> QED BY <1>2, <1>3, <1>4, QueueSteps

(* The ring's tail is always the slot after the last queued entry, so a    *)
(* push into a ring that is not full overwrites no queued connection.      *)
THEOREM RingCorrect == Spec => []RingInv
<1>1. Init => RingInv
  BY ModSmall DEF Init, RingInv
<1>2. Typed /\ RingInv /\ [Next]_vars => (Typed /\ RingInv)'
  BY TypedNext, RingStep
<1>3. Spec => [](Typed /\ RingInv)
  BY <1>1, <1>2, TypedInit, PTL DEF Spec
<1> QED
  BY <1>3, PTL

-----------------------------------------------------------------------------
(* Sleeping on the condition variables.  A thread is asleep from its       *)
(* decision to wait, taken under the mutex, to its wakeup.                 *)
Sleeping == {"pop_sleep", "pop_wait", "push_sleep", "push_wait"}

SleepInv ==
    /\ pc[Main] \in Sleeping => count = QueueSize
    /\ \A s \in Signals : hpc[s] \in {"close", "lock", "unlock", "done"} => ~server_running
    /\ \A s \in Signals : hpc[s] \in {"unlock", "done"} => \A t \in Threads : pc[t] \notin Sleeping

(* At the start no thread sleeps on a condition variable.                  *)
LEMMA SleepInit == Init => SleepInv
BY DEF Init, SleepInv, Sleeping

(* Steps that put nobody to sleep and leave the queue, the flag and the    *)
(* handlers alone.                                                         *)
LEMMA SleepAwake ==
    ASSUME SleepInv, UNCHANGED <<count, server_running, hpc>>,
           \A t \in Threads : pc'[t] \in Sleeping => pc[t] \in Sleeping
    PROVE  SleepInv'
BY DEF SleepInv

(* Going from place to place keeps the sleepers woken, if it puts no       *)
(* thread to sleep.                                                        *)
LEMMA SleepMove ==
    ASSUME Typed, SleepInv, NEW t \in Threads, NEW from, NEW to,
           Move(t, from, to) \/ Lock(t, from, to) \/ Unlock(t, from, to),
           to \in Sleeping => from \in Sleeping
    PROVE  SleepInv'
<1>1. pc[t] = from /\ pc' = [pc EXCEPT ![t] = to] /\ UNCHANGED <<count, server_running, hpc>>
  BY DEF Move, Lock, Unlock, At, Goto, control, queue, handlers
<1> QED
  BY <1>1, SleepAwake DEF Typed, TypeOK

(* A thread that decides to wait has just read server_running as true, so  *)
(* no handler has set it; main does so on a full ring only.                *)
LEMMA SleepWait ==
    ASSUME Typed, SleepInv, server_running, NEW t \in Threads, NEW from, NEW to,
           Move(t, from, to), t = Main => count = QueueSize
    PROVE  SleepInv'
<1>1. pc' = [pc EXCEPT ![t] = to] /\ UNCHANGED <<count, server_running, hpc>>
  BY DEF Move, At, Goto, control, queue, handlers
<1> QED
  BY <1>1 DEF SleepInv, Typed, TypeOK

(* Every step keeps the sleepers woken at a shutdown.                      *)
LEMMA SleepNext == Typed /\ Exclusive /\ SleepInv /\ [Next]_vars => SleepInv'
<1> SUFFICES ASSUME Typed, Exclusive, SleepInv, [Next]_vars PROVE SleepInv'
  OBVIOUS
<1>0. /\ pc \in [Threads -> WorkerPcs \cup MainPcs] /\ count \in 0..QueueSize
      /\ hpc \in [Signals -> {"unsent", "flag", "close", "lock", "unlock", "done"}]
  BY DEF Typed, TypeOK
<1>1. CASE MainStep \/ AcceptError
  <2>1. CASE MainLoop \/ AcceptEnter \/ AcceptClosed \/ AcceptError \/ AcceptFailed \/ Join
    BY <2>1, SleepMove DEF MainLoop, AcceptEnter, AcceptClosed, AcceptError, AcceptFailed,
       Join, Sleeping
  <2>2. CASE PushLock \/ PushSleep \/ PushUnlock \/ ShutUnlock
    BY <2>2, SleepMove DEF PushLock, PushSleep, PushUnlock, ShutUnlock, Sleeping
  <2>3. CASE PushMustWait
    BY <2>3, SleepWait DEF PushMustWait
  <2>4. CASE Start \/ PushDrop \/ \E c \in Conns : Accept(c)
    BY <1>0, <2>4, SleepAwake DEF Start, PushDrop, Accept, At, Goto, control, queue, handlers,
       Sleeping
  <2>5. CASE ShutBroadcast
    BY <1>0, <2>5, SleepAwake DEF ShutBroadcast, Woken, control, queue, handlers, Sleeping
  <2>6. CASE PushStore
    <3>1. \A t \in Threads : pc'[t] \in Sleeping => pc[t] \in Sleeping
      BY <1>0, <2>6 DEF PushStore, Store, SignalOne, Goto, Sleeping
    <3>2. pc'[Main] \notin Sleeping
      BY <1>0, <2>6 DEF PushStore, Store, SignalOne, Goto, Sleeping, not_empty
    <3> QED BY <2>6, <3>1, <3>2 DEF PushStore, Store, control, handlers, SleepInv
  <2> QED BY <1>1, <2>1, <2>2, <2>3, <2>4, <2>5, <2>6 DEF MainStep, Push
<1>2. ASSUME NEW w \in Workers, WorkerStep(w) PROVE SleepInv'
  <2>1. CASE WorkerLoop(w) \/ Recv(w)
    BY <2>1, SleepMove DEF WorkerLoop, Recv, Receive, Sleeping
  <2>2. CASE PopLock(w) \/ PopSleep(w) \/ PopNothing(w) \/ PopUnlock(w)
    BY <2>2, SleepMove DEF PopLock, PopSleep, PopNothing, PopUnlock, Sleeping
  <2>3. CASE PopMustWait(w)
    BY <2>3, SleepWait DEF PopMustWait
  <2>4. CASE PopTake(w)
    <3>1. \A t \in Threads : pc'[t] \in Sleeping => pc[t] \in Sleeping
      BY <1>0, <2>4 DEF PopTake, Take, SignalOne, Goto, Sleeping
    <3>2. pc[Main] # "push_sleep"      \* main would hold the mutex, which w holds
      BY <2>4 DEF PopTake, Take, At, Exclusive, MutexInv, Locked
    <3>3. pc'[Main] \notin Sleeping    \* the signal wakes main, the only waiter
      <4>1. CASE pc[Main] = "push_wait"
        BY <1>0, <2>4, <4>1 DEF PopTake, Take, SignalOne, Goto, Sleeping, not_full
      <4>2. CASE pc[Main] # "push_wait"
        <5>1. pc[Main] \notin Sleeping
          BY <3>2, <4>2 DEF Sleeping, Typed, TypeOK, MainPcs
        <5> QED BY <3>1, <5>1
      <4> QED BY <4>1, <4>2
    <3> QED BY <2>4, <3>1, <3>3 DEF PopTake, Take, control, handlers, SleepInv
  <2>5. CASE Send(w) \/ Close(w)
    BY <1>0, <2>5, SleepAwake DEF Send, Close, At, Goto, control, queue, handlers, Sleeping
  <2> QED BY <1>2, <2>1, <2>2, <2>3, <2>4, <2>5 DEF WorkerStep, Pop
<1>3. ASSUME NEW s \in Signals, HandlerStep(s) PROVE SleepInv'
  <2> USE <1>0 DEF HandlerMove, queue
  <2>1. CASE HandlerFlag(s)
    BY <2>1 DEF HandlerFlag, SleepInv
  <2>2. CASE HandlerClose(s)
    BY <2>2 DEF HandlerClose, SleepInv
  <2>3. CASE HandlerBroadcast(s)
    <3>1. \A t \in Threads : pc'[t] \notin Sleeping
      <4>1. \A t \in Threads : pc[t] \notin Locked
        BY <2>3 DEF HandlerBroadcast, Exclusive, MutexInv
      <4>2. \A t \in Threads \ (not_empty \cup not_full) : pc[t] \notin Sleeping
        BY <4>1 DEF Locked, Sleeping, not_empty, not_full, Typed, TypeOK, WorkerPcs, MainPcs
      <4> QED BY <2>3, <4>2 DEF HandlerBroadcast, Broadcast, Woken, Sleeping
    <3> QED BY <2>3, <3>1 DEF HandlerBroadcast, Broadcast, control, SleepInv
  <2>4. CASE HandlerReturn(s)
    <3>1. PICK place \in Interrupted(pc[hthread[s]]) : pc' = [pc EXCEPT ![hthread[s]] = place]
      BY <2>4 DEF HandlerReturn, Goto
    <3>2. place = pc[hthread[s]] \/ place = "failed" \/ place = "close"
      BY <3>1 DEF Interrupted
    <3>3. \A t \in Threads : pc'[t] \in Sleeping => pc[t] \in Sleeping
      BY <3>1, <3>2 DEF Sleeping
    <3> QED BY <2>4, <3>3 DEF HandlerReturn, control, SleepInv
  <2> QED BY <1>3, <2>1, <2>2, <2>3, <2>4 DEF HandlerStep
<1>4. ASSUME NEW t \in Threads, SpuriousWake(t) PROVE SleepInv'
  BY <1>4, SleepAwake DEF SpuriousWake, Woken, control, queue, handlers, Sleeping
<1>5. ASSUME NEW s \in Signals, NEW t \in SignalThreads, Deliver(s, t) PROVE SleepInv'
  BY <1>0, <1>5 DEF Deliver, control, queue, SleepInv
<1>6. CASE (\E c \in Conns : ClientStep(c)) \/ UNCHANGED vars
  BY <1>6, SleepAwake DEF ClientStep, ClientConnect, ClientSend, ClientClose, vars, control,
     queue, handlers
<1> QED BY <1>1, <1>2, <1>3, <1>4, <1>5, <1>6 DEF Next, ServerStep

(* The invariants of the mutex and of the sleepers hold together.          *)
LEMMA SleepCorrect == Spec => [](Typed /\ Exclusive /\ SleepInv)
<1>1. Typed /\ Exclusive /\ SleepInv /\ [Next]_vars => (Typed /\ Exclusive /\ SleepInv)'
  BY TypedNext, ExclusiveNext, SleepNext
<1> QED
  BY <1>1, TypedInit, ExclusiveInit, SleepInit, PTL DEF Spec

(* Once a signal handler has returned nobody sleeps on a condition         *)
(* variable, then or ever after: handle_signal's broadcasts are enough.    *)
THEOREM WakeupsCorrect == Spec => []ShutdownWakesAll
<1>1. SleepInv => ShutdownWakesAll
  BY DEF SleepInv, ShutdownWakesAll, not_full, not_empty, Sleeping
<1> QED
  BY <1>1, SleepCorrect, PTL

(* While main sleeps for room the ring is full: queue_pop's signal to      *)
(* not_full, sent for every pop, is never missed.                          *)
THEOREM PushWakeupsCorrect == Spec => []NoLostPush
<1>1. SleepInv => NoLostPush
  BY DEF SleepInv, NoLostPush, not_full, Sleeping
<1> QED
  BY <1>1, SleepCorrect, PTL

-----------------------------------------------------------------------------
(* One pthread_cond_signal per push is enough.  A worker about to sleep    *)
(* has found the ring empty and still holds the mutex.                     *)
PopInv ==
    /\ NoLostPop
    /\ \A w \in Workers : pc[w] = "pop_sleep" => count = 0

(* At the start no worker waits for a connection.                          *)
LEMMA PopInit == Init => PopInv
BY DEF Init, PopInv, NoLostPop, not_empty

(* The workers that are on the way to a connection can be counted.         *)
LEMMA OnTheWayFinite ==
    /\ IsFiniteSet(OnTheWay) /\ Cardinality(OnTheWay) \in Nat
    /\ IsFiniteSet(OnTheWay') /\ Cardinality(OnTheWay') \in Nat
<1>1. OnTheWay \in SUBSET Workers /\ OnTheWay' \in SUBSET Workers
  BY DEF OnTheWay
<1>2. IsFiniteSet(OnTheWay) /\ IsFiniteSet(OnTheWay')
  BY <1>1, FS_Subset
<1> QED  BY <1>2, FS_CardinalityType

(* A step that neither sends a worker to sleep nor keeps one from popping. *)
LEMMA PopQuiet ==
    ASSUME Typed, PopInv, count' = count,
           \A w \in Workers : /\ pc[w] \in {"pop_lock", "pop"} => pc'[w] \in {"pop_lock", "pop"}
                              /\ pc'[w] \in {"pop_wait", "pop_sleep"} => pc'[w] = pc[w]
    PROVE  PopInv'
<1>1. OnTheWay \in SUBSET OnTheWay' /\ not_empty' \subseteq not_empty
  BY DEF OnTheWay, not_empty
<1>2. Cardinality(OnTheWay) <= Cardinality(OnTheWay')
  BY <1>1, OnTheWayFinite, FS_Subset
<1>3. count \in Nat
  BY DEF Typed, TypeOK
<1> QED  BY <1>1, <1>2, <1>3, OnTheWayFinite DEF PopInv, NoLostPop

(* Going from place to place keeps a worker on the way to every            *)
(* connection, if it takes none off it.                                    *)
LEMMA PopMove ==
    ASSUME Typed, PopInv, NEW t \in Threads, NEW from, NEW to,
           Move(t, from, to) \/ Lock(t, from, to) \/ Unlock(t, from, to),
           \/ t = Main
           \/ /\ from \in {"pop_lock", "pop"} => to \in {"pop_lock", "pop"}
              /\ to \notin {"pop_wait", "pop_sleep"}
    PROVE  PopInv'
<1>1. pc[t] = from /\ pc' = [pc EXCEPT ![t] = to] /\ count' = count
  BY DEF Move, Lock, Unlock, At, Goto, queue
<1> QED
  BY <1>1, PopQuiet DEF Typed, TypeOK

(* Nothing is asked of an empty ring. *)
LEMMA PopEmpty == ASSUME count' = 0 PROVE PopInv'
BY OnTheWayFinite DEF PopInv, NoLostPop

(* A push wakes a worker for the connection it stores.                     *)
LEMMA PopStore == Typed /\ Exclusive /\ PopInv /\ PushStore => PopInv'
<1> SUFFICES ASSUME Typed, Exclusive, PopInv, PushStore PROVE PopInv'
  OBVIOUS
<1>1. pc[Main] = "push" /\ count' = count + 1 /\ count \in Nat /\ pc \in [Threads -> WorkerPcs \cup MainPcs]
  BY DEF PushStore, Store, At, Typed, TypeOK
<1>2. \A w \in Workers : pc[w] # "pop_sleep"      \* the mutex is main's
  BY <1>1 DEF Exclusive, MutexInv, Locked
<1>3. CASE not_empty = {} /\ pc' = [pc EXCEPT ![Main] = "push_unlock"]
  BY <1>1, <1>2, <1>3 DEF PopInv, NoLostPop, not_empty
<1>4. CASE \E u \in not_empty : pc' = [pc EXCEPT ![Main] = "push_unlock", ![u] = "pop_lock"]
  <2>1. PICK u \in not_empty : pc' = [pc EXCEPT ![Main] = "push_unlock", ![u] = "pop_lock"]
    BY <1>4
  <2>2. OnTheWay' = OnTheWay \cup {u} /\ u \notin OnTheWay
    BY <1>1, <2>1 DEF OnTheWay, not_empty
  <2>3. Cardinality(OnTheWay') = Cardinality(OnTheWay) + 1
    BY <2>2, OnTheWayFinite, FS_AddElement
  <2>4. count <= Cardinality(OnTheWay)
    BY <2>1 DEF PopInv, NoLostPop
  <2>5. count' <= Cardinality(OnTheWay')
    BY <1>1, <2>3, <2>4, OnTheWayFinite
  <2>6. \A w \in Workers : pc'[w] # "pop_sleep"
    BY <1>1, <1>2, <2>1
  <2> QED  BY <2>5, <2>6 DEF PopInv, NoLostPop
<1> QED  BY <1>3, <1>4 DEF PushStore, Store, SignalOne, Goto

(* A worker that takes a connection leaves enough others on the way to the *)
(* rest.                                                                   *)
LEMMA PopTaken == \A w \in Workers : Typed /\ Exclusive /\ PopInv /\ PopTake(w) => PopInv'
<1> SUFFICES ASSUME NEW w \in Workers, Typed, Exclusive, PopInv, PopTake(w) PROVE PopInv'
  OBVIOUS
<1>1. pc[w] = "pop" /\ count' = count - 1 /\ count \in Nat /\ pc \in [Threads -> WorkerPcs \cup MainPcs]
  BY DEF PopTake, Take, At, Typed, TypeOK
<1>2. \A v \in Workers : pc[v] # "pop_sleep"      \* the mutex is w's
  BY <1>1 DEF Exclusive, MutexInv, Locked
<1>3. pc'[w] = "pop_unlock" /\ \A v \in Workers \ {w} : pc'[v] = pc[v]
  BY <1>1 DEF PopTake, Take, SignalOne, Goto, not_full
<1>4. OnTheWay' = OnTheWay \ {w} /\ w \in OnTheWay /\ not_empty' = not_empty
  BY <1>1, <1>3 DEF OnTheWay, not_empty
<1>5. Cardinality(OnTheWay') = Cardinality(OnTheWay) - 1
  BY <1>4, OnTheWayFinite, FS_RemoveElement
<1>6. NoLostPop'
  BY <1>1, <1>4, <1>5, OnTheWayFinite DEF PopInv, NoLostPop
<1> QED  BY <1>2, <1>3, <1>6 DEF PopInv

(* Every step keeps a worker on the way to every connection while one      *)
(* sleeps.                                                                 *)
LEMMA PopNext == Typed /\ Exclusive /\ PopInv /\ [Next]_vars => PopInv'
<1> SUFFICES ASSUME Typed, Exclusive, PopInv, [Next]_vars PROVE PopInv'
  OBVIOUS
<1>0. pc \in [Threads -> WorkerPcs \cup MainPcs] /\ count \in Nat
  BY DEF Typed, TypeOK
<1>1. CASE MainStep \/ AcceptError
  <2>1. CASE \/ MainLoop \/ AcceptEnter \/ AcceptClosed \/ AcceptError \/ AcceptFailed \/ Join
             \/ PushLock \/ PushMustWait \/ PushSleep \/ PushUnlock \/ ShutUnlock
    BY <2>1, PopMove DEF MainLoop, AcceptEnter, AcceptClosed, AcceptError, AcceptFailed,
       Join, PushLock, PushMustWait, PushSleep, PushUnlock, ShutUnlock
  <2>2. CASE Start \/ PushDrop \/ \E c \in Conns : Accept(c)
    BY <1>0, <2>2, PopQuiet DEF Start, PushDrop, Accept, Goto, queue
  <2>3. CASE ShutBroadcast
    BY <1>0, <2>3, PopQuiet DEF ShutBroadcast, Woken, not_empty, queue
  <2>4. CASE PushStore
    BY <2>4, PopStore
  <2> QED BY <1>1, <2>1, <2>2, <2>3, <2>4 DEF MainStep, Push
<1>2. ASSUME NEW w \in Workers, WorkerStep(w) PROVE PopInv'
  <2>1. CASE WorkerLoop(w) \/ Recv(w) \/ PopLock(w) \/ PopUnlock(w)
    BY <2>1, PopMove DEF WorkerLoop, Recv, Receive, PopLock, PopUnlock
  <2>2. CASE PopMustWait(w) \/ PopNothing(w)
    BY <2>2, PopEmpty DEF PopMustWait, PopNothing, Move, queue
  <2>3. CASE PopSleep(w)
    BY <1>0, <2>3, PopEmpty DEF PopSleep, Unlock, At, queue, PopInv
  <2>4. CASE PopTake(w)
    BY <2>4, PopTaken
  <2>5. CASE Send(w) \/ Close(w)
    BY <1>0, <2>5, PopQuiet DEF Send, Close, At, Goto, queue
  <2> QED BY <1>2, <2>1, <2>2, <2>3, <2>4, <2>5 DEF WorkerStep, Pop
<1>3. ASSUME NEW s \in Signals, HandlerStep(s) PROVE PopInv'
  <2> USE <1>0 DEF HandlerMove, queue
  <2>1. CASE HandlerFlag(s) \/ HandlerClose(s)
    BY <2>1, PopQuiet DEF HandlerFlag, HandlerClose
  <2>2. CASE HandlerBroadcast(s)
    BY <2>2, PopQuiet DEF HandlerBroadcast, Broadcast, Woken, not_empty, not_full
  <2>3. CASE HandlerReturn(s)
    <3>1. PICK place \in Interrupted(pc[hthread[s]]) : pc' = [pc EXCEPT ![hthread[s]] = place]
      BY <2>3 DEF HandlerReturn, Goto
    <3>2. \/ place = pc[hthread[s]]
          \/ pc[hthread[s]] \in {"blocked", "recv"} /\ place \in {"failed", "close"}
      BY <3>1 DEF Interrupted
    <3> QED BY <2>3, <3>1, <3>2, PopQuiet DEF HandlerReturn
  <2> QED BY <1>3, <2>1, <2>2, <2>3 DEF HandlerStep
<1>4. ASSUME NEW t \in Threads, SpuriousWake(t) PROVE PopInv'
  BY <1>0, <1>4, PopQuiet DEF SpuriousWake, Woken, not_empty, not_full, queue
<1>5. CASE \/ \E s \in Signals : \E t \in SignalThreads : Deliver(s, t)
           \/ (\E c \in Conns : ClientStep(c)) \/ UNCHANGED vars
  BY <1>5, PopQuiet DEF Deliver, ClientStep, ClientConnect, ClientSend, ClientClose, vars, queue
<1> QED BY <1>1, <1>2, <1>3, <1>4, <1>5 DEF Next, ServerStep

(* While a worker sleeps there is for every queued connection one that is  *)
(* awake and on its way to it: with any number of workers it is enough     *)
(* that queue_push wakes one of them, whatever wakeups are spurious.       *)
THEOREM PopWakeupsCorrect == Spec => []NoLostPop
<1>1. Typed /\ Exclusive /\ PopInv /\ [Next]_vars => (Typed /\ Exclusive /\ PopInv)'
  BY TypedNext, ExclusiveNext, PopNext
<1>2. PopInv => NoLostPop
  BY DEF PopInv
<1> QED
  BY <1>1, <1>2, TypedInit, ExclusiveInit, PopInit, PTL DEF Spec

-----------------------------------------------------------------------------
(* The end.  When main has left its loop a handler has cleared the flag,   *)
(* and a worker that found it set has come to its wait by the time main    *)
(* gets the mutex for its broadcast.                                       *)
JoinInv ==
    /\ pc[Main] \in {"shut_lock", "shut_unlock", "join", "done"} => ~server_running
    /\ pc[Main] \in {"shut_unlock", "join", "done"} =>
          \A w \in Workers : pc[w] \notin {"pop_sleep", "pop_wait"}

(* Steps of a worker or of a handler that put no worker to sleep after the *)
(* flag is cleared, and leave main where it is or make its accept fail.    *)
LEMMA JoinQuiet ==
    ASSUME JoinInv, server_running' => server_running,
           pc'[Main] = pc[Main] \/ pc'[Main] \in MainPcs \ {"shut_lock", "shut_unlock", "join", "done"},
           \A w \in Workers : pc'[w] \in {"pop_sleep", "pop_wait"} =>
               pc[w] \in {"pop_sleep", "pop_wait"} \/ server_running
    PROVE  JoinInv'
BY DEF JoinInv

(* Every step keeps the workers awake once main is at its join.            *)
LEMMA JoinNext == Typed /\ Exclusive /\ JoinInv /\ [Next]_vars => JoinInv'
<1> SUFFICES ASSUME Typed, Exclusive, JoinInv, [Next]_vars PROVE JoinInv'
  OBVIOUS
<1>0. /\ pc \in [Threads -> WorkerPcs \cup MainPcs] /\ pc[Main] \in MainPcs
      /\ Main \in Threads /\ Main \notin Workers /\ Workers \subseteq Threads
  BY ConstantsAssumption DEF Typed, TypeOK, Threads
<1>1. CASE MainStep \/ AcceptError
  <2>1. CASE \/ MainLoop \/ AcceptEnter \/ AcceptClosed \/ AcceptError \/ AcceptFailed
             \/ PushLock \/ PushMustWait \/ PushSleep \/ PushUnlock \/ ShutUnlock \/ Join
    BY <1>0, <2>1 DEF MainLoop, AcceptEnter, AcceptClosed, AcceptError, AcceptFailed,
       PushLock, PushMustWait, PushSleep, PushUnlock, ShutUnlock, Join, Move, Lock, Unlock, At,
       Goto, control, JoinInv
  <2>2. CASE Start \/ PushDrop \/ (\E c \in Conns : Accept(c)) \/ PushStore
    BY <1>0, <2>2 DEF Start, PushDrop, Accept, PushStore, Store, SignalOne, not_empty, At, Goto,
       control, JoinInv
  <2>3. CASE ShutBroadcast
    <3>1. \A w \in Workers : pc[w] # "pop_sleep"       \* the mutex is free
      BY <2>3 DEF ShutBroadcast, Exclusive, MutexInv, Locked, Threads
    <3>2. \A w \in Workers : pc'[w] \notin {"pop_sleep", "pop_wait"}
      BY <1>0, <2>3, <3>1 DEF ShutBroadcast, Woken, not_empty
    <3>3. ~server_running'
      BY <2>3 DEF ShutBroadcast, At, control, JoinInv
    <3> QED BY <3>2, <3>3 DEF JoinInv
  <2> QED BY <1>1, <2>1, <2>2, <2>3 DEF MainStep, Push
<1>2. ASSUME NEW w \in Workers, WorkerStep(w) PROVE JoinInv'
  <2> USE <1>0 DEF Move, Lock, Unlock, At, Goto, control
  <2>1. CASE WorkerLoop(w) \/ Recv(w) \/ PopLock(w) \/ PopNothing(w) \/ PopUnlock(w)
    BY <2>1, JoinQuiet DEF WorkerLoop, Recv, Receive, PopLock, PopNothing, PopUnlock
  <2>2. CASE PopMustWait(w) \/ PopSleep(w)
    BY <2>2, JoinQuiet DEF PopMustWait, PopSleep
  <2>3. CASE PopTake(w)
    BY <2>3, JoinQuiet DEF PopTake, Take, SignalOne, not_full, MainPcs
  <2>4. CASE Send(w) \/ Close(w)
    BY <2>4, JoinQuiet DEF Send, Close
  <2> QED BY <1>2, <2>1, <2>2, <2>3, <2>4 DEF WorkerStep, Pop
<1>3. ASSUME NEW s \in Signals, HandlerStep(s) PROVE JoinInv'
  <2> USE <1>0 DEF HandlerMove, control
  <2>1. CASE HandlerFlag(s) \/ HandlerClose(s)
    BY <2>1, JoinQuiet DEF HandlerFlag, HandlerClose
  <2>2. CASE HandlerBroadcast(s)
    BY <2>2, JoinQuiet DEF HandlerBroadcast, Broadcast, Woken, not_empty, not_full, MainPcs
  <2>3. CASE HandlerReturn(s)
    <3>1. PICK place \in Interrupted(pc[hthread[s]]) : pc' = [pc EXCEPT ![hthread[s]] = place]
      BY <2>3 DEF HandlerReturn, Goto
    <3>2. place = pc[hthread[s]] \/ place \in {"failed", "close"}
      BY <3>1 DEF Interrupted
    <3>3. /\ pc'[Main] = pc[Main] \/ pc'[Main] \notin {"shut_lock", "shut_unlock", "join", "done"}
          /\ \A w \in Workers : pc'[w] = pc[w] \/ pc'[w] \in {"failed", "close"}
      BY <3>1, <3>2
    <3> QED BY <2>3, <3>3 DEF HandlerReturn, JoinInv
  <2> QED BY <1>3, <2>1, <2>2, <2>3 DEF HandlerStep
<1>4. ASSUME NEW t \in Threads, SpuriousWake(t) PROVE JoinInv'
  BY <1>0, <1>4, JoinQuiet DEF SpuriousWake, Woken, not_empty, not_full, control, MainPcs
<1>5. CASE \/ \E s \in Signals : \E t \in SignalThreads : Deliver(s, t)
           \/ (\E c \in Conns : ClientStep(c)) \/ UNCHANGED vars
  BY <1>5, JoinQuiet DEF Deliver, ClientStep, ClientConnect, ClientSend, ClientClose, vars, control
<1> QED BY <1>1, <1>2, <1>3, <1>4, <1>5 DEF Next, ServerStep

(* No worker main joins waits for a connection, then or ever after: the    *)
(* broadcast main makes between its lock and its unlock is enough, since a *)
(* worker reads the flag and enters its wait under the same mutex.         *)
THEOREM JoinWakeupsCorrect == Spec => []JoinWakeups
<1>1. Init => JoinInv
  BY DEF Init, JoinInv
<1>2. Typed /\ Exclusive /\ JoinInv /\ [Next]_vars => (Typed /\ Exclusive /\ JoinInv)'
  BY TypedNext, ExclusiveNext, JoinNext
<1>3. JoinInv => JoinWakeups
  BY DEF JoinInv, JoinWakeups, not_empty
<1> QED
  BY <1>1, <1>2, <1>3, TypedInit, ExclusiveInit, PTL DEF Spec

-----------------------------------------------------------------------------
(* The live slots of the ring and what a store or a take does to them. *)
Ring == Typed /\ RingInv

(* The place of the k-th queued connection, without the remainder.         *)
LEMMA SlotValue ==
    ASSUME Ring, NEW k \in 0..QueueSize-1
    PROVE  /\ Slot(k) \in 0..QueueSize-1
           /\ Slot(k) = IF head + k < QueueSize THEN head + k ELSE head + k - QueueSize
<1>1. head \in 0..QueueSize-1
  BY DEF Ring, Typed, TypeOK
<1>2. CASE head + k < QueueSize
  BY <1>1, <1>2, ModSmall DEF Slot
<1>3. CASE head + k >= QueueSize
  <2>1. Slot(k) = head + k - QueueSize
    BY <1>1, <1>3, ModOnce DEF Slot
  <2> QED BY <1>1, <1>3, <2>1
<1> QED BY <1>1, <1>2, <1>3

(* Two queued connections have different places.                           *)
LEMMA SlotInjective ==
    ASSUME Ring, NEW j \in 0..QueueSize-1, NEW k \in 0..QueueSize-1, Slot(j) = Slot(k)
    PROVE  j = k
<1>1. head \in 0..QueueSize-1
  BY DEF Ring, Typed, TypeOK
<1> QED BY <1>1, SlotValue

(* A push fills the place behind the last and leaves the others.           *)
LEMMA StoreSlots ==
    ASSUME Ring, PushStore
    PROVE  /\ \A k \in 0..count : Slot(k)' = Slot(k)
           /\ \A k \in 0..count-1 : client_sockets'[Slot(k)'] = client_sockets[Slot(k)]
           /\ \A k \in 0..count : k = count => client_sockets'[Slot(k)'] = client_sd[Main]
           /\ count' = count + 1
<1>1. count \in 0..QueueSize-1 /\ count' = count + 1 /\ head' = head
      /\ client_sockets' = [client_sockets EXCEPT ![tail] = client_sd[Main]]
      /\ client_sockets \in [0..QueueSize-1 -> Conns \cup {None}] /\ tail \in 0..QueueSize-1
  BY DEF Ring, Typed, TypeOK, PushStore, Store
<1>2. tail = Slot(count) /\ \A k \in 0..QueueSize-1 : Slot(k)' = Slot(k)
  BY <1>1 DEF Slot, Ring, RingInv
<1>3. ASSUME NEW k \in 0..count-1
      PROVE  client_sockets'[Slot(k)'] = client_sockets[Slot(k)]
  <2>1. k \in 0..QueueSize-1 /\ k # count
    BY <1>1
  <2>2. Slot(k) # tail /\ Slot(k) \in 0..QueueSize-1
    BY <1>1, <1>2, <2>1, SlotInjective, SlotValue
  <2> QED BY <1>1, <1>2, <2>1, <2>2
<1>4. ASSUME NEW k \in 0..count, k = count PROVE client_sockets'[Slot(k)'] = client_sd[Main]
  <2>1. Slot(k)' = tail
    BY <1>1, <1>2, <1>4
  <2> QED BY <1>1, <2>1
<1>5. \A k \in 0..count : Slot(k)' = Slot(k)
  BY <1>1, <1>2
<1> QED BY <1>1, <1>3, <1>4, <1>5

(* A pop empties the first place; the others move up by one.               *)
LEMMA TakeSlots ==
    ASSUME Ring, NEW w \in Workers, PopTake(w)
    PROVE  /\ \A k \in 0..count-2 : /\ Slot(k)' = Slot(k + 1)
                                    /\ client_sockets'[Slot(k)'] = client_sockets[Slot(k + 1)]
           /\ client_sd' = [client_sd EXCEPT ![w] = client_sockets[Slot(0)]]
           /\ count \in 1..QueueSize /\ count' = count - 1
<1>1. /\ count \in 1..QueueSize /\ count' = count - 1 /\ head \in 0..QueueSize-1
      /\ head' = (head + 1) % QueueSize /\ client_sockets' = client_sockets
      /\ client_sd' = [client_sd EXCEPT ![w] = client_sockets[head]]
  BY DEF Ring, Typed, TypeOK, PopTake, Take
<1>2. Slot(0) = head
  BY <1>1, SlotValue
<1>3. ASSUME NEW k \in 0..count-2 PROVE Slot(k)' = Slot(k + 1)
  <2>1. k \in 0..QueueSize-2 /\ k + 1 \in 0..QueueSize-1
    BY <1>1
  <2>2. CASE head + 1 < QueueSize
    <3>1. head' = head + 1
      BY <1>1, <2>2, ModSmall
    <3>2. head' + k = head + (k + 1)
      BY <1>1, <2>1, <3>1
    <3> QED BY <3>2 DEF Slot
  <2>3. CASE head + 1 = QueueSize
    <3>1. head' = 0
      BY <1>1, <2>3, ModOnce
    <3>2. Slot(k)' = k
      BY <2>1, <3>1, ModSmall DEF Slot
    <3>3. Slot(k + 1) = k
      BY <1>1, <2>1, <2>3, SlotValue
    <3> QED BY <3>2, <3>3
  <2> QED BY <1>1, <2>2, <2>3
<1> QED BY <1>1, <1>2, <1>3

(* A push adds just its connection to those queued.                        *)
LEMMA StoreQueued == Ring /\ PushStore => Queued' = Queued \cup {client_sd[Main]}
<1> SUFFICES ASSUME Ring, PushStore PROVE Queued' = Queued \cup {client_sd[Main]}
  OBVIOUS
<1>1. count \in Nat /\ count' = count + 1
  BY StoreSlots DEF Ring, Typed, TypeOK
<1>2. Queued' = {client_sockets'[Slot(k)'] : k \in 0..count'-1}
  BY DEF Queued
<1>3. \A k : k \in 0..count'-1 <=> k \in 0..count-1 \/ k = count
  BY <1>1
<1>4. \A k \in 0..count-1 : client_sockets'[Slot(k)'] = client_sockets[Slot(k)]
  BY StoreSlots
<1>5. \A k : k = count => client_sockets'[Slot(k)'] = client_sd[Main]
  BY <1>1, StoreSlots
<1> QED BY <1>2, <1>3, <1>4, <1>5 DEF Queued

(* A pop removes one place from those queued.                              *)
LEMMA TakeQueued ==
    ASSUME Ring, NEW w \in Workers, PopTake(w)
    PROVE  /\ Queued = Queued' \cup {client_sockets[Slot(0)]}
           /\ \A c \in Queued' : \E k \in 1..count-1 : c = client_sockets[Slot(k)]
<1>1. count \in 1..QueueSize /\ count' = count - 1
  BY TakeSlots
<1>2. Queued' = {client_sockets'[Slot(k)'] : k \in 0..count'-1}
  BY DEF Queued
<1>3. ASSUME NEW c \in Queued' PROVE \E k \in 1..count-1 : c = client_sockets[Slot(k)]
  <2>1. PICK k \in 0..count-2 : c = client_sockets'[Slot(k)']
    BY <1>1, <1>2, <1>3
  <2>2. c = client_sockets[Slot(k + 1)] /\ k + 1 \in 1..count-1
    BY <1>1, <2>1, TakeSlots
  <2> QED BY <2>2
<1>4. ASSUME NEW k \in 1..count-1 PROVE client_sockets[Slot(k)] \in Queued'
  <2>1. k - 1 \in 0..count-2 /\ (k - 1) + 1 = k /\ k - 1 \in 0..count'-1
    BY <1>1
  <2>2. client_sockets'[Slot(k - 1)'] = client_sockets[Slot(k)]
    BY <2>1, TakeSlots
  <2> QED BY <1>2, <2>1, <2>2
<1>5. 0..count-1 = {0} \cup 1..count-1
  BY <1>1
<1>6. Queued = {client_sockets[Slot(k)] : k \in 1..count-1} \cup {client_sockets[Slot(0)]}
  BY <1>5 DEF Queued
<1> QED BY <1>3, <1>4, <1>6

-----------------------------------------------------------------------------
(* Ownership of descriptors.  An answered connection is closed or about to *)
(* be closed by the worker that answered it.                               *)
AnswersInv ==
    \A a \in answers : \/ sock[a[2]] = "closed"
                       \/ pc[a[1]] = "close" /\ client_sd[a[1]] = a[2]

(* Main, once it has left queue_push, goes to accept again only while the  *)
(* server runs.                                                            *)
AfterPush == pc[Main] \in {"push_unlock", "loop", "shut_lock", "shut_unlock", "join", "done"}

(* A descriptor was forgotten by the last queue_push there will be.        *)
DropInv == \A c \in Forgotten : /\ ~server_running /\ AfterPush
                                /\ \A d \in Forgotten : c = d

Owned == NoConnShared /\ DropInv /\ AnswersInv /\ OneAnswer

(* At the start nobody has a connection.                                   *)
LEMMA OwnedInit == Init => Owned
<1> SUFFICES ASSUME Init PROVE Owned
  OBVIOUS
<1>1. Queued = {}
  BY DEF Init, Queued
<1>2. NoConnShared
  BY <1>1 DEF Init, NoConnShared
<1> QED BY <1>2 DEF Init, Owned, DropInv, Forgotten, AnswersInv, OneAnswer

(* The steps that move a descriptor, close it or answer on it. *)
OwnershipStep ==
    \/ PushStore \/ PushDrop \/ \E c \in Conns : Accept(c) \/ ClientConnect(c)
    \/ \E w \in Workers : PopTake(w) \/ Send(w) \/ Close(w)

(* Every step is one of those that pass connections on, or leaves them     *)
(* where they are.                                                         *)
LEMMA OwnershipSteps ==
    ASSUME Typed, [Next]_vars
    PROVE  \/ OwnershipStep
           \/ /\ UNCHANGED <<queue, client_sd, sock, answers>>
              /\ server_running' => server_running
              /\ ~server_running /\ AfterPush => AfterPush'
              /\ \A w \in Workers : pc[w] = "close" => pc'[w] = "close"
<1> USE ConstantsAssumption DEF Move, Lock, Unlock, At, Goto, Typed, TypeOK, control, net, Threads, AfterPush
<1>1. CASE MainStep \/ AcceptError
  <2>1. CASE ShutBroadcast
    BY <2>1 DEF ShutBroadcast, Woken, not_empty
  <2> QED BY <1>1, <2>1 DEF MainStep, AcceptError, Start, MainLoop, AcceptEnter, AcceptClosed,
     AcceptFailed, Push, PushLock, PushMustWait, PushSleep, PushUnlock, ShutUnlock, Join,
     OwnershipStep
<1>2. ASSUME NEW w \in Workers, WorkerStep(w)
      PROVE  \/ OwnershipStep
             \/ /\ UNCHANGED <<queue, client_sd, sock, answers, server_running>>
                /\ AfterPush => AfterPush'
                /\ \A v \in Workers : pc[v] = "close" => pc'[v] = "close"
  <2>1. CASE PopTake(w) \/ Send(w) \/ Close(w)
    BY <2>1 DEF OwnershipStep
  <2> QED BY <1>2, <2>1 DEF WorkerStep, WorkerLoop, Pop, PopLock, PopMustWait, PopSleep,
     PopNothing, PopUnlock, Recv, Receive
<1>3. ASSUME NEW s \in Signals, HandlerStep(s)
      PROVE  /\ UNCHANGED <<queue, client_sd, sock, answers>>
             /\ server_running' => server_running
             /\ ~server_running /\ AfterPush => AfterPush'
             /\ \A w \in Workers : pc[w] = "close" => pc'[w] = "close"
  <2> USE DEF HandlerMove
  <2>1. CASE HandlerFlag(s) \/ HandlerClose(s)
    BY <2>1 DEF HandlerFlag, HandlerClose
  <2>2. CASE HandlerBroadcast(s)
    BY <2>2 DEF HandlerBroadcast, Broadcast, Woken, not_empty, not_full
  <2>3. CASE HandlerReturn(s)
    <3>1. PICK place \in Interrupted(pc[hthread[s]]) : pc' = [pc EXCEPT ![hthread[s]] = place]
      BY <2>3 DEF HandlerReturn
    <3>2. place = pc[hthread[s]] \/ pc[hthread[s]] = "blocked" \/ pc[hthread[s]] = "recv"
      BY <3>1 DEF Interrupted
    <3> QED BY <2>3, <3>1, <3>2 DEF HandlerReturn
  <2> QED BY <1>3, <2>1, <2>2, <2>3 DEF HandlerStep
<1>4. CASE \/ \E t \in Threads : SpuriousWake(t)
           \/ \E s \in Signals : \E t \in SignalThreads : Deliver(s, t)
           \/ (\E c \in Conns : ClientStep(c)) \/ UNCHANGED vars
  BY <1>4 DEF SpuriousWake, Woken, not_empty, not_full, Deliver, ClientStep, ClientSend,
     ClientClose, vars, OwnershipStep
<1> QED BY <1>1, <1>2, <1>3, <1>4 DEF Next, ServerStep

(* A step that forgets nothing keeps the bound on what is forgotten, if it *)
(* leaves main past its last push.                                         *)
LEMMA DropQuiet ==
    ASSUME DropInv, Forgotten' \subseteq Forgotten,
           AfterPush => AfterPush' /\ (server_running' => server_running)
    PROVE  DropInv'
BY DEF DropInv

(* Every step keeps each connection with one owner.                        *)
LEMMA OwnedNext == Ring /\ Owned /\ [Next]_vars => Owned'
<1> SUFFICES ASSUME Ring, Owned, [Next]_vars PROVE Owned'
  OBVIOUS
<1>0. /\ client_sd \in [Threads -> Conns \cup {None}] /\ answers \subseteq Workers \X Conns
      /\ sock \in [Conns -> {"idle", "backlog", "accepted", "closed"}]
      /\ count \in 0..QueueSize /\ pc \in [Threads -> WorkerPcs \cup MainPcs]
  BY DEF Ring, Typed, TypeOK
<1>1. CASE /\ UNCHANGED <<queue, client_sd, sock, answers>>
           /\ server_running' => server_running
           /\ ~server_running /\ AfterPush => AfterPush'
           /\ \A w \in Workers : pc[w] = "close" => pc'[w] = "close"
  <2>1. Queued' = Queued /\ \A k : Slot(k)' = Slot(k)
    BY <1>1 DEF Queued, Slot, queue
  <2> QED BY <1>0, <1>1, <2>1 DEF Owned, NoConnShared, DropInv, Forgotten, Held, AfterPush, AnswersInv, OneAnswer, queue
<1>2. CASE \/ PushDrop \/ \E c \in Conns : Accept(c) \/ ClientConnect(c)
           \/ \E w \in Workers : Send(w) \/ Close(w)
  <2>0. UNCHANGED queue
    BY <1>2 DEF PushDrop, Accept, ClientConnect, Send, Close
  <2>1. Queued' = Queued /\ (\A k : Slot(k)' = Slot(k)) /\ client_sockets' = client_sockets
        /\ count' = count
    BY <2>0 DEF Queued, Slot, queue
  <2>2. ASSUME NEW c \in Conns, Accept(c) PROVE Owned'
    <3>1. /\ sock[c] = "backlog" /\ sock' = [sock EXCEPT ![c] = "accepted"]
          /\ client_sd' = [client_sd EXCEPT ![Main] = c] /\ client_sd[Main] = None
          /\ answers' = answers /\ server_running' = server_running
          /\ pc[Main] = "blocked" /\ \A w \in Workers : pc'[w] = pc[w]
      BY <1>0, <2>2 DEF Accept, At, Goto, InBacklog, control, Ring, Typed, HandInv
    <3>2. c \notin Queued /\ \A t \in Threads : client_sd[t] # c
      BY <1>0, <3>1 DEF Owned, NoConnShared
    <3>3. NoConnShared'
      BY <1>0, <2>1, <3>1, <3>2 DEF Owned, NoConnShared
    <3>4. DropInv'
      <4>1. Forgotten' \subseteq Forgotten
        BY <1>0, <2>1, <3>1, <3>2 DEF Forgotten, Held, Threads
      <4> QED BY <3>1, <4>1, DropQuiet DEF Owned, AfterPush
    <3>5. AnswersInv' /\ OneAnswer'
      BY <1>0, <3>1 DEF Owned, AnswersInv, OneAnswer
    <3> QED BY <3>3, <3>4, <3>5 DEF Owned
  <2>3. ASSUME NEW c \in Conns, ClientConnect(c) PROVE Owned'
    <3>1. /\ sock[c] = "idle" /\ sock' = [sock EXCEPT ![c] = "backlog"]
          /\ UNCHANGED <<client_sd, answers, server_running, pc>>
      BY <2>3 DEF ClientConnect, control
    <3> QED BY <1>0, <2>1, <3>1 DEF Owned, NoConnShared, DropInv, Forgotten, Held, AfterPush, AnswersInv, OneAnswer
  <2>4. CASE PushDrop
    <3>1. /\ ~server_running /\ ~server_running' /\ client_sd' = [client_sd EXCEPT ![Main] = None]
          /\ UNCHANGED <<sock, answers>> /\ \A w \in Workers : pc'[w] = pc[w]
          /\ pc[Main] = "push" /\ pc'[Main] = "push_unlock"
      BY <1>0, <2>4, ConstantsAssumption DEF PushDrop, At, Goto, control, net, Threads
    <3>2. NoConnShared' /\ AnswersInv' /\ OneAnswer'
      BY <1>0, <2>1, <3>1 DEF Owned, NoConnShared, AnswersInv, OneAnswer
    <3>3. Forgotten = {} /\ AfterPush'
      BY <3>1 DEF Owned, DropInv, AfterPush
    <3>4. \A c \in Forgotten' : c = client_sd[Main]
      BY <1>0, <2>1, <3>1, <3>3 DEF Forgotten, Held
    <3> QED BY <3>1, <3>2, <3>3, <3>4 DEF Owned, DropInv
  <2>5. ASSUME NEW w \in Workers, Send(w) PROVE Owned'
    <3>1. /\ UNCHANGED <<client_sd, sock, server_running>> /\ pc[w] = "send"
          /\ answers' \subseteq answers \cup {<<w, client_sd[w]>>} /\ answers \subseteq answers'
          /\ pc' = [pc EXCEPT ![w] = "close"] /\ client_sd[w] # None
      BY <1>0, <2>5 DEF Send, At, Goto, control, Ring, Typed, HandInv
    <3>2. NoConnShared' /\ DropInv'
      BY <2>1, <3>1 DEF Owned, NoConnShared, DropInv, Forgotten, Held, AfterPush
    <3>3. \A a \in answers : a[2] # client_sd[w]    \* nobody else answered w's connection
      <4>1. sock[client_sd[w]] = "accepted"
        BY <3>1 DEF Owned, NoConnShared
      <4>2. ASSUME NEW a \in answers, a[2] = client_sd[w] PROVE FALSE
        <5>1. a[1] \in Workers /\ pc[a[1]] = "close" /\ client_sd[a[1]] = client_sd[w]
          BY <1>0, <4>1, <4>2 DEF Owned, AnswersInv
        <5>2. a[1] = w
          BY <3>1, <5>1 DEF Owned, NoConnShared
        <5> QED BY <3>1, <5>1, <5>2
      <4> QED BY <4>2
    <3>4. AnswersInv'
      BY <1>0, <3>1 DEF Owned, AnswersInv
    <3>5. OneAnswer'
      BY <1>0, <3>1, <3>3 DEF Owned, OneAnswer
    <3> QED BY <3>2, <3>4, <3>5 DEF Owned
  <2>6. ASSUME NEW w \in Workers, Close(w) PROVE Owned'
    <3>1. /\ sock' = [sock EXCEPT ![client_sd[w]] = "closed"] /\ client_sd[w] # None
          /\ client_sd' = [client_sd EXCEPT ![w] = None]
          /\ UNCHANGED <<answers, server_running>> /\ pc' = [pc EXCEPT ![w] = "loop"]
      BY <1>0, <2>6 DEF Close, At, Goto, control, Ring, Typed, HandInv
    <3>2. client_sd[w] \in Conns /\ client_sd[w] \notin Queued
          /\ \A t \in Threads : client_sd[t] = client_sd[w] => t = w
      BY <1>0, <3>1 DEF Owned, NoConnShared
    <3>3. NoConnShared'
      BY <1>0, <2>1, <3>1, <3>2 DEF Owned, NoConnShared
    <3>4. DropInv'
      <4>1. Forgotten' \subseteq Forgotten
        BY <1>0, <2>1, <3>1, <3>2 DEF Forgotten, Held
      <4> QED BY <1>0, <3>1, <4>1, DropQuiet, ConstantsAssumption DEF Owned, AfterPush, Threads
    <3>5. AnswersInv'
      <4> SUFFICES ASSUME NEW a \in answers'
                   PROVE  sock'[a[2]] = "closed" \/ (pc'[a[1]] = "close" /\ client_sd'[a[1]] = a[2])
        BY DEF AnswersInv
      <4>1. a \in answers /\ a[1] \in Workers /\ a[2] \in Conns
        BY <1>0, <3>1
      <4>2. sock[a[2]] = "closed" \/ (pc[a[1]] = "close" /\ client_sd[a[1]] = a[2])
        BY <4>1 DEF Owned, AnswersInv
      <4> QED BY <1>0, <3>1, <4>1, <4>2
    <3>6. OneAnswer'
      BY <3>1 DEF Owned, OneAnswer
    <3> QED BY <3>3, <3>4, <3>5, <3>6 DEF Owned
  <2> QED BY <1>2, <2>2, <2>3, <2>4, <2>5, <2>6
<1>3. CASE PushStore
  <2>1. /\ client_sd' = [client_sd EXCEPT ![Main] = None] /\ client_sd[Main] \in Conns
        /\ UNCHANGED <<sock, answers, server_running>>
        /\ \A w \in Workers : pc[w] = "close" => pc'[w] = "close"
    BY <1>0, <1>3 DEF PushStore, Store, At, Goto, SignalOne, not_empty, control, net, Ring, Typed, HandInv
  <2>2. Queued' = Queued \cup {client_sd[Main]}
    BY <1>3, StoreQueued
  <2>3. client_sd[Main] \notin Queued /\ sock[client_sd[Main]] = "accepted"
        /\ \A t \in Threads : client_sd[t] = client_sd[Main] => t = Main
    BY <1>0, <2>1 DEF Owned, NoConnShared
  <2>4. ASSUME NEW j \in 0..count'-1, NEW k \in 0..count'-1,
               client_sockets'[Slot(j)'] = client_sockets'[Slot(k)']
        PROVE  j = k
    <3>1. j \in 0..count /\ k \in 0..count /\ count' = count + 1
      BY <1>0, <1>3, StoreSlots DEF Ring
    <3>2. ASSUME NEW i \in 0..count-1
          PROVE  client_sockets'[Slot(i)'] = client_sockets[Slot(i)] /\ client_sockets'[Slot(i)'] \in Queued
      BY <1>3, StoreSlots DEF Queued
    <3>3. ASSUME NEW i \in 0..count, i = count PROVE client_sockets'[Slot(i)'] = client_sd[Main]
      BY <1>3, <3>3, StoreSlots
    <3>4. CASE j \in 0..count-1 /\ k \in 0..count-1
      BY <2>4, <3>2, <3>4 DEF Owned, NoConnShared
    <3>5. CASE j = count \/ k = count
      BY <1>0, <2>3, <2>4, <3>1, <3>2, <3>3, <3>5
    <3> QED BY <1>0, <3>1, <3>4, <3>5
  <2>5. NoConnShared'
    BY <1>0, <2>1, <2>2, <2>3, <2>4 DEF Owned, NoConnShared
  <2>6. DropInv'
    <3>1. Forgotten' \subseteq Forgotten
      BY <1>0, <2>1, <2>2 DEF Forgotten, Held
    <3>2. pc[Main] = "push"
      BY <1>3 DEF PushStore, Store, At
    <3> QED BY <3>1, <3>2, DropQuiet DEF Owned, AfterPush
  <2>7. AnswersInv' /\ OneAnswer'
    BY <1>0, <2>1 DEF Owned, AnswersInv, OneAnswer
  <2> QED BY <2>5, <2>6, <2>7 DEF Owned
<1>4. ASSUME NEW w \in Workers, PopTake(w) PROVE Owned'
  <2> DEFINE c == client_sockets[Slot(0)]
  <2>1. /\ client_sd' = [client_sd EXCEPT ![w] = c] /\ client_sd[w] = None
        /\ UNCHANGED <<sock, answers, server_running>> /\ pc[w] = "pop"
        /\ \A v \in Workers : pc[v] = "close" => pc'[v] = "close"
        /\ count \in 1..QueueSize /\ count' = count - 1
    BY <1>0, <1>4, TakeSlots DEF PopTake, Take, At, Goto, SignalOne, not_full, control, net,
       Ring, Typed, HandInv
  <2>2. Queued = Queued' \cup {c} /\ \A d \in Queued' : \E k \in 1..count-1 : d = client_sockets[Slot(k)]
    BY <1>4, TakeQueued
  <2>3. c \in Conns /\ sock[c] = "accepted" /\ c \notin Queued' /\ \A t \in Threads : client_sd[t] # c
    <3>1. c \in Queued
      BY <2>2
    <3>2. \A k \in 1..count-1 : client_sockets[Slot(k)] # c
      <4>1. 0 \in 0..count-1 /\ \A k \in 1..count-1 : k \in 0..count-1 /\ k # 0
        BY <2>1
      <4> QED BY <4>1 DEF Owned, NoConnShared
    <3> QED BY <1>0, <2>2, <3>1, <3>2 DEF Owned, NoConnShared
  <2>4. ASSUME NEW j \in 0..count'-1, NEW k \in 0..count'-1,
               client_sockets'[Slot(j)'] = client_sockets'[Slot(k)']
        PROVE  j = k
    <3>1. j \in 0..count-2 /\ k \in 0..count-2 /\ j + 1 \in 0..count-1 /\ k + 1 \in 0..count-1
      BY <2>1
    <3>2. client_sockets[Slot(j + 1)] = client_sockets[Slot(k + 1)]
      BY <1>4, <2>4, <3>1, TakeSlots
    <3>3. j + 1 = k + 1
      BY <3>1, <3>2 DEF Owned, NoConnShared
    <3> QED BY <3>1, <3>3
  <2> HIDE DEF c
  <2>5. NoConnShared'
    BY <1>0, <2>1, <2>2, <2>3, <2>4 DEF Owned, NoConnShared
  <2>6. DropInv'
    <3>1. w \in Threads /\ \A t \in Threads : t # w => client_sd'[t] = client_sd[t]
      BY <1>0, <2>1 DEF Threads
    <3>2. client_sd'[w] = c
      BY <1>0, <2>1, <3>1
    <3>3. Forgotten' \subseteq Forgotten
      BY <1>0, <2>1, <2>2, <3>1, <3>2, ConstantsAssumption DEF Forgotten, Held, Threads
    <3>4. AfterPush => AfterPush'
      BY <1>0, <1>4, ConstantsAssumption DEF PopTake, Take, SignalOne, Goto, not_full, Threads, AfterPush
    <3> QED BY <2>1, <3>3, <3>4, DropQuiet DEF Owned
  <2>7. AnswersInv' /\ OneAnswer'
    BY <1>0, <2>1 DEF Owned, AnswersInv, OneAnswer
  <2> QED BY <2>5, <2>6, <2>7 DEF Owned
<1> QED
  BY <1>1, <1>2, <1>3, <1>4, OwnershipSteps, QueueSteps DEF Ring, OwnershipStep

(* The invariants of the ring and of the owners hold together.             *)
LEMMA OwnedCorrect == Spec => [](Ring /\ Owned)
<1>1. Ring /\ Owned /\ [Next]_vars => (Ring /\ Owned)'
  BY TypedNext, RingStep, OwnedNext DEF Ring
<1>2. Init => Ring
  BY TypedInit, ModSmall DEF Init, Ring, RingInv
<1> QED
  BY <1>1, <1>2, OwnedInit, PTL DEF Spec

(* Every accepted descriptor is in one place, in the ring once or in one   *)
(* thread's hand, and open; a client is answered at most once.             *)
THEOREM OwnershipCorrect == Spec => [](NoConnShared /\ OneAnswer)
<1>1. Owned => NoConnShared /\ OneAnswer
  BY DEF Owned
<1> QED
  BY <1>1, OwnedCorrect, PTL

(* Until shutdown begins no accepted descriptor is forgotten: none is lost *)
(* between accept, the ring and the workers, nor when a full ring makes    *)
(* main wait.  The shutdown forgets at most one, whatever the number of    *)
(* signals, and main never accepts after it.                               *)
THEOREM NoneForgotten == Spec => []NoConnLost
<1>1. Owned => NoConnLost
  BY DEF Owned, DropInv, NoConnLost
<1> QED
  BY <1>1, OwnedCorrect, PTL

-----------------------------------------------------------------------------
(* The server implements the abstract queue ConnFifo.                      *)

(* What the refinement mapping reads off the server. *)
Pending == [k \in 1..count |-> client_sockets[Slot(k - 1)]]
Serving == [w \in Workers |-> client_sd[w]]
Seen    == {c \in Conns : \/ sock[c] = "closed" \/ c \in Queued
                          \/ \E w \in Workers : client_sd[w] = c}

PendingType ==
    /\ Pending \in Seq(Conns) /\ Len(Pending) = count
    /\ \A k \in 1..count : Pending[k] = client_sockets[Slot(k - 1)]

(* The queue that the ring stands for is a sequence of connections.        *)
LEMMA PendingTyped == Ring /\ Owned => PendingType
<1> SUFFICES ASSUME Ring, Owned PROVE PendingType
  OBVIOUS
<1>1. count \in Nat
  BY DEF Ring, Typed, TypeOK
<1>2. \A k \in 1..count : client_sockets[Slot(k - 1)] \in Conns
  BY <1>1 DEF Owned, NoConnShared, Queued
<1>3. Pending \in [1..count -> Conns]
  BY <1>2 DEF Pending
<1>4. Pending \in Seq(Conns)
  BY <1>1, <1>3, SeqDef
<1> QED BY <1>1, <1>3, <1>4, LenProperties DEF Pending, PendingType

(* The same of the next state.                                             *)
LEMMA PendingTypedNext == (Ring /\ Owned)' => PendingType'
BY PendingTyped, PTL

(* queue_push's store puts main's connection, which is new, at the end of  *)
(* the queue.                                                              *)
LEMMA StoreEnqueues ==
    ASSUME Ring, Owned, (Ring /\ Owned)', PushStore
    PROVE  /\ client_sd[Main] \in Conns \ Seen /\ Len(Pending) < QueueSize
           /\ Pending' = Append(Pending, client_sd[Main])
           /\ Seen' = Seen \cup {client_sd[Main]}
           /\ Serving' = Serving /\ answers' = answers
<1> DEFINE c == client_sd[Main]
<1>1. /\ c \in Conns /\ client_sd' = [client_sd EXCEPT ![Main] = None] /\ sock' = sock
      /\ answers' = answers /\ count # QueueSize
      /\ client_sd \in [Threads -> Conns \cup {None}] /\ count \in 0..QueueSize
  BY DEF PushStore, Store, At, Ring, Typed, TypeOK, HandInv, net
<1>2. sock[c] = "accepted" /\ c \notin Queued /\ \A w \in Workers : client_sd[w] # c
  BY <1>1 DEF Owned, NoConnShared
<1>3. Queued' = Queued \cup {c}
  BY StoreQueued
<1>4. Serving' = Serving
  BY <1>1 DEF Serving
<1>5. Seen' = Seen \cup {c}
  BY <1>1, <1>2, <1>3 DEF Seen
<1>6. Pending \in Seq(Conns) /\ Len(Pending) = count /\ Pending' \in Seq(Conns) /\ Len(Pending') = count'
  BY PendingTyped, PendingTypedNext DEF PendingType
<1>7. count' = count + 1 /\ Len(Append(Pending, c)) = count + 1 /\ Append(Pending, c) \in Seq(Conns)
  BY <1>1, <1>6, AppendProperties, StoreSlots
<1>8. ASSUME NEW k \in 1..count + 1 PROVE Pending'[k] = Append(Pending, c)[k]
  <2>1. Pending'[k] = client_sockets'[Slot(k - 1)']
    BY <1>1, <1>7 DEF Pending
  <2>2. CASE k \in 1..count
    <3>1. client_sockets'[Slot(k - 1)'] = client_sockets[Slot(k - 1)]
      BY <1>1, <2>2, StoreSlots
    <3>2. Append(Pending, c)[k] = Pending[k]
      BY <1>1, <1>6, <2>2, AppendProperties
    <3> QED BY <2>1, <2>2, <3>1, <3>2 DEF Pending
  <2>3. CASE k = count + 1
    <3>1. client_sockets'[Slot(k - 1)'] = c
      BY <1>1, <2>3, StoreSlots
    <3>2. Append(Pending, c)[k] = c
      BY <1>1, <1>6, <2>3, AppendProperties
    <3> QED BY <2>1, <3>1, <3>2
  <2>4. k \in 1..count \/ k = count + 1
    BY <1>1
  <2> QED BY <2>2, <2>3, <2>4
<1>9. Pending' = Append(Pending, c)
  BY <1>6, <1>7, <1>8, SeqEqual
<1>10. c \notin Seen
  BY <1>1, <1>2 DEF Seen
<1> QED BY <1>1, <1>4, <1>5, <1>6, <1>9, <1>10

(* queue_pop's take gives the head of the queue to a worker that serves    *)
(* none.                                                                   *)
LEMMA TakeDequeues ==
    ASSUME Ring, Owned, (Ring /\ Owned)', NEW w \in Workers, PopTake(w)
    PROVE  /\ Pending # <<>> /\ Serving[w] = None
           /\ Serving' = [Serving EXCEPT ![w] = Head(Pending)]
           /\ Pending' = Tail(Pending) /\ Seen' = Seen /\ answers' = answers
<1> DEFINE c == client_sockets[Slot(0)]
<1>1. /\ client_sd' = [client_sd EXCEPT ![w] = c] /\ client_sd[w] = None
      /\ count \in 1..QueueSize /\ count' = count - 1 /\ sock' = sock /\ answers' = answers
      /\ client_sd \in [Threads -> Conns \cup {None}]
  BY TakeSlots DEF PopTake, Take, At, Ring, Typed, TypeOK, HandInv, net
<1>2. Pending \in Seq(Conns) /\ Len(Pending) = count /\ Pending' \in Seq(Conns) /\ Len(Pending') = count'
  BY PendingTyped, PendingTypedNext DEF PendingType
<1>3. Pending # <<>> /\ Head(Pending) = c
  <2>1. Pending[1] = c
    BY <1>1 DEF Pending
  <2>2. Pending # <<>>
    BY <1>1, <1>2, EmptySeq
  <2> QED BY <1>2, <2>1, <2>2
<1>4. Tail(Pending) \in Seq(Conns) /\ Len(Tail(Pending)) = count - 1
      /\ \A k \in 1..count - 1 : Tail(Pending)[k] = Pending[k + 1]
  BY <1>2, <1>3, HeadTailProperties
<1>5. ASSUME NEW k \in 1..count - 1 PROVE Pending'[k] = Tail(Pending)[k]
  <2>1. k - 1 \in 0..count-2 /\ (k - 1) + 1 = k /\ k + 1 \in 1..count /\ k \in 1..count'
    BY <1>1
  <2>2. client_sockets'[Slot(k - 1)'] = client_sockets[Slot(k)]
    BY <2>1, TakeSlots
  <2>3. Pending'[k] = client_sockets'[Slot(k - 1)']
    BY <2>1 DEF Pending
  <2>4. Pending[k + 1] = client_sockets[Slot(k)]
    BY <2>1, PendingTyped DEF PendingType
  <2> QED BY <1>4, <2>2, <2>3, <2>4
<1>6. Pending' = Tail(Pending)
  BY <1>1, <1>2, <1>4, <1>5, SeqEqual
<1>7. Seen' = Seen
  <2>1. Queued = Queued' \cup {c} /\ c \in Conns
    BY <1>1, TakeQueued DEF Owned, NoConnShared
  <2> QED BY <1>1, <2>1 DEF Seen
<1>8. Serving[w] = None /\ Serving' = [Serving EXCEPT ![w] = c]
  BY <1>1 DEF Serving
<1> QED BY <1>1, <1>3, <1>6, <1>7, <1>8

(* A close ends the service of a connection.                               *)
LEMMA CloseFinishes ==
    ASSUME Ring, Owned, NEW w \in Workers, Close(w)
    PROVE  /\ Serving[w] # None /\ Serving' = [Serving EXCEPT ![w] = None]
           /\ Pending' = Pending /\ Seen' = Seen /\ answers' = answers
<1>1. /\ sock' = [sock EXCEPT ![client_sd[w]] = "closed"] /\ client_sd[w] \in Conns
      /\ client_sd' = [client_sd EXCEPT ![w] = None] /\ answers' = answers
      /\ UNCHANGED queue /\ client_sd \in [Threads -> Conns \cup {None}]
      /\ sock \in [Conns -> {"idle", "backlog", "accepted", "closed"}]
  BY DEF Close, At, Ring, Typed, TypeOK, HandInv
<1>2. Queued' = Queued /\ Pending' = Pending
  BY <1>1 DEF Queued, Pending, Slot, queue
<1>3. Seen' = Seen
  <2>1. \A c \in Conns : c # client_sd[w] => (c \in Seen' <=> c \in Seen)
    BY <1>1, <1>2 DEF Seen
  <2>2. client_sd[w] \in Seen /\ client_sd[w] \in Seen'
    BY <1>1 DEF Seen
  <2> QED BY <2>1, <2>2 DEF Seen
<1> QED BY <1>1, <1>2, <1>3 DEF Serving

(* A send answers, if anything, the connection its worker serves, for the  *)
(* first time.                                                             *)
LEMMA SendAnswers ==
    ASSUME Ring, Owned, NEW w \in Workers, Send(w)
    PROVE  /\ UNCHANGED <<Pending, Serving, Seen>>
           /\ \/ answers' = answers
              \/ /\ Serving[w] # None /\ \A v \in Workers : <<v, Serving[w]>> \notin answers
                 /\ answers' = answers \cup {<<w, Serving[w]>>}
<1>1. /\ pc[w] = "send" /\ client_sd[w] \in Conns /\ UNCHANGED <<queue, client_sd, sock>>
      /\ answers' \in {answers, answers \cup {<<w, client_sd[w]>>}}
  BY DEF Send, At, Ring, Typed, TypeOK, HandInv
<1>2. UNCHANGED <<Pending, Serving, Seen>>
  BY <1>1 DEF Pending, Serving, Seen, Queued, Slot, queue
<1>3. ASSUME NEW v \in Workers, <<v, client_sd[w]>> \in answers PROVE FALSE
  <2>1. sock[client_sd[w]] = "accepted"
    BY <1>1 DEF Owned, NoConnShared
  <2>2. pc[v] = "close" /\ client_sd[v] = client_sd[w]
    BY <1>3, <2>1 DEF Owned, AnswersInv
  <2>3. v = w
    BY <1>1, <2>2 DEF Owned, NoConnShared
  <2> QED BY <1>1, <2>2, <2>3
<1> QED BY <1>1, <1>2, <1>3 DEF Serving

(* Every step of the server is a step of the queue or leaves it alone. *)
LEMMA FifoStep ==
    ASSUME Ring, Owned, (Ring /\ Owned)', [Next]_vars
    PROVE  [Fifo!FifoNext]_(Fifo!fifoVars)
<1> SUFFICES \/ \E c \in Conns : /\ c \notin Seen /\ Len(Pending) < QueueSize
                                 /\ Pending' = Append(Pending, c) /\ Seen' = Seen \cup {c}
                                 /\ UNCHANGED <<Serving, answers>>
             \/ \E w \in Workers :
                  \/ /\ Pending # <<>> /\ Serving[w] = None
                     /\ Serving' = [Serving EXCEPT ![w] = Head(Pending)] /\ Pending' = Tail(Pending)
                     /\ UNCHANGED <<Seen, answers>>
                  \/ /\ Serving[w] # None /\ \A v \in Workers : <<v, Serving[w]>> \notin answers
                     /\ answers' = answers \cup {<<w, Serving[w]>>}
                     /\ UNCHANGED <<Pending, Serving, Seen>>
                  \/ /\ Serving[w] # None /\ Serving' = [Serving EXCEPT ![w] = None]
                     /\ UNCHANGED <<Pending, Seen, answers>>
             \/ UNCHANGED <<Pending, Serving, Seen, answers>>
  BY DEF Fifo!FifoNext, Fifo!fifoVars, Fifo!Enqueue, Fifo!Dequeue, Fifo!Answer, Fifo!Finish,
         Pending, Serving, Seen
<1>1. CASE UNCHANGED <<queue, client_sd, sock, answers>>
  BY <1>1 DEF Pending, Serving, Seen, Queued, Slot, queue
<1>2. CASE PushDrop \/ \E c \in Conns : Accept(c) \/ ClientConnect(c)
  <2>1. /\ UNCHANGED <<queue, answers>> /\ \A w \in Workers : client_sd'[w] = client_sd[w]
        /\ \A c \in Conns : sock'[c] = "closed" <=> sock[c] = "closed"
    <3> USE DEF Ring, Typed, TypeOK, net
    <3>1. CASE PushDrop
      BY <3>1 DEF PushDrop
    <3>2. ASSUME NEW c \in Conns, Accept(c) \/ ClientConnect(c)
          PROVE  /\ UNCHANGED <<queue, answers>> /\ \A w \in Workers : client_sd'[w] = client_sd[w]
                 /\ \A d \in Conns : sock'[d] = "closed" <=> sock[d] = "closed"
      BY <3>2 DEF Accept, ClientConnect, InBacklog
    <3> QED BY <1>2, <3>1, <3>2
  <2> QED BY <2>1 DEF Pending, Serving, Seen, Queued, Slot, queue
<1>3. CASE PushStore
  BY <1>3, StoreEnqueues
<1>4. ASSUME NEW w \in Workers, PopTake(w) \/ Send(w) \/ Close(w)
      PROVE  \/ /\ Pending # <<>> /\ Serving[w] = None
                /\ Serving' = [Serving EXCEPT ![w] = Head(Pending)] /\ Pending' = Tail(Pending)
                /\ UNCHANGED <<Seen, answers>>
             \/ /\ Serving[w] # None /\ \A v \in Workers : <<v, Serving[w]>> \notin answers
                /\ answers' = answers \cup {<<w, Serving[w]>>}
                /\ UNCHANGED <<Pending, Serving, Seen>>
             \/ /\ Serving[w] # None /\ Serving' = [Serving EXCEPT ![w] = None]
                /\ UNCHANGED <<Pending, Seen, answers>>
             \/ UNCHANGED <<Pending, Serving, Seen, answers>>
  BY <1>4, TakeDequeues, SendAnswers, CloseFinishes
<1> QED
  BY <1>1, <1>2, <1>3, <1>4, OwnershipSteps DEF Ring, OwnershipStep

(* The queue, the service and the answers are empty at the start.          *)
LEMMA FifoInitial == Init => Fifo!FifoInit
<1> SUFFICES ASSUME Init
             PROVE  Pending = <<>> /\ Serving = [w \in Workers |-> None] /\ Seen = {} /\ answers = {}
  BY DEF Fifo!FifoInit, Pending, Serving, Seen
<1>1. count = 0 /\ Queued = {}
  BY DEF Init, Queued
<1> QED BY <1>1 DEF Init, Pending, Serving, Seen

(* The ring buffer, the mutex, the two condition variables and the signal  *)
(* handlers implement a bounded queue: connections are handed out in the   *)
(* order of accept, each to one worker, and answered at most once.         *)
THEOREM ServerImplementsFifo == Spec => RefinesFifo
<1>1. Ring /\ Owned /\ (Ring /\ Owned)' /\ [Next]_vars => [Fifo!FifoNext]_(Fifo!fifoVars)
  BY FifoStep
<1> QED
  BY <1>1, FifoInitial, OwnedCorrect, PTL DEF Spec, RefinesFifo, Fifo!FifoSpec
=============================================================================
