------------------------------- MODULE Server -------------------------------
(***************************************************************************)
(* The thread-pool TCP server of "Assements 2/Problem_A/server.c".  The    *)
(* main thread accepts connections and pushes their descriptors into a     *)
(* ring buffer guarded by one mutex and two condition variables; worker    *)
(* threads pop them, read one request, answer it and close.  SIGINT and    *)
(* SIGTERM run handle_signal on whichever thread the kernel picks.  A      *)
(* label of pc is a place in the C function the thread is executing; a     *)
(* thread asleep in pthread_cond_wait is at "pop_wait" or "push_wait".     *)
(***************************************************************************)
EXTENDS Integers, FiniteSets

CONSTANTS
    Workers,        \* the threads of workers[]; NUM_WORKERS of them
    Main,           \* the thread that runs main()
    Conns,          \* the connections clients open, one descriptor each
    Signals,        \* the signals that will be sent, each at most once
    SignalThreads,  \* the threads the kernel may run a handler on
    QueueSize,      \* QUEUE_SIZE
    Backlog,        \* established connections the kernel holds for accept
    None

Threads == Workers \cup {Main}

ASSUME ConstantsAssumption ==
    /\ IsFiniteSet(Workers) /\ Main \notin Workers /\ SignalThreads \subseteq Threads
    /\ None \notin Conns \cup Signals \cup Threads
    /\ QueueSize \in Nat \ {0} /\ Backlog \in Nat \ {0}

VARIABLES
    server_running, listening,           \* listening: listen_sd >= 0
    client_sockets, head, tail, count,   \* connection_queue_t queue
    mutex,                               \* the thread that holds queue.mutex, or None
    pc, client_sd,                       \* per thread: place, and its local client_sd
    hpc, hthread, over,                  \* per signal: handler's place, thread it runs
                                         \* on, handler it interrupted there (or None)
    sock,                                \* the server's end of each connection
    requests, gone,                      \* connections whose client has sent / has closed
    answers                              \* <<worker, connection>>: replies sent

control  == <<server_running, listening>>
queue    == <<client_sockets, head, tail, count>>
handlers == <<hpc, hthread, over>>
clients  == <<requests, gone>>
net      == <<sock, clients, answers>>
vars     == <<control, queue, mutex, pc, client_sd, handlers, net>>

not_empty == {w \in Workers : pc[w] = "pop_wait"}
not_full  == {t \in {Main} : pc[t] = "push_wait"}

(* A handler is active from delivery to its return; a thread executes its  *)
(* own code only while no handler is active on it, and of the handlers on  *)
(* one thread only the last one delivered executes.                        *)
Active(s) == hpc[s] \in {"flag", "close", "lock", "unlock"}
Runs(t)   == \A s \in Signals : Active(s) => hthread[s] # t
OnTop(s)  == Active(s) /\ \A r \in Signals : Active(r) => over[r] # s

(* A connection attempt completes in the kernel while the listening socket *)
(* lives: the close in handle_signal does not reach an accept that has     *)
(* already blocked, so the socket lives until that call returns.           *)
KernelListening == listening \/ (Runs(Main) /\ pc[Main] = "blocked")
InBacklog == {c \in Conns : sock[c] = "backlog"}

Init ==
    /\ server_running = TRUE /\ listening = FALSE
    /\ client_sockets = [i \in 0..QueueSize-1 |-> None]
    /\ head = 0 /\ tail = 0 /\ count = 0
    /\ mutex = None
    /\ pc = [t \in Threads |-> IF t = Main THEN "start" ELSE "loop"]
    /\ client_sd = [t \in Threads |-> None]
    /\ hpc = [s \in Signals |-> "unsent"]
    /\ hthread = [s \in Signals |-> None] /\ over = [s \in Signals |-> None]
    /\ sock = [c \in Conns |-> "idle"]
    /\ requests = {} /\ gone = {} /\ answers = {}

-----------------------------------------------------------------------------
(* pthread primitives *)

At(t, place) == Runs(t) /\ pc[t] = place
Goto(t, place) == pc' = [pc EXCEPT ![t] = place]

Move(t, from, to) ==
    /\ At(t, from) /\ Goto(t, to)
    /\ UNCHANGED <<control, queue, mutex, client_sd, handlers, net>>

Lock(t, from, to) ==
    /\ At(t, from) /\ mutex = None
    /\ mutex' = t /\ Goto(t, to)
    /\ UNCHANGED <<control, queue, client_sd, handlers, net>>

Unlock(t, from, to) ==
    /\ At(t, from)
    /\ mutex' = None /\ Goto(t, to)
    /\ UNCHANGED <<control, queue, client_sd, handlers, net>>

(* pthread_cond_signal by t: one waiter, if there is one, must relock. *)
SignalOne(t, next, waiters, relock) ==
    \/ waiters = {} /\ Goto(t, next)
    \/ \E u \in waiters : pc' = [pc EXCEPT ![t] = next, ![u] = relock]

(* pthread_cond_broadcast on a set of waiters. *)
Woken(waiters) ==
    [t \in Threads |-> IF t \notin waiters THEN pc[t]
                       ELSE IF t = Main THEN "push_lock" ELSE "pop_lock"]

SpuriousWake(t) ==
    /\ t \in not_empty \cup not_full
    /\ pc' = Woken({t})
    /\ UNCHANGED <<control, queue, mutex, client_sd, handlers, net>>

-----------------------------------------------------------------------------
(* queue_push, called by the main thread *)

(* Definitions named *_bug are seeded faults, never part of Next: each run *)
(* of the project is known to reject the one that breaks its property.     *)
PushLock_bug == Move(Main, "push_lock", "push")
PushMustWait_bug ==          \* a full queue drops the connection
    /\ At(Main, "push") /\ count = QueueSize /\ server_running
    /\ client_sd' = [client_sd EXCEPT ![Main] = None] /\ Goto(Main, "push_unlock")
    /\ UNCHANGED <<control, queue, mutex, handlers, net>>
PushLock     == Lock(Main, "push_lock", "push")
PushMustWait == count = QueueSize /\ server_running /\ Move(Main, "push", "push_sleep")
PushSleep    == Unlock(Main, "push_sleep", "push_wait")

(* The early return: the descriptor is forgotten without being closed. *)
PushDrop ==
    /\ At(Main, "push") /\ ~server_running
    /\ client_sd' = [client_sd EXCEPT ![Main] = None]
    /\ Goto(Main, "push_unlock")
    /\ UNCHANGED <<control, queue, mutex, handlers, net>>

Store(waiters) ==
    /\ At(Main, "push") /\ server_running
    /\ client_sockets' = [client_sockets EXCEPT ![tail] = client_sd[Main]]
    /\ tail' = (tail + 1) % QueueSize
    /\ count' = count + 1
    /\ client_sd' = [client_sd EXCEPT ![Main] = None]
    /\ SignalOne(Main, "push_unlock", waiters, "pop_lock")
    /\ UNCHANGED <<control, head, mutex, handlers, net>>

PushStore_nowait_bug == Store(not_empty)
PushStore_signal_bug == count # QueueSize /\ Store(IF count = 0 THEN not_empty ELSE {})
PushStore == count # QueueSize /\ Store(not_empty)

PushUnlock == Unlock(Main, "push_unlock", "loop")

-----------------------------------------------------------------------------
(* queue_pop, called by a worker; a result of -1 leaves client_sd at None *)

PopLock(w)     == Lock(w, "pop_lock", "pop")
PopMustWait(w) == count = 0 /\ server_running /\ Move(w, "pop", "pop_sleep")
PopSleep(w)    == Unlock(w, "pop_sleep", "pop_wait")
PopNothing(w)  == count = 0 /\ ~server_running /\ Move(w, "pop", "pop_unlock")

PopTake_count_bug(w) ==      \* the slot is read but stays counted
    /\ At(w, "pop") /\ count # 0
    /\ client_sd' = [client_sd EXCEPT ![w] = client_sockets[head]]
    /\ SignalOne(w, "pop_unlock", not_full, "push_lock")
    /\ UNCHANGED <<control, queue, mutex, handlers, net>>

Take(w, slot, step, waiters) ==
    /\ At(w, "pop") /\ count # 0
    /\ client_sd' = [client_sd EXCEPT ![w] = client_sockets[slot]]
    /\ head' = (head + step) % QueueSize
    /\ count' = count - 1
    /\ SignalOne(w, "pop_unlock", waiters, "push_lock")
    /\ UNCHANGED <<control, client_sockets, tail, mutex, handlers, net>>

PopTake_stuck_bug(w)  == Take(w, head, 0, not_full)
PopTake_slot_bug(w)   == Take(w, (tail + QueueSize - 1) % QueueSize, 1, not_full)
PopTake_signal_bug(w) == Take(w, head, 1, {})
PopTake(w) == Take(w, head, 1, not_full)

PopUnlock(w) ==
    Unlock(w, "pop_unlock", IF client_sd[w] = None THEN "exited" ELSE "recv")

-----------------------------------------------------------------------------
(* worker_routine *)

WorkerLoop(w) == Move(w, "loop", IF server_running THEN "pop_lock" ELSE "exited")

(* recv returns request bytes, or 0 or an error once the client has closed. *)
Receive(w, ended) ==
    \/ client_sd[w] \in requests /\ Move(w, "recv", "send")
    \/ ended /\ Move(w, "recv", "close")
Recv_bug(w) == Receive(w, client_sd[w] \notin requests)
Recv(w) == Receive(w, client_sd[w] \in gone)

(* send fails only when the client has closed; both ways lead to close. *)
Send(w) ==
    /\ At(w, "send")
    /\ \/ answers' = answers \cup {<<w, client_sd[w]>>}
       \/ client_sd[w] \in gone /\ answers' = answers
    /\ Goto(w, "close")
    /\ UNCHANGED <<control, queue, mutex, client_sd, handlers, sock, clients>>

Close(w) ==
    /\ At(w, "close")
    /\ sock' = [sock EXCEPT ![client_sd[w]] = "closed"]
    /\ client_sd' = [client_sd EXCEPT ![w] = None]
    /\ Goto(w, "loop")
    /\ UNCHANGED <<control, queue, mutex, handlers, clients, answers>>

-----------------------------------------------------------------------------
(* handle_signal, run by thread t on top of whatever t was doing *)

Deliver(s, t) ==
    /\ hpc[s] = "unsent" /\ pc[t] \notin {"exited", "done"} /\ pc[Main] # "done"
    /\ hpc' = [hpc EXCEPT ![s] = "flag"]
    /\ hthread' = [hthread EXCEPT ![s] = t]
    /\ \/ Runs(t) /\ over' = over
       \/ \E r \in Signals : /\ OnTop(r) /\ hthread[r] = t
                             /\ over' = [over EXCEPT ![s] = r]
    /\ UNCHANGED <<control, queue, mutex, pc, client_sd, net>>

HandlerMove(s, from, to) ==
    /\ OnTop(s) /\ hpc[s] = from
    /\ hpc' = [hpc EXCEPT ![s] = to]
    /\ UNCHANGED <<queue, client_sd, hthread, over, net>>

HandlerFlag(s) ==
    /\ HandlerMove(s, "flag", "close")
    /\ server_running' = FALSE
    /\ UNCHANGED <<listening, mutex, pc>>

HandlerClose(s) ==
    /\ HandlerMove(s, "close", "lock")
    /\ listening' = FALSE
    /\ UNCHANGED <<server_running, mutex, pc>>

(* The mutex is not recursive: if the interrupted thread, or a handler it  *)
(* interrupted, holds it, this step is disabled for ever.                  *)
Broadcast(s, waiters) ==
    /\ HandlerMove(s, "lock", "unlock")
    /\ mutex' = hthread[s]
    /\ pc' = Woken(waiters)
    /\ UNCHANGED control

HandlerBroadcast_nolock_bug(s) == Broadcast(s, not_empty \cup not_full)
HandlerBroadcast_one_bug(s)    == mutex = None /\ Broadcast(s, not_empty)
HandlerBroadcast(s) == mutex = None /\ Broadcast(s, not_empty \cup not_full)

(* Without SA_RESTART an interrupted accept or recv returns EINTR; a recv  *)
(* the thread had not entered yet is not affected.                         *)
Interrupted(place) ==
    CASE place = "blocked" -> {"failed"}
      [] place = "recv"    -> {"recv", "close"}
      [] OTHER             -> {place}

HandlerReturn(s) ==
    /\ HandlerMove(s, "unlock", "done")
    /\ mutex' = None
    /\ \E place \in Interrupted(pc[hthread[s]]) : Goto(hthread[s], place)
    /\ UNCHANGED control

-----------------------------------------------------------------------------
(* main *)

Start ==
    /\ At(Main, "start")
    /\ listening' = TRUE /\ Goto(Main, "loop")
    /\ UNCHANGED <<server_running, queue, mutex, client_sd, handlers, net>>

MainLoop == Move(Main, "loop", IF server_running THEN "accept" ELSE "shut_lock")

(* accept blocks, fails on the closed descriptor, or fails for want of one. *)
AcceptEnter  == listening /\ Move(Main, "accept", "blocked")
AcceptClosed == ~listening /\ Move(Main, "accept", "failed")
AcceptError  == listening /\ Move(Main, "accept", "failed")
AcceptFailed == Move(Main, "failed", IF server_running THEN "loop" ELSE "shut_lock")

Accept(c) ==
    /\ At(Main, "blocked") /\ c \in InBacklog
    /\ sock' = [sock EXCEPT ![c] = "accepted"]
    /\ client_sd' = [client_sd EXCEPT ![Main] = c]
    /\ Goto(Main, "push_lock")
    /\ UNCHANGED <<control, queue, mutex, handlers, clients, answers>>

(* Shutdown: lock, broadcast not_empty, unlock, join every worker. *)
ShutBroadcast_nolock_bug ==
    /\ At(Main, "shut_lock")
    /\ pc' = [Woken(not_empty) EXCEPT ![Main] = "join"]
    /\ UNCHANGED <<control, queue, mutex, client_sd, handlers, net>>
ShutBroadcast ==
    /\ At(Main, "shut_lock") /\ mutex = None
    /\ mutex' = Main
    /\ pc' = [Woken(not_empty) EXCEPT ![Main] = "shut_unlock"]
    /\ UNCHANGED <<control, queue, client_sd, handlers, net>>

ShutUnlock == Unlock(Main, "shut_unlock", "join")
Join == (\A w \in Workers : pc[w] = "exited") /\ Move(Main, "join", "done")

-----------------------------------------------------------------------------
(* The clients and the kernel, as the server sees them *)

ClientConnect(c) ==
    /\ KernelListening /\ sock[c] = "idle" /\ Cardinality(InBacklog) < Backlog
    /\ sock' = [sock EXCEPT ![c] = "backlog"]
    /\ UNCHANGED <<control, queue, mutex, pc, client_sd, handlers, clients, answers>>

ClientSend(c) ==
    /\ sock[c] # "idle" /\ c \notin requests \cup gone
    /\ requests' = requests \cup {c}
    /\ UNCHANGED <<control, queue, mutex, pc, client_sd, handlers, sock, gone, answers>>

ClientClose(c) ==
    /\ sock[c] # "idle" /\ c \notin gone
    /\ gone' = gone \cup {c}
    /\ UNCHANGED <<control, queue, mutex, pc, client_sd, handlers, sock, requests, answers>>

-----------------------------------------------------------------------------
Push == PushLock \/ PushMustWait \/ PushSleep \/ PushDrop \/ PushStore \/ PushUnlock
Pop(w) ==
    \/ PopLock(w) \/ PopMustWait(w) \/ PopSleep(w) \/ PopNothing(w)
    \/ PopTake(w) \/ PopUnlock(w)
MainStep ==
    \/ Start \/ MainLoop \/ AcceptEnter \/ AcceptClosed \/ AcceptFailed
    \/ (\E c \in Conns : Accept(c)) \/ Push \/ ShutBroadcast \/ ShutUnlock \/ Join
WorkerStep(w) == WorkerLoop(w) \/ Pop(w) \/ Recv(w) \/ Send(w) \/ Close(w)
HandlerStep(s) ==
    HandlerFlag(s) \/ HandlerClose(s) \/ HandlerBroadcast(s) \/ HandlerReturn(s)
ServerStep ==
    \/ MainStep \/ AcceptError \/ (\E w \in Workers : WorkerStep(w))
    \/ (\E t \in Threads : SpuriousWake(t))
    \/ (\E s \in Signals : HandlerStep(s) \/ \E t \in SignalThreads : Deliver(s, t))
ClientStep(c) == ClientConnect(c) \/ ClientSend(c) \/ ClientClose(c)

Next == ServerStep \/ \E c \in Conns : ClientStep(c)
Spec == Init /\ [][Next]_vars

(* The scheduler runs every thread that can run; a mutex that is released  *)
(* again and again is not withheld from one thread for ever, nor does      *)
(* accept fail for ever for want of descriptors.                           *)
ServerFairness ==
    /\ WF_vars(MainStep) /\ SF_vars(AcceptEnter)
    /\ SF_vars(PushLock) /\ SF_vars(ShutBroadcast)
    /\ \A w \in Workers : WF_vars(WorkerStep(w)) /\ SF_vars(PopLock(w))
    /\ \A s \in Signals : WF_vars(HandlerStep(s)) /\ SF_vars(HandlerBroadcast(s))

(* A client that has connected sends its request or closes. *)
ClientFairness == \A c \in Conns : WF_vars(ClientSend(c) \/ ClientClose(c))

FairSpec == Spec /\ ServerFairness /\ ClientFairness
=============================================================================
