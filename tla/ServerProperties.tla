-------------------------- MODULE ServerProperties --------------------------
(* The correctness properties of the thread-pool server (server.c). *)
EXTENDS Server, Sequences

WorkerPcs == {"loop", "pop_lock", "pop", "pop_sleep", "pop_wait", "pop_unlock",
              "recv", "send", "close", "exited"}
MainPcs == {"start", "loop", "accept", "blocked", "failed", "push_lock", "push",
            "push_sleep", "push_wait", "push_unlock", "shut_lock", "shut_unlock",
            "join", "done"}

(* Every variable has its type: the places of worker and main threads, the *)
(* ring's indices inside the array, descriptors or None.                   *)
TypeOK ==
    /\ server_running \in BOOLEAN /\ listening \in BOOLEAN
    /\ client_sockets \in [0..QueueSize-1 -> Conns \cup {None}]
    /\ head \in 0..QueueSize-1 /\ tail \in 0..QueueSize-1 /\ count \in 0..QueueSize
    /\ mutex \in Threads \cup {None}
    /\ pc \in [Threads -> WorkerPcs \cup MainPcs]
    /\ pc[Main] \in MainPcs /\ \A w \in Workers : pc[w] \in WorkerPcs
    /\ client_sd \in [Threads -> Conns \cup {None}]
    /\ hpc \in [Signals -> {"unsent", "flag", "close", "lock", "unlock", "done"}]
    /\ hthread \in [Signals -> Threads \cup {None}]
    /\ over \in [Signals -> Signals \cup {None}]
    /\ sock \in [Conns -> {"idle", "backlog", "accepted", "closed"}]
    /\ requests \subseteq Conns /\ gone \subseteq Conns
    /\ answers \subseteq Workers \X Conns

(* A thread has a descriptor in hand exactly where the code says it has. *)
HandInv ==
    /\ client_sd[Main] # None <=> pc[Main] \in {"push_lock", "push", "push_sleep", "push_wait"}
    /\ \A w \in Workers :
          /\ pc[w] \in {"recv", "send", "close"} => client_sd[w] # None
          /\ pc[w] \notin {"pop_unlock", "recv", "send", "close"} => client_sd[w] = None

-----------------------------------------------------------------------------
(* Mutual exclusion of the queue's critical sections, among queue_push,    *)
(* queue_pop, main's shutdown broadcast and handle_signal.                 *)
Locked == {"pop", "pop_sleep", "pop_unlock", "push", "push_sleep", "push_unlock",
           "shut_unlock"}

(* The mutex is held by exactly the thread whose own code, or one of whose *)
(* signal handlers, is between lock and unlock, and never by both.         *)
MutexInv ==
    /\ \A t \in Threads : pc[t] \in Locked => mutex = t
    /\ \A s \in Signals : hpc[s] = "unlock" => mutex = hthread[s] /\ pc[mutex] \notin Locked
    /\ \A r, s \in Signals : hpc[r] = "unlock" /\ hpc[s] = "unlock" => r = s
    /\ mutex # None => \/ pc[mutex] \in Locked
                       \/ \E s \in Signals : hpc[s] = "unlock" /\ hthread[s] = mutex

-----------------------------------------------------------------------------
(* The ring buffer and the ownership of descriptors. *)

Slot(k) == (head + k) % QueueSize          \* the k-th oldest queued entry's index
Queued == {client_sockets[Slot(k)] : k \in 0..count-1}
Held(c) == {t \in Threads : client_sd[t] = c}

(* tail is where the ring says it is, so a push overwrites no live slot. *)
RingInv == tail = (head + count) % QueueSize

(* A descriptor is in at most one place: one live slot of the ring or one  *)
(* thread's client_sd; while it is there it is open and was accepted.      *)
NoConnShared ==
    /\ \A j, k \in 0..count-1 : client_sockets[Slot(j)] = client_sockets[Slot(k)] => j = k
    /\ \A t \in Threads : client_sd[t] # None =>
          /\ sock[client_sd[t]] = "accepted" /\ client_sd[t] \notin Queued
          /\ \A u \in Threads : client_sd[u] = client_sd[t] => u = t
    /\ \A c \in Queued : c \in Conns /\ sock[c] = "accepted"

(* Descriptors accept has returned that are still open, in nobody's hand   *)
(* and in no live slot: nothing will ever close them.                      *)
Forgotten == {c \in Conns : sock[c] = "accepted" /\ c \notin Queued /\ Held(c) = {}}

(* Until shutdown begins no accepted descriptor is forgotten: it is queued *)
(* or in a thread's hand until close.  Shutdown forgets at most one, the   *)
(* one that queue_push's early return drops.                               *)
NoConnLost ==
    /\ server_running => Forgotten = {}
    /\ \A c, d \in Forgotten : c = d

(* A client gets at most one "Hi, responding from Thread" reply, whatever  *)
(* the workers, wakeups and signals do.                                    *)
OneAnswer == \A a, b \in answers : a[2] = b[2] => a = b

-----------------------------------------------------------------------------
(* Wakeups: pthread_cond_signal (one waiter) is enough. *)

OnTheWay == {w \in Workers : pc[w] \in {"pop_lock", "pop"}}

(* If a worker sleeps on not_empty, every queued connection has an awake   *)
(* worker on its way to take it: no connection waits beside a sleeper.     *)
NoLostPop == not_empty # {} => count <= Cardinality(OnTheWay)

(* If main sleeps on not_full the queue is still full. *)
NoLostPush == not_full # {} => count = QueueSize

(* Once a signal handler has returned no thread sleeps on either condition *)
(* variable, then or ever after: server_running was read and the wait      *)
(* entered under the mutex that the handler's broadcast needs.             *)
ShutdownWakesAll == (\E s \in Signals : hpc[s] = "done") => not_empty \cup not_full = {}

(* Once main has made the broadcast of its shutdown, no worker waits for a *)
(* connection, then or ever after, whichever handlers are still on their   *)
(* way to the mutex: main's join waits for no lost wakeup.                 *)
JoinWakeups == pc[Main] \in {"shut_unlock", "join", "done"} => not_empty = {}

-----------------------------------------------------------------------------
(* The ring, the lock and the condition variables implement a bounded FIFO *)
(* queue of connections, each served by one worker.                        *)
Fifo == INSTANCE ConnFifo WITH
    Capacity <- QueueSize,
    pending  <- [k \in 1..count |-> client_sockets[Slot(k - 1)]],
    held     <- [w \in Workers |-> client_sd[w]],
    seen     <- {c \in Conns : \/ sock[c] = "closed" \/ c \in Queued
                               \/ \E w \in Workers : client_sd[w] = c},
    answered <- answers

RefinesFifo == Fifo!FifoSpec

-----------------------------------------------------------------------------
(* Liveness *)

(* Every connection the kernel established is in the end accepted, handed  *)
(* to a worker and closed, unless a signal stops the server first.         *)
EveryConnServed ==
    \A c \in Conns : sock[c] = "backlog" ~> sock[c] = "closed" \/ ~server_running

(* handle_signal waits for a mutex its own thread holds: for ever. *)
SelfBlocked == \E s \in Signals : OnTop(s) /\ hpc[s] = "lock" /\ mutex = hthread[s]

(* A signal stops the server: main joins all the workers and returns. *)
ShutdownCompletes == ~server_running ~> pc[Main] = "done"

(* The same, for handlers that never interrupt their own critical section. *)
ShutdownUnlessSelfBlocked == []~SelfBlocked => ShutdownCompletes
=============================================================================
