------------------------------ MODULE ConnFifo ------------------------------
(***************************************************************************)
(* What the server's connection queue promises, with no ring buffer, lock  *)
(* or condition variable: accepted connections wait in arrival order in a  *)
(* queue of bounded length, each is handed to one worker, which answers it *)
(* at most once and finishes it.                                           *)
(***************************************************************************)
EXTENDS Naturals, Sequences

CONSTANTS Workers, Conns, Capacity, None
VARIABLES pending,   \* the queued connections, oldest first
          held,      \* the connection each worker serves, or None
          seen,      \* the connections that ever entered the queue
          answered   \* <<worker, connection>>: replies

fifoVars == <<pending, held, seen, answered>>

FifoInit ==
    /\ pending = <<>> /\ held = [w \in Workers |-> None]
    /\ seen = {} /\ answered = {}

Enqueue(c) ==
    /\ c \notin seen /\ Len(pending) < Capacity
    /\ pending' = Append(pending, c) /\ seen' = seen \cup {c}
    /\ UNCHANGED <<held, answered>>

Dequeue(w) ==
    /\ pending # <<>> /\ held[w] = None
    /\ held' = [held EXCEPT ![w] = Head(pending)] /\ pending' = Tail(pending)
    /\ UNCHANGED <<seen, answered>>

Answer(w) ==
    /\ held[w] # None /\ \A v \in Workers : <<v, held[w]>> \notin answered
    /\ answered' = answered \cup {<<w, held[w]>>}
    /\ UNCHANGED <<pending, held, seen>>

Finish(w) ==
    /\ held[w] # None
    /\ held' = [held EXCEPT ![w] = None]
    /\ UNCHANGED <<pending, seen, answered>>

FifoNext ==
    \/ \E c \in Conns : Enqueue(c)
    \/ \E w \in Workers : Dequeue(w) \/ Answer(w) \/ Finish(w)

FifoSpec == FifoInit /\ [][FifoNext]_fifoVars
=============================================================================
