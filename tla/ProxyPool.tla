----------------------------- MODULE ProxyPool ------------------------------
(***************************************************************************)
(* The proxy's client, "Assements 2/Problem_B/client.c".  With several     *)
(* files main starts one thread per file and joins them; the threads meet  *)
(* at two barriers between connect and send.  With one file main does the  *)
(* work itself.  A client reads until the server closes.  The server is an *)
(* environment here; ProxySystem composes the client with ProxyServer.     *)
(***************************************************************************)
EXTENDS Integers, FiniteSets

CONSTANT Pools       \* the sets of clients that one process may consist of

VARIABLES
    members,     \* this process' clients, one per file; never changes
    pmain,       \* main(): "create", "join", "done", or "failed" after exit()
    place,       \* per client: where it is in client_worker; "lost" if it did not connect
    got,         \* pieces of the answer it has received, in order
    broken       \* clients whose recv failed

proxyPoolVars == <<members, pmain, place, got, broken>>

PoolInit(Clients) ==
    /\ members \in Pools /\ pmain = IF members = {} THEN "done" ELSE "create"
    /\ place = [c \in Clients |-> "unborn"] /\ got = [c \in Clients |-> 0] /\ broken = {}

Together == Cardinality(members) > 1              \* the barriers exist
PoolRuns == pmain \in {"create", "join"}

StartClient(c) ==
    /\ pmain = "create" /\ c \in members /\ place[c] = "unborn"
    /\ place' = [place EXCEPT ![c] = "connect"]
    /\ pmain' = IF \A d \in members : place'[d] # "unborn" THEN "join" ELSE "create"
    /\ UNCHANGED <<members, got, broken>>
StartFails ==
    /\ Together /\ pmain = "create" /\ pmain' = "failed"
    /\ UNCHANGED <<members, place, got, broken>>
JoinAll ==
    /\ pmain = "join" /\ \A c \in members : place[c] \in {"done", "lost"}
    /\ pmain' = "done" /\ UNCHANGED <<members, place, got, broken>>

-----------------------------------------------------------------------------
(* client_worker *)

Go(c, from, to) ==
    /\ PoolRuns /\ c \in members /\ place[c] = from
    /\ place' = [place EXCEPT ![c] = to] /\ UNCHANGED <<members, pmain>>

ConnectOk(c)    == Go(c, "connect", IF Together THEN "barrier1" ELSE "send") /\ UNCHANGED <<got, broken>>
ConnectFails(c) == Go(c, "connect", "lost") /\ UNCHANGED <<got, broken>>

(* pthread_barrier_wait: all num_files threads have come. *)
AllAt_bug(places) == Cardinality({c \in members : place[c] \in places}) = Cardinality(members) + 1
AllAt(places) == Cardinality({c \in members : place[c] \in places}) = Cardinality(members)
AfterBarrier2 == {"barrier2", "send", "recv", "done"}
LeaveBarrier(c) ==
    /\ \/ AllAt({"barrier1"} \cup AfterBarrier2) /\ Go(c, "barrier1", "barrier2")
       \/ AllAt(AfterBarrier2) /\ Go(c, "barrier2", "send")
    /\ UNCHANGED <<got, broken>>

SendOk(c)    == Go(c, "send", "recv") /\ UNCHANGED <<got, broken>>
SendFails(c) == Go(c, "send", "done") /\ UNCHANGED <<got, broken>>

(* The loop goes on until recv returns 0 or fails. *)
RecvSome_bug(c, k) ==
    /\ Go(c, "recv", "done") /\ got' = [got EXCEPT ![c] = @ + k] /\ UNCHANGED broken
RecvSome(c, k) ==
    /\ Go(c, "recv", "recv") /\ got' = [got EXCEPT ![c] = @ + k] /\ UNCHANGED broken
RecvEnd(c)   == Go(c, "recv", "done") /\ UNCHANGED <<got, broken>>
RecvError(c) == Go(c, "recv", "done") /\ broken' = broken \cup {c} /\ UNCHANGED got
=============================================================================
