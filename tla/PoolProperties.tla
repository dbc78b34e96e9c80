--------------------------- MODULE PoolProperties ---------------------------
(* The correctness properties of the client pool (Problem_A/client.c). *)
EXTENDS ClientPool

(* Every variable of the pool has its type. *)
PoolTypeOK ==
    /\ cmain \in {"create", "join", "done", "failed"} /\ created \in 0..PoolSize
    /\ cpc \in [Clients -> {"unborn", "connect", "connected", "wait_connect", "together",
                            "announced", "wait_send", "send", "recv", "close", "done"}]
    /\ connected \subseteq Clients /\ at_connect \subseteq Clients /\ at_send \subseteq Clients
    /\ announced \in BOOLEAN /\ replied \subseteq Clients

(* In a pool nobody sends before every client has connected and client 1   *)
(* has said so: what the two barriers are for.                             *)
AllConnectedFirst ==
    Pooled => \A i \in Clients :
        cpc[i] \in {"send", "recv", "close"} => connected = Clients /\ announced

(* A pool in which one connect failed sends nothing at all, ever: the      *)
(* others stop at the first barrier.                                       *)
OneFailureStrandsPool ==
    Pooled /\ (\E i \in Clients : cpc[i] = "done" /\ i \notin connected)
        => /\ at_send = {} /\ replied = {}
           /\ connected # {} => cmain # "done"
=============================================================================
