---------------------------- MODULE ProxySystem -----------------------------
(***************************************************************************)
(* The proxy with its clients: those of one client process, ProxyPool, and *)
(* others that do as they please.  Client c opens connection c.  The       *)
(* pieces of an answer are its header, or its error page, and the file's   *)
(* chunks.                                                                 *)
(***************************************************************************)
EXTENDS ProxyProperties, ProxyPool

ASSUME PoolsAssumption ==
    Pools \subseteq SUBSET Conns /\ \A pool \in Pools : IsFiniteSet(pool)

proxySystemVars == <<vars, proxyPoolVars>>
ProxySystemInit == Init /\ PoolInit(Conns)

-----------------------------------------------------------------------------
Sent(c) == Cardinality(body[c]) + (IF status[c] = 0 THEN 0 ELSE 1)

(* The proxy closes the connection, or its process ends with it.  If       *)
(* bytes of the request reach it that it does not read, the connection is  *)
(* reset, which may cost the client what is under way.                     *)
Ended(c) == sock[c] = "closed" \/ ~Running \/ (sock[c] = "backlog" /\ ~KernelListening)
Reset(c) == Ended(c) /\ (arrived[c] # read[c] \/ sock[c] = "backlog")

Connects(c)      == ConnectOk(c) /\ ClientConnect(c)
NoConnection(c)  == ConnectFails(c) /\ UNCHANGED vars
SendsRequest(c)     == SendOk(c) /\ UNCHANGED vars
RequestFails(c)  == Ended(c) /\ SendFails(c) /\ ClientClose(c)
Delivered(c)     == place[c] = "recv" /\ Segment(c) /\ UNCHANGED proxyPoolVars
Receives(c)      == \E k \in 1..(Sent(c) - got[c]) : RecvSome(c, k) /\ UNCHANGED vars
ReceivesEnd(c)   == Ended(c) /\ got[c] = Sent(c) /\ RecvEnd(c) /\ ClientClose(c)
ReceivesError(c) == Reset(c) /\ RecvError(c) /\ ClientClose(c)

(* exit() in the client's main closes what its threads have opened. *)
ProcessExit(c) == pmain = "failed" /\ c \in members /\ ClientClose(c) /\ UNCHANGED proxyPoolVars

MemberStep(c) ==
    \/ (StartClient(c) /\ UNCHANGED vars)
    \/ Connects(c) \/ NoConnection(c) \/ (LeaveBarrier(c) /\ UNCHANGED vars)
    \/ SendsRequest(c) \/ RequestFails(c) \/ Receives(c) \/ ReceivesEnd(c) \/ ReceivesError(c)
    \/ ProcessExit(c)
FreeStep(c, A) == c \notin members /\ A /\ UNCHANGED proxyPoolVars
ProxyStep(A) == A /\ UNCHANGED proxyPoolVars

ProxySystemNext ==
    \/ ProxyStep(MainStep) \/ ProxyStep(AcceptError) \/ ProxyStep(SpawnFails) \/ ProxyStep(HandlerStep)
    \/ \E t \in SignalThreads : ProxyStep(Deliver(t))
    \/ (StartFails \/ JoinAll) /\ UNCHANGED vars
    \/ \E c \in Conns :
        \/ ProxyStep(ThreadStep(c)) \/ MemberStep(c) \/ Delivered(c)
        \/ FreeStep(c, ClientConnect(c)) \/ FreeStep(c, Segment(c)) \/ FreeStep(c, ClientClose(c))
ProxySystemSpec == ProxySystemInit /\ [][ProxySystemNext]_proxySystemVars

(* Every thread of either process that can run is run, accept does not     *)
(* fail for ever, and what is sent is delivered.                           *)
ProxySystemFairness ==
    /\ WF_proxySystemVars(ProxyStep(MainStep)) /\ SF_proxySystemVars(ProxyStep(AcceptEnter))
    /\ WF_proxySystemVars(ProxyStep(HandlerStep)) /\ WF_proxySystemVars(JoinAll /\ UNCHANGED vars)
    /\ \A c \in Conns :
        /\ WF_proxySystemVars(ProxyStep(ThreadStep(c)))
        /\ WF_proxySystemVars(MemberStep(c) \/ Delivered(c) \/ FreeStep(c, Segment(c) \/ ClientClose(c)))

-----------------------------------------------------------------------------
(* No request of a pool leaves before all its clients are connected, and   *)
(* one that reads to the end without an error has the whole answer if its  *)
(* thread of the proxy came to its end, also while the proxy is stopping,  *)
(* unless the handler interrupted that thread.                             *)
PoolAnswered ==
    \A c \in members :
        /\ place[c] \in {"send", "recv", "done"} => \A d \in members : sock[d] # "idle"
        /\ place[c] = "done" /\ c \notin broken /\ tpc[c] = "ended" /\ hthread # c =>
            /\ status[c] # 0
            /\ got[c] = 1 + (IF status[c] = 200 THEN FileSize(c) ELSE 0)

(* If every client connects, the client process comes to its end: every    *)
(* connection has a thread of the proxy, which waits for no other.         *)
PoolReturns ==
    [](\A c \in members : place[c] # "lost") => <>(pmain \in {"done", "failed"})

(* Every connection the proxy accepted is in the end closed, or the        *)
(* process has ended, or it is one of a pool of which one client could not *)
(* connect: the others wait for it at the barrier, and keep their          *)
(* connections and the proxy's threads for ever.                           *)
EveryConnClosed ==
    <>[](\A c \in Conns :
            \/ sock[c] \in {"idle", "closed"} \/ ~Running
            \/ c \in members /\ Together /\ \E d \in members : place[d] = "lost")
=============================================================================
