-------------------------- MODULE ProxyProperties --------------------------
(* The correctness properties of the file proxy (proxy_server.c). *)
EXTENDS ProxyServer

(* Every accepted socket is main's to hand on or has exactly one live      *)
(* thread that will close it; a closed one has neither, whichever of       *)
(* malloc, pthread_create, recv or the signal failed.                      *)
SocketsAccounted ==
    \A c \in Conns :
        LET owned == accepted = c   threaded == tpc[c] \in {"recv", "open", "body", "finish"}
        IN  /\ sock[c] = "accepted" <=> owned \/ threaded
            /\ ~(owned /\ threaded)

(* A client that stays until its thread has closed the connection has the  *)
(* whole answer, also when a signal stops the proxy meanwhile, unless      *)
(* the handler interrupted that very thread, in its recv or its send.      *)
WholeAnswerUnlessInterrupted ==
    \A c \in Conns :
        sock[c] = "closed" /\ c \notin gone /\ tpc[c] = "ended" /\ hthread # c
            => status[c] # 0 /\ (status[c] = 200 => body[c] = 1..FileSize(c))

(* When a thread reports "Successfully sent proxy copy", a client that     *)
(* stays has been sent every chunk of the file.                            *)
SentMeansWhole ==
    \A c \in Conns :
        tpc[c] \in {"finish", "ended"} /\ status[c] = 200 /\ c \notin gone
            => body[c] = 1..FileSize(c)

(* A signal handled on the main thread, the one Linux prefers, ends the    *)
(* process, whatever the other threads and the clients do.  On another     *)
(* thread it does not interrupt accept, which may wait for ever.           *)
ProxyStops == hthread = Main ~> ~Running
=============================================================================
