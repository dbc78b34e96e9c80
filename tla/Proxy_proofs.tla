---------------------------- MODULE Proxy_proofs ----------------------------
(***************************************************************************)
(* Theorems about the file proxy, for any number of connections, chunks    *)
(* and handler threads, and about the proxy with its client pool, for any  *)
(* size of the pool.                                                       *)
(***************************************************************************)
EXTENDS ProxySystem, FiniteSetTheorems, TLAPS

(* Every variable of the proxy has its type; main has a socket in hand     *)
(* exactly between accept and pthread_create.                              *)
ProxyTyped ==
    /\ server_running \in BOOLEAN /\ listening \in BOOLEAN
    /\ mpc \in {"loop", "accept", "blocked", "failed", "spawn", "exit", "exited"}
    /\ accepted \in Conns \cup {None} /\ (accepted # None <=> mpc = "spawn")
    /\ tpc \in [Conns -> {"none", "recv", "open", "body", "finish", "ended"}]
    /\ hpc \in {"unsent", "flag", "close", "return", "done"}
    /\ hthread \in Conns \cup {Main, None} /\ (hpc = "unsent" => hthread = None)
    /\ sock \in [Conns -> {"idle", "backlog", "accepted", "closed"}]
    /\ wanted \in [Conns -> Requests] /\ gone \subseteq Conns
    /\ arrived \in [Conns -> {"none", "part", "whole"}]
    /\ read \in [Conns -> {"none", "part", "whole"}]
    /\ status \in [Conns -> {0, 200, 404}]
    /\ pos \in [Conns -> Nat] /\ body \in [Conns -> SUBSET Nat]

(* A connection has no thread before it is accepted and while main holds   *)
(* its socket: the strengthening SocketsAccounted needs.                   *)
SocketsInv ==
    /\ SocketsAccounted
    /\ \A c \in Conns : sock[c] \in {"idle", "backlog"} \/ accepted = c => tpc[c] = "none"

(* The chunks delivered are a prefix until the handler that interrupted    *)
(* the sending thread returns.                                             *)
PrefixInv ==
    \A c \in Conns : c \notin gone /\ (hthread # c \/ hpc # "done") => body[c] = 1..pos[c]

(* How far an answer has come, by the place of its thread: nothing before  *)
(* the request was read, 200 while the file is sent, and a status and the  *)
(* whole file once the thread has finished, unless the client left or the  *)
(* handler interrupted the thread.                                         *)
AnswerInv ==
    \A c \in Conns :
        /\ tpc[c] \in {"none", "recv", "open"} => status[c] = 0
        /\ tpc[c] \in {"open", "body"} \/ status[c] # 0 => arrived[c] # "none"
        /\ tpc[c] = "body" => status[c] = 200
        /\ status[c] # 200 => pos[c] = 0
        /\ tpc[c] \in {"finish", "ended"} /\ c \notin gone /\ hthread # c =>
              status[c] # 0 /\ (status[c] = 200 => pos[c] = FileSize(c))

ProxyInv == ProxyTyped /\ SocketsInv /\ PrefixInv /\ AnswerInv

-----------------------------------------------------------------------------
(* Every step of the proxy keeps the types.                                *)
LEMMA ProxyTypedNext == ProxyTyped /\ [Next]_vars => ProxyTyped'
<1> SUFFICES ASSUME ProxyTyped, [Next]_vars PROVE ProxyTyped'
  OBVIOUS
<1> USE ProxyAssumption DEF ProxyTyped
<1>1. CASE MainLoop \/ AcceptEnter \/ AcceptClosed \/ AcceptError \/ AcceptFailed \/ Exit
  <2>1. mpc' \in {"loop", "accept", "blocked", "failed", "exit", "exited"} /\ mpc # "spawn"
    BY <1>1 DEF MainLoop, AcceptEnter, AcceptClosed, AcceptError, AcceptFailed, Exit, MainMove
  <2>2. listening' \in BOOLEAN
        /\ UNCHANGED <<server_running, accepted, tpc, handler, sock, client, reply>>
    BY <1>1 DEF MainLoop, AcceptEnter, AcceptClosed, AcceptError, AcceptFailed, Exit, MainMove, control
  <2> QED BY <2>1, <2>2 DEF handler, client, reply
<1>2. ASSUME NEW c \in Conns, Accept(c) PROVE ProxyTyped'
  BY <1>2 DEF Accept, control, handler, client, reply
<1>3. CASE Spawn
  BY <1>3 DEF Spawn, control, handler, client, reply
<1>4. CASE SpawnFails
  BY <1>4 DEF SpawnFails, control, handler, client, reply
<1>5. ASSUME NEW c \in Conns, Recv(c) PROVE ProxyTyped'
  BY <1>5 DEF Recv, Receive, Then, control, main, handler, client
<1>6. ASSUME NEW c \in Conns, SendStatus(c) PROVE ProxyTyped'
  BY <1>6 DEF SendStatus, Then, control, main, handler, client
<1>7. ASSUME NEW c \in Conns, SendChunk(c) PROVE ProxyTyped'
  <2>1. pos' \in [Conns -> Nat]
    BY <1>7 DEF SendChunk
  <2>2. body' \in [Conns -> SUBSET Nat]
    BY <1>7, <2>1 DEF SendChunk
  <2> QED BY <1>7, <2>1, <2>2 DEF SendChunk, control, main, handler, client
<1>8. ASSUME NEW c \in Conns, EndOfFile(c) PROVE ProxyTyped'
  BY <1>8 DEF EndOfFile, EndOfFile_bug, Then, control, main, handler, client, reply
<1>9. ASSUME NEW c \in Conns, CloseSocket(c) PROVE ProxyTyped'
  BY <1>9 DEF CloseSocket, Then, control, main, handler, client, reply
<1>10. ASSUME NEW t \in SignalThreads, Deliver(t) PROVE ProxyTyped'
  BY <1>10 DEF Deliver, control, main, client, reply
<1>11. CASE HandlerFlag \/ HandlerClose
  <2>1. hpc' \in {"close", "return"} /\ server_running' \in BOOLEAN /\ listening' \in BOOLEAN
    BY <1>11 DEF HandlerFlag, HandlerClose, HandlerMove
  <2>2. UNCHANGED <<mpc, tpc, pos, hthread, accepted, sock, client, read, status, body>>
    BY <1>11 DEF HandlerFlag, HandlerClose, HandlerMove
  <2> QED BY <2>1, <2>2 DEF client
<1>12. CASE HandlerReturn
  <2>1. mpc' \in {mpc, "failed"} /\ (mpc' # mpc => mpc = "blocked") /\ accepted' = accepted
        /\ hpc' = "done" /\ UNCHANGED <<control, hthread, sock, client, read, status, body>>
    BY <1>12 DEF HandlerReturn, HandlerMove
  <2>2. tpc' \in [Conns -> {"none", "recv", "open", "body", "finish", "ended"}]
        /\ pos' \in [Conns -> Nat]
    BY <1>12 DEF HandlerReturn, Then
  <2> QED BY <2>1, <2>2 DEF control, client
<1>13. ASSUME NEW c \in Conns, ClientConnect(c) \/ Segment(c) \/ ClientClose(c) PROVE ProxyTyped'
  BY <1>13 DEF ClientConnect, Segment, ClientClose, control, main, handler, client, reply
<1>14. CASE UNCHANGED vars
  BY <1>14 DEF vars, control, main, handler, client, reply
<1> QED
  BY <1>1, <1>2, <1>3, <1>4, <1>5, <1>6, <1>7, <1>8, <1>9, <1>10, <1>11, <1>12, <1>13, <1>14
  DEF Next, MainStep, ThreadStep, HandlerStep

(* Every step keeps the sockets with the threads that must close them.     *)
LEMMA SocketsNext == ProxyTyped /\ SocketsInv /\ [Next]_vars => SocketsInv'
<1> SUFFICES ASSUME ProxyTyped, SocketsInv, [Next]_vars PROVE SocketsInv'
  OBVIOUS
<1> USE ProxyAssumption DEF ProxyTyped, SocketsInv, SocketsAccounted
<1>1. CASE MainLoop \/ AcceptEnter \/ AcceptClosed \/ AcceptError \/ AcceptFailed \/ Exit
  <2>1. UNCHANGED <<accepted, tpc, sock>>
    BY <1>1 DEF MainLoop, AcceptEnter, AcceptClosed, AcceptError, AcceptFailed, Exit, MainMove
  <2> QED BY <2>1
<1>2. ASSUME NEW c \in Conns, Accept(c) PROVE SocketsInv'
  BY <1>2 DEF Accept
<1>3. CASE Spawn
  BY <1>3 DEF Spawn
<1>4. CASE SpawnFails
  BY <1>4 DEF SpawnFails
<1>5. ASSUME NEW c \in Conns, Recv(c) PROVE SocketsInv'
  BY <1>5 DEF Recv, Receive, Then, ThreadAt, main
<1>6. ASSUME NEW c \in Conns, SendStatus(c) PROVE SocketsInv'
  BY <1>6 DEF SendStatus, Then, ThreadAt, main
<1>7. ASSUME NEW c \in Conns, SendChunk(c) PROVE SocketsInv'
  BY <1>7 DEF SendChunk, main
<1>8. ASSUME NEW c \in Conns, EndOfFile(c) PROVE SocketsInv'
  BY <1>8 DEF EndOfFile, EndOfFile_bug, Then, ThreadAt, main
<1>9. ASSUME NEW c \in Conns, CloseSocket(c) PROVE SocketsInv'
  BY <1>9 DEF CloseSocket, Then, ThreadAt, main
<1>10. ASSUME NEW t \in SignalThreads, Deliver(t) PROVE SocketsInv'
  BY <1>10 DEF Deliver, main
<1>11. CASE HandlerFlag \/ HandlerClose
  BY <1>11 DEF HandlerFlag, HandlerClose, HandlerMove
<1>12. CASE HandlerReturn
  BY <1>12 DEF HandlerReturn, HandlerMove, Then
<1>13. ASSUME NEW c \in Conns, ClientConnect(c) \/ Segment(c) \/ ClientClose(c) PROVE SocketsInv'
  BY <1>13 DEF ClientConnect, Segment, ClientClose, main
<1>14. CASE UNCHANGED vars
  BY <1>14 DEF vars, main
<1> QED
  BY <1>1, <1>2, <1>3, <1>4, <1>5, <1>6, <1>7, <1>8, <1>9, <1>10, <1>11, <1>12, <1>13, <1>14
  DEF Next, MainStep, ThreadStep, HandlerStep

(* Every step keeps what was sent a prefix of the file.                    *)
LEMMA PrefixNext == ProxyTyped /\ PrefixInv /\ [Next]_vars => PrefixInv'
<1> SUFFICES ASSUME ProxyTyped, PrefixInv, [Next]_vars PROVE PrefixInv'
  OBVIOUS
<1> USE DEF ProxyTyped, PrefixInv
<1>1. CASE MainStep \/ AcceptError \/ SpawnFails
  <2>1. UNCHANGED <<gone, hthread, hpc, pos, body>>
    BY <1>1 DEF MainStep, MainLoop, AcceptEnter, AcceptClosed, AcceptError, AcceptFailed, Exit,
       MainMove, Accept, Spawn, SpawnFails, handler, client, reply
  <2> QED BY <2>1
<1>2. CASE HandlerFlag \/ HandlerClose
  BY <1>2 DEF HandlerFlag, HandlerClose, HandlerMove, client
<1>3. CASE HandlerReturn
  <2>1. \A c \in Conns : c # hthread => pos'[c] = pos[c]
    BY <1>3 DEF HandlerReturn
  <2>2. UNCHANGED <<gone, hthread, body>> /\ hpc' = "done" /\ hpc = "return"
    BY <1>3 DEF HandlerReturn, HandlerMove, client
  <2> QED BY <2>1, <2>2
<1>4. ASSUME NEW t \in SignalThreads, Deliver(t) PROVE PrefixInv'
  BY <1>4 DEF Deliver, client, reply
<1>5. ASSUME NEW c \in Conns, SendChunk(c) PROVE PrefixInv'
  <2>1. UNCHANGED <<gone, hthread, hpc>> /\ pos' = [pos EXCEPT ![c] = @ + 1]
    BY <1>5 DEF SendChunk, handler, client
  <2>2. \A d \in Conns : d # c => body'[d] = body[d] /\ pos'[d] = pos[d]
    BY <1>5 DEF SendChunk
  <2>3. c \notin gone => body'[c] = body[c] \cup {pos'[c]} /\ pos'[c] = pos[c] + 1
    BY <1>5 DEF SendChunk
  <2>4. 1..(pos[c] + 1) = 1..pos[c] \cup {pos[c] + 1}
    OBVIOUS
  <2> QED BY <2>1, <2>2, <2>3, <2>4
<1>6. ASSUME NEW c \in Conns, Recv(c) \/ SendStatus(c) \/ EndOfFile(c) \/ CloseSocket(c)
      PROVE  PrefixInv'
  BY <1>6 DEF Recv, Receive, SendStatus, EndOfFile, EndOfFile_bug, CloseSocket, handler, client, reply
<1>7. ASSUME NEW c \in Conns, ClientConnect(c) \/ Segment(c) \/ ClientClose(c) PROVE PrefixInv'
  BY <1>7 DEF ClientConnect, Segment, ClientClose, handler, client, reply
<1>8. CASE UNCHANGED vars
  BY <1>8 DEF vars, handler, client, reply
<1> QED
  BY <1>1, <1>2, <1>3, <1>4, <1>5, <1>6, <1>7, <1>8 DEF Next, ThreadStep, HandlerStep

(* Every step keeps how far an answer has come with the place of its       *)
(* thread.                                                                 *)
LEMMA AnswerNext ==
  ProxyTyped /\ SocketsInv /\ AnswerInv /\ [Next]_vars => AnswerInv'
<1> SUFFICES ASSUME ProxyTyped, SocketsInv, AnswerInv, [Next]_vars PROVE AnswerInv'
  OBVIOUS
<1> USE DEF ProxyTyped, AnswerInv
<1>0. wanted' = wanted
  BY DEF Next, MainStep, MainLoop, AcceptEnter, AcceptClosed, AcceptError, AcceptFailed, Exit,
     MainMove, Accept, Spawn, SpawnFails, ThreadStep, Recv, Receive, SendStatus, SendChunk,
     EndOfFile, EndOfFile_bug, CloseSocket, HandlerStep, HandlerFlag, HandlerClose,
     HandlerReturn, HandlerMove, Deliver, ClientConnect, Segment, ClientClose, vars, client
<1>00. \A c \in Conns : FileSize(c)' = FileSize(c)
  BY <1>0 DEF FileSize
<1> HIDE DEF FileSize
<1>1. CASE MainLoop \/ AcceptEnter \/ AcceptClosed \/ AcceptError \/ AcceptFailed \/ Exit
           \/ SpawnFails \/ \E c \in Conns : Accept(c)
  <2>1. UNCHANGED <<hthread, tpc, status, pos, arrived, gone>>
    BY <1>1 DEF MainLoop, AcceptEnter, AcceptClosed, AcceptError, AcceptFailed, Exit, MainMove,
       Accept, SpawnFails, handler, client, reply
  <2> QED BY <2>1, <1>00
<1>2. CASE Spawn
  <2>1. accepted \in Conns => tpc[accepted] = "none"
    BY <1>2 DEF SocketsInv
  <2>2. accepted \in Conns
    BY <1>2 DEF Spawn
  <2> QED BY <1>2, <1>00, <2>1, <2>2 DEF Spawn, handler, client, reply
<1>3. CASE HandlerFlag \/ HandlerClose
  <2>1. UNCHANGED <<hthread, tpc, status, pos, arrived, gone>>
    BY <1>3 DEF HandlerFlag, HandlerClose, HandlerMove, client
  <2> QED BY <2>1, <1>00
<1>4. CASE HandlerReturn
  <2>1. \A c \in Conns : hthread # c => tpc'[c] = tpc[c] /\ pos'[c] = pos[c]
    BY <1>4 DEF HandlerReturn, Then
  <2>2. UNCHANGED <<hthread, status, arrived, gone>>
    BY <1>4 DEF HandlerReturn, HandlerMove, client
  <2>3. \A c \in Conns : \/ tpc'[c] = tpc[c] /\ (pos'[c] = pos[c] \/ tpc[c] = "body")
                         \/ tpc[c] = "recv" /\ tpc'[c] = "finish" /\ pos'[c] = pos[c]
    BY <1>4 DEF HandlerReturn, Then
  <2> QED BY <1>00, <2>1, <2>2, <2>3
<1>5. ASSUME NEW t \in SignalThreads, Deliver(t) PROVE AnswerInv'
  <2>1. UNCHANGED <<tpc, status, pos, arrived, gone>> /\ hthread = None /\ hpc = "unsent"
    BY <1>5 DEF Deliver, client, reply
  <2> QED BY <1>00, <2>1, ProxyAssumption
<1>6. ASSUME NEW c \in Conns, Recv(c) PROVE AnswerInv'
  BY <1>6, <1>00 DEF Recv, Receive, ThreadAt, Then, handler, client
<1>7. ASSUME NEW c \in Conns, SendStatus(c) PROVE AnswerInv'
  BY <1>7, <1>00 DEF SendStatus, ThreadAt, Then, handler, client
<1>8. ASSUME NEW c \in Conns, SendChunk(c) PROVE AnswerInv'
  BY <1>8, <1>00 DEF SendChunk, ThreadAt, handler, client
<1>9. ASSUME NEW c \in Conns, EndOfFile(c) PROVE AnswerInv'
  BY <1>9, <1>00 DEF EndOfFile, EndOfFile_bug, ThreadAt, Then, handler, client, reply
<1>10. ASSUME NEW c \in Conns, CloseSocket(c) PROVE AnswerInv'
  BY <1>10, <1>00 DEF CloseSocket, ThreadAt, Then, handler, client, reply
<1>11. ASSUME NEW c \in Conns, ClientConnect(c) \/ Segment(c) \/ ClientClose(c) PROVE AnswerInv'
  BY <1>11, <1>00 DEF ClientConnect, Segment, ClientClose, handler, client, reply
<1>12. CASE UNCHANGED vars
  BY <1>12, <1>00 DEF vars, handler, client, reply
<1> QED
  BY <1>1, <1>2, <1>3, <1>4, <1>5, <1>6, <1>7, <1>8, <1>9, <1>10, <1>11, <1>12
  DEF Next, MainStep, ThreadStep, HandlerStep

(* The proxy's invariant holds at the start.                               *)
LEMMA ProxyInit == Init => ProxyInv
<1> SUFFICES ASSUME Init PROVE ProxyInv
  OBVIOUS
<1>1. ProxyTyped
  BY ProxyAssumption DEF Init, ProxyTyped
<1>2. SocketsInv /\ PrefixInv /\ AnswerInv
  BY ProxyAssumption DEF Init, SocketsInv, SocketsAccounted, PrefixInv, AnswerInv
<1> QED
  BY <1>1, <1>2 DEF ProxyInv

(* Every step of the proxy keeps its invariant.                            *)
LEMMA ProxyNext == ProxyInv /\ [Next]_vars => ProxyInv'
BY ProxyTypedNext, SocketsNext, PrefixNext, AnswerNext DEF ProxyInv

(* The proxy's invariant holds.                                            *)
LEMMA ProxyCorrect == Spec => []ProxyInv
BY ProxyInit, ProxyNext, PTL DEF Spec

(* However malloc, pthread_create, recv, the signals and the clients turn  *)
(* out, no accepted socket is lost or closed twice, for any number of      *)
(* connections.                                                            *)
THEOREM SocketsCorrect == Spec => []SocketsAccounted
<1>1. ProxyInv => SocketsAccounted
  BY DEF ProxyInv, SocketsInv
<1> QED
  BY <1>1, ProxyCorrect, PTL

(* A client that stays until its thread ended has a status and, with 200,  *)
(* every chunk, whatever the size and while a signal stops the proxy, too, *)
(* unless the handler interrupted that very thread.                        *)
THEOREM WholeAnswerCorrect == Spec => []WholeAnswerUnlessInterrupted
<1>1. ProxyInv => WholeAnswerUnlessInterrupted
  <2> SUFFICES ASSUME ProxyInv, NEW c \in Conns, c \notin gone, tpc[c] = "ended", hthread # c
               PROVE  status[c] # 0 /\ (status[c] = 200 => body[c] = 1..FileSize(c))
    BY DEF WholeAnswerUnlessInterrupted
  <2>1. status[c] # 0 /\ (status[c] = 200 => pos[c] = FileSize(c))
    BY DEF ProxyInv, AnswerInv
  <2>2. body[c] = 1..pos[c]
    BY DEF ProxyInv, PrefixInv
  <2> QED BY <2>1, <2>2
<1> QED
  BY <1>1, ProxyCorrect, PTL

-----------------------------------------------------------------------------
(* Every variable of the client process has its type. *)
PoolTyped ==
    /\ members \in Pools /\ pmain \in {"create", "join", "done", "failed"}
    /\ place \in [Conns -> {"unborn", "connect", "lost", "barrier1", "barrier2",
                            "send", "recv", "done"}]
    /\ DOMAIN got = Conns /\ broken \subseteq Conns

(* Who has come to the first barrier is connected, and who has passed it   *)
(* knows that everyone is.                                                 *)
Connected == {c \in members : sock[c] # "idle"}
BarriersInv ==
    \A c \in members :
        /\ place[c] \in {"barrier1"} \cup AfterBarrier2 => c \in Connected
        /\ place[c] \in AfterBarrier2 => Connected = members

(* A client of a running process closes only when it is done, and nothing  *)
(* of its request arrives before it has sent it.                           *)
ClientInv ==
    \A c \in members :
        /\ c \in gone /\ PoolRuns => place[c] = "done"
        /\ place[c] \notin {"recv", "done"} => arrived[c] = "none"

(* The thread that would serve c will never come to its end: the process   *)
(* has ended first, main closed the connection, or it waits in the backlog *)
(* of a socket that is no longer listening.                                *)
Cut(c) ==
    /\ tpc[c] # "ended"
    /\ ~Running \/ (tpc[c] = "none" /\ (sock[c] = "closed" \/ (sock[c] = "backlog" /\ ~KernelListening)))

(* A client that is done without an error was cut off, or has all its      *)
(* thread sent.                                                            *)
WholeSize(c) == 1 + (IF status[c] = 200 THEN FileSize(c) ELSE 0)
DoneInv ==
    \A c \in members : place[c] = "done" /\ c \notin broken =>
        \/ Cut(c)
        \/ tpc[c] = "ended" /\ (hthread # c => status[c] # 0 /\ got[c] = WholeSize(c))

SystemInv == PoolTyped /\ BarriersInv /\ ClientInv /\ DoneInv

-----------------------------------------------------------------------------
(* A step of the proxy with its pool is a step of the proxy or leaves it   *)
(* alone.                                                                  *)
LEMMA SystemProxyStep == [ProxySystemNext]_proxySystemVars => [Next]_vars
<1> USE DEF Next
<1>1. CASE \/ ProxyStep(MainStep) \/ ProxyStep(AcceptError) \/ ProxyStep(SpawnFails)
           \/ ProxyStep(HandlerStep) \/ \E t \in SignalThreads : ProxyStep(Deliver(t))
  BY <1>1 DEF ProxyStep
<1>2. CASE (StartFails \/ JoinAll) /\ UNCHANGED vars
  BY <1>2
<1>3. ASSUME NEW c \in Conns, ProxyStep(ThreadStep(c)) \/ Delivered(c) PROVE Next
  BY <1>3 DEF ProxyStep, Delivered
<1>4. ASSUME NEW c \in Conns, MemberStep(c) PROVE [Next]_vars
  BY <1>4 DEF MemberStep, Connects, NoConnection, SendsRequest, RequestFails, Receives,
     ReceivesEnd, ReceivesError, ProcessExit
<1>5. ASSUME NEW c \in Conns,
             FreeStep(c, ClientConnect(c)) \/ FreeStep(c, Segment(c)) \/ FreeStep(c, ClientClose(c))
      PROVE  Next
  BY <1>5 DEF FreeStep
<1>6. CASE UNCHANGED proxySystemVars
  BY <1>6 DEF proxySystemVars
<1> HIDE DEF Next
<1> QED
  BY <1>1, <1>2, <1>3, <1>4, <1>5, <1>6 DEF ProxySystemNext

(* A behaviour of the composition is one of the proxy.                     *)
LEMMA SystemIsProxy == ProxySystemSpec => Spec
<1>1. ProxySystemInit => Init
  BY DEF ProxySystemInit
<1> QED
  BY <1>1, SystemProxyStep, PTL DEF ProxySystemSpec, Spec

(* What a step of the proxy itself does to what the pool relies on: nobody *)
(* leaves, nothing more arrives, a connection is never idle again, a       *)
(* thread that ended stays so, and so does one that was cut off.           *)
ProxyKeeps ==
    /\ UNCHANGED <<wanted, arrived, gone>> /\ (hthread # None => hthread' = hthread)
    /\ \A c \in Conns : sock[c] # "idle" => sock'[c] # "idle"
    /\ \A c \in Conns : tpc[c] = "ended" => tpc'[c] = tpc[c] /\ status'[c] = status[c]
    /\ \A c \in Conns : Cut(c) => Cut(c)'

(* The proxy's own steps change nothing the pool relies on.                *)
LEMMA ProxyStepKeeps ==
  ProxyInv /\ (\/ MainStep \/ AcceptError \/ SpawnFails \/ HandlerStep
               \/ (\E t \in SignalThreads : Deliver(t)) \/ \E c \in Conns : ThreadStep(c))
  => ProxyKeeps
<1> SUFFICES ASSUME ProxyTyped, SocketsInv
             PROVE  (\/ MainStep \/ AcceptError \/ SpawnFails \/ HandlerStep
                     \/ (\E t \in SignalThreads : Deliver(t)) \/ \E c \in Conns : ThreadStep(c))
                    => ProxyKeeps
  BY DEF ProxyInv
<1> USE ProxyAssumption DEF ProxyTyped, ProxyKeeps, Cut, Running, KernelListening, Runs, Active, control, main, handler
<1>0. /\ \A c \in Conns : tpc[c] = "ended" => sock[c] = "closed"
      /\ accepted # None => accepted \in Conns /\ tpc[accepted] = "none" /\ sock[accepted] = "accepted"
  BY DEF SocketsInv, SocketsAccounted
<1>1. CASE MainLoop \/ AcceptEnter \/ AcceptClosed \/ AcceptError \/ AcceptFailed \/ Exit
  BY <1>1 DEF MainLoop, AcceptEnter, AcceptClosed, AcceptError, AcceptFailed, Exit, MainMove,
     client, reply
<1>2. ASSUME NEW c \in Conns, Accept(c) PROVE ProxyKeeps
  BY <1>0, <1>2 DEF Accept, client, reply
<1>3. CASE Spawn \/ SpawnFails
  BY <1>0, <1>3 DEF Spawn, SpawnFails, client, reply
<1>4. CASE HandlerFlag \/ HandlerClose
  BY <1>4 DEF HandlerFlag, HandlerClose, HandlerMove, client
<1>5. CASE HandlerReturn
  BY <1>5 DEF HandlerReturn, HandlerMove, Then, client
<1>6. ASSUME NEW t \in SignalThreads, Deliver(t) PROVE ProxyKeeps
  BY <1>6 DEF Deliver, client, reply
<1>7. ASSUME NEW c \in Conns, Recv(c) \/ SendStatus(c) PROVE ProxyKeeps
  BY <1>7 DEF Recv, Receive, SendStatus, Then, ThreadAt, client
<1>8. ASSUME NEW c \in Conns, SendChunk(c) \/ EndOfFile(c) PROVE ProxyKeeps
  BY <1>8 DEF SendChunk, EndOfFile, EndOfFile_bug, Then, ThreadAt, client, reply
<1>9. ASSUME NEW c \in Conns, CloseSocket(c) PROVE ProxyKeeps
  BY <1>9, <1>0 DEF CloseSocket, Then, ThreadAt, client, reply
<1> QED
  BY <1>1, <1>2, <1>3, <1>4, <1>5, <1>6, <1>7, <1>8, <1>9 DEF MainStep, ThreadStep, HandlerStep

(* A pool is finite; when all are at a barrier, every member is; a pool    *)
(* without barriers is one client.                                         *)
LEMMA Barriers ==
  ASSUME PoolTyped
  PROVE  /\ members \subseteq Conns
         /\ \A places : AllAt(places) => \A c \in members : place[c] \in places
         /\ ~Together => \A c, d \in members : c = d
<1>1. members \subseteq Conns /\ IsFiniteSet(members)
  BY PoolsAssumption DEF PoolTyped
<1>2. ASSUME NEW places, AllAt(places), NEW c \in members PROVE place[c] \in places
  <2> DEFINE Here == {d \in members : place[d] \in places}
  <2>1. Here = members
    BY <1>1, <1>2, FS_Subset DEF AllAt
  <2> QED BY <2>1
<1>3. ASSUME ~Together, NEW c \in members, NEW d \in members PROVE c = d
  <2> SUFFICES ASSUME c # d PROVE FALSE
    OBVIOUS
  <2>1. Cardinality(members) \in Nat /\ Cardinality(members \ {c}) = Cardinality(members) - 1
        /\ IsFiniteSet(members \ {c})
    BY <1>1, FS_CardinalityType, FS_RemoveElement
  <2>2. Cardinality((members \ {c}) \ {d}) = Cardinality(members) - 2
        /\ IsFiniteSet((members \ {c}) \ {d})
    BY <2>1, FS_RemoveElement
  <2>3. Cardinality((members \ {c}) \ {d}) \in Nat
    BY <2>2, FS_CardinalityType
  <2> QED BY <1>3, <2>1, <2>2, <2>3 DEF Together
<1> QED
  BY <1>1, <1>2, <1>3

(* At the start no member of the pool has connected.                       *)
LEMMA SystemInit == ProxySystemInit => SystemInv
BY PoolsAssumption DEF ProxySystemInit, PoolInit, Init, SystemInv, PoolTyped, BarriersInv, AfterBarrier2,
   ClientInv, DoneInv

(* Every step keeps the pool's types.                                      *)
LEMMA PoolTypedNext == PoolTyped /\ [ProxySystemNext]_proxySystemVars => PoolTyped'
<1> SUFFICES ASSUME PoolTyped, [ProxySystemNext]_proxySystemVars PROVE PoolTyped'
  OBVIOUS
<1> USE DEF PoolTyped
<1>1. CASE UNCHANGED proxyPoolVars
  BY <1>1 DEF proxyPoolVars
<1>2. CASE StartFails \/ JoinAll
  BY <1>2 DEF StartFails, JoinAll
<1>3. ASSUME NEW c \in Conns, MemberStep(c) PROVE PoolTyped'
  <2>1. CASE StartClient(c)
    BY <2>1 DEF StartClient
  <2>2. CASE ConnectOk(c) \/ ConnectFails(c) \/ LeaveBarrier(c) \/ SendOk(c) \/ SendFails(c)
    BY <2>2 DEF ConnectOk, ConnectFails, LeaveBarrier, SendOk, SendFails, Go
  <2>3. CASE (\E k \in 1..(Sent(c) - got[c]) : RecvSome(c, k)) \/ RecvEnd(c) \/ RecvError(c)
    BY <2>3 DEF RecvSome, RecvEnd, RecvError, Go
  <2>4. CASE UNCHANGED proxyPoolVars
    BY <2>4, <1>1
  <2> QED
    BY <1>3, <2>1, <2>2, <2>3, <2>4 DEF MemberStep, Connects, NoConnection, SendsRequest,
       RequestFails, Receives, ReceivesEnd, ReceivesError, ProcessExit
<1>4. UNCHANGED proxyPoolVars \/ StartFails \/ JoinAll \/ \E c \in Conns : MemberStep(c)
  BY DEF ProxySystemNext, ProxyStep, FreeStep, Delivered, proxySystemVars
<1> QED
  BY <1>1, <1>2, <1>3, <1>4

(* The steps of the composition that are not a member's own, and what all  *)
(* of them leave to a member.                                              *)
OthersKeep ==
    /\ UNCHANGED <<members, place, got, broken>>
    /\ UNCHANGED wanted /\ (hthread # None => hthread' = hthread)
    /\ PoolRuns' => PoolRuns
    /\ \A c \in members :
          /\ place[c] # "recv" => arrived'[c] = arrived[c]
          /\ PoolRuns => (c \in gone' <=> c \in gone)
          /\ sock[c] # "idle" => sock'[c] # "idle"
          /\ tpc[c] = "ended" => tpc'[c] = tpc[c] /\ status'[c] = status[c]
          /\ Cut(c) => Cut(c)'

(* A client's step undoes no cut.                                          *)
LEMMA CutStays ==
  ASSUME UNCHANGED <<listening, mpc, hpc, hthread, tpc>>, NEW c,
         sock[c] \in {"closed", "backlog"} => sock'[c] = sock[c]
  PROVE  Cut(c) => Cut(c)'
BY DEF Cut, Running, KernelListening, Runs, Active

(* Every step is a member's own, short of the end of the process, or       *)
(* leaves the members as OthersKeep says.                                  *)
LEMMA OtherSteps ==
  ProxyInv /\ PoolTyped /\ [ProxySystemNext]_proxySystemVars =>
      OthersKeep \/ \E c \in Conns : MemberStep(c) /\ ~ProcessExit(c)
<1> SUFFICES ASSUME ProxyInv, PoolTyped, [ProxySystemNext]_proxySystemVars,
                    ~\E c \in Conns : MemberStep(c) /\ ~ProcessExit(c)
             PROVE  OthersKeep
  OBVIOUS
<1> USE DEF OthersKeep
<1>0. ProxyTyped /\ members \subseteq Conns
  BY PoolsAssumption DEF ProxyInv, PoolTyped
<1>1. CASE \/ ProxyStep(MainStep) \/ ProxyStep(AcceptError) \/ ProxyStep(SpawnFails)
           \/ ProxyStep(HandlerStep) \/ (\E t \in SignalThreads : ProxyStep(Deliver(t)))
           \/ \E c \in Conns : ProxyStep(ThreadStep(c))
  <2>1. UNCHANGED proxyPoolVars /\ ProxyKeeps
    BY <1>1, ProxyStepKeeps DEF ProxyStep
  <2> QED BY <1>0, <2>1 DEF ProxyKeeps, proxyPoolVars, PoolRuns
<1>2. CASE (StartFails \/ JoinAll) /\ UNCHANGED vars
  BY <1>2, CutStays DEF StartFails, JoinAll, PoolRuns, vars, control, main, handler, client, reply
<1>3. ASSUME NEW c \in Conns, Delivered(c) PROVE OthersKeep
  BY <1>0, <1>3, CutStays DEF Delivered, Segment, control, main, handler, reply, proxyPoolVars, PoolRuns, ProxyTyped
<1>4. ASSUME NEW c \in Conns, ProcessExit(c) PROVE OthersKeep
  BY <1>0, <1>4, CutStays DEF ProcessExit, ClientClose, control, main, handler, reply, proxyPoolVars, PoolRuns
<1>5. ASSUME NEW c \in Conns,
             FreeStep(c, ClientConnect(c)) \/ FreeStep(c, Segment(c)) \/ FreeStep(c, ClientClose(c))
      PROVE  OthersKeep
  <2>1. c \notin members /\ UNCHANGED proxyPoolVars
        /\ (ClientConnect(c) \/ Segment(c) \/ ClientClose(c))
    BY <1>5 DEF FreeStep
  <2> QED
    BY <1>0, <2>1, CutStays DEF ClientConnect, Segment, ClientClose, control, main, handler, client, reply,
       proxyPoolVars, PoolRuns, ProxyTyped
<1>6. CASE UNCHANGED proxySystemVars
  BY <1>6, CutStays DEF proxySystemVars, proxyPoolVars, vars, control, main, handler, client, reply, PoolRuns
<1> QED
  BY <1>1, <1>2, <1>3, <1>4, <1>5, <1>6 DEF ProxySystemNext

(* Every step keeps the count of those at the barriers.                    *)
LEMMA BarriersNext ==
  ProxyInv /\ PoolTyped /\ BarriersInv /\ [ProxySystemNext]_proxySystemVars => BarriersInv'
<1> SUFFICES ASSUME ProxyInv, PoolTyped, BarriersInv, [ProxySystemNext]_proxySystemVars
             PROVE  BarriersInv'
  OBVIOUS
<1> USE DEF BarriersInv, AfterBarrier2, Connected
<1>0. ProxyTyped /\ members \subseteq Conns
  BY PoolsAssumption DEF ProxyInv, PoolTyped
<1>1. CASE OthersKeep
  BY <1>1 DEF OthersKeep
<1>2. ASSUME NEW c \in Conns, MemberStep(c), ~ProcessExit(c) PROVE BarriersInv'
  <2> USE <1>0 DEF PoolTyped, Go
  <2>1. CASE StartClient(c) /\ UNCHANGED vars
    BY <2>1 DEF StartClient, vars
  <2>2. CASE Connects(c)
    <3>1. c \in members /\ sock' = [sock EXCEPT ![c] = "backlog"] /\ members' = members
      BY <2>2 DEF Connects, ConnectOk, ClientConnect
    <3>2. CASE Together
      BY <2>2, <3>1, <3>2 DEF Connects, ConnectOk, ProxyTyped
    <3>3. CASE ~Together
      <4>1. \A d \in members : d = c
        BY <3>1, <3>3, Barriers
      <4> QED BY <3>1, <4>1 DEF ProxyTyped
    <3> QED BY <3>2, <3>3
  <2>3. CASE LeaveBarrier(c) /\ UNCHANGED vars
    <3>1. c \in members /\ \A d \in members : place[d] \in {"barrier1"} \cup AfterBarrier2
      BY <2>3, Barriers DEF LeaveBarrier
    <3>2. Connected = members
      BY <3>1
    <3> QED BY <2>3, <3>1, <3>2 DEF LeaveBarrier, vars
  <2>4. CASE NoConnection(c) \/ SendsRequest(c) \/ Receives(c)
    BY <2>4 DEF NoConnection, ConnectFails, SendsRequest, SendOk, Receives, RecvSome, vars
  <2>5. CASE RequestFails(c) \/ ReceivesEnd(c) \/ ReceivesError(c)
    BY <2>5 DEF RequestFails, SendFails, ReceivesEnd, RecvEnd, ReceivesError, RecvError, ClientClose
  <2> QED
    BY <1>2, <2>1, <2>2, <2>3, <2>4, <2>5 DEF MemberStep
<1> QED
  BY <1>1, <1>2, OtherSteps

(* Every step keeps a member of a running process from leaving early.      *)
LEMMA ClientNext ==
  ProxyInv /\ PoolTyped /\ ClientInv /\ [ProxySystemNext]_proxySystemVars => ClientInv'
<1> SUFFICES ASSUME ProxyInv, PoolTyped, ClientInv, [ProxySystemNext]_proxySystemVars
             PROVE  ClientInv'
  OBVIOUS
<1> USE DEF ClientInv
<1>0. ProxyTyped /\ members \subseteq Conns
  BY PoolsAssumption DEF ProxyInv, PoolTyped
<1>1. CASE OthersKeep
  BY <1>1 DEF OthersKeep
<1>2. ASSUME NEW c \in Conns, MemberStep(c), ~ProcessExit(c) PROVE ClientInv'
  <2> USE <1>0 DEF PoolTyped, Go, PoolRuns
  <2>1. CASE StartClient(c) /\ UNCHANGED vars
    BY <2>1 DEF StartClient, vars, client
  <2>2. CASE Connects(c)
    BY <2>2 DEF Connects, ConnectOk, ClientConnect, client
  <2>3. CASE LeaveBarrier(c) /\ UNCHANGED vars
    BY <2>3 DEF LeaveBarrier, vars, client
  <2>4. CASE NoConnection(c) \/ SendsRequest(c) \/ Receives(c)
    BY <2>4 DEF NoConnection, ConnectFails, SendsRequest, SendOk, Receives, RecvSome, vars, client
  <2>5. CASE RequestFails(c) \/ ReceivesEnd(c) \/ ReceivesError(c)
    BY <2>5 DEF RequestFails, SendFails, ReceivesEnd, RecvEnd, ReceivesError, RecvError, ClientClose
  <2> QED
    BY <1>2, <2>1, <2>2, <2>3, <2>4, <2>5 DEF MemberStep
<1> QED
  BY <1>1, <1>2, OtherSteps

(* A connection that ended was cut off, or its thread has finished.        *)
LEMMA EndedMeans ==
  ASSUME ProxyInv, NEW c \in Conns, Ended(c), tpc[c] # "ended"
  PROVE  Cut(c)
<1>1. sock[c] = "closed" => tpc[c] \in {"none", "ended"}
  BY DEF ProxyInv, ProxyTyped, SocketsInv, SocketsAccounted
<1>2. sock[c] = "backlog" => tpc[c] = "none"
  BY DEF ProxyInv, SocketsInv
<1> QED
  BY <1>1, <1>2 DEF Ended, Cut

(* A thread that ended without being interrupted by the handler has sent   *)
(* its client the whole answer.                                            *)
LEMMA FinishedSent ==
  ASSUME ProxyInv, NEW c \in Conns, tpc[c] = "ended", c \notin gone, hthread # c
  PROVE  status[c] # 0 /\ Sent(c) = WholeSize(c)
<1>1. /\ status[c] # 0
      /\ pos[c] = IF status[c] = 200 THEN FileSize(c) ELSE 0
  BY DEF ProxyInv, AnswerInv
<1>2. body[c] = 1..pos[c] /\ pos[c] \in Nat
  BY DEF ProxyInv, ProxyTyped, PrefixInv
<1>3. Cardinality(body[c]) = pos[c]
  BY <1>2, FS_Interval
<1> QED
  BY <1>1, <1>2, <1>3 DEF Sent, WholeSize

(* A client that stays has sent its request before its thread ends, unless *)
(* the handler interrupted the thread.                                     *)
LEMMA EndedArrived ==
  ASSUME ProxyInv, NEW c \in Conns, tpc[c] = "ended", c \notin gone, hthread # c
  PROVE  arrived[c] # "none"
BY DEF ProxyInv, AnswerInv

(* Every step keeps the members that are done answered.                    *)
LEMMA DoneNext ==
  ProxyInv /\ PoolTyped /\ ClientInv /\ DoneInv /\ [ProxySystemNext]_proxySystemVars => DoneInv'
<1> SUFFICES ASSUME ProxyInv, PoolTyped, ClientInv, DoneInv, [ProxySystemNext]_proxySystemVars
             PROVE  DoneInv'
  OBVIOUS
<1>0. ProxyTyped /\ members \subseteq Conns /\ None \notin Conns
  BY PoolsAssumption, ProxyAssumption DEF ProxyInv, PoolTyped
<1>1. CASE OthersKeep
  <2> SUFFICES ASSUME NEW c \in members, place[c] = "done", c \notin broken
               PROVE  \/ Cut(c)'
                      \/ tpc'[c] = "ended" /\ (hthread' # c => status'[c] # 0 /\ got'[c] = WholeSize(c)')
    BY <1>1 DEF DoneInv, OthersKeep
  <2>1. \/ Cut(c)
        \/ tpc[c] = "ended" /\ (hthread # c => status[c] # 0 /\ got[c] = WholeSize(c))
    BY DEF DoneInv
  <2>2. CASE Cut(c)
    BY <1>1, <2>2 DEF OthersKeep
  <2>3. CASE tpc[c] = "ended" /\ (hthread # c => status[c] # 0 /\ got[c] = WholeSize(c))
    <3>1. tpc'[c] = "ended" /\ status'[c] = status[c] /\ got' = got
          /\ (hthread' # c => hthread # c)
      BY <1>0, <1>1, <2>3 DEF OthersKeep
    <3>2. WholeSize(c)' = WholeSize(c)
      BY <1>1, <3>1 DEF WholeSize, FileSize, OthersKeep
    <3> QED BY <2>3, <3>1, <3>2
  <2> QED BY <2>1, <2>2, <2>3
<1>2. ASSUME NEW c \in Conns, MemberStep(c), ~ProcessExit(c) PROVE DoneInv'
  <2>1. /\ UNCHANGED <<members, wanted, tpc, status>> /\ UNCHANGED <<control, main, handler>> /\ c \in members
        /\ \A d \in members : sock[d] # "idle" => sock'[d] = sock[d]
        /\ \A d \in members : d # c => place'[d] = place[d] /\ got'[d] = got[d]
                                     /\ (d \in broken' <=> d \in broken)
    <3> USE <1>0 DEF PoolTyped, Go
    <3>1. CASE StartClient(c) /\ UNCHANGED vars
      BY <3>1 DEF StartClient, vars, control, client, reply
    <3>2. CASE Connects(c)
      BY <3>2 DEF Connects, ConnectOk, ClientConnect, ProxyTyped, control, client, reply
    <3>5. CASE LeaveBarrier(c) /\ UNCHANGED vars
      BY <3>5 DEF LeaveBarrier, vars, control, client, reply
    <3>3. CASE NoConnection(c) \/ SendsRequest(c) \/ Receives(c)
      BY <3>3 DEF NoConnection, ConnectFails, SendsRequest, SendOk, Receives, RecvSome, vars,
         control, client, reply
    <3>4. CASE RequestFails(c) \/ ReceivesEnd(c) \/ ReceivesError(c)
      BY <3>4 DEF RequestFails, SendFails, ReceivesEnd, RecvEnd, ReceivesError, RecvError,
         ClientClose, control, reply
    <3> QED BY <1>2, <3>1, <3>2, <3>3, <3>4, <3>5 DEF MemberStep
  <2>2. \A d \in members : WholeSize(d)' = WholeSize(d) /\ (Cut(d) => Cut(d)')
    <3>1. UNCHANGED <<listening, mpc, hpc, hthread>>
      BY <2>1 DEF control, main, handler
    <3> QED BY <2>1, <3>1 DEF WholeSize, FileSize, Cut, Running, KernelListening, Runs, Active
  <2>3. place[c] # "done" /\ (place'[c] = "done" => c \notin gone /\ place[c] \in {"send", "recv"})
    <3> USE <1>0 DEF PoolTyped, Go
    <3>1. CASE StartClient(c) /\ UNCHANGED vars
      BY <3>1 DEF StartClient
    <3>2. CASE Connects(c) \/ (LeaveBarrier(c) /\ UNCHANGED vars)
      BY <3>2 DEF Connects, ConnectOk, LeaveBarrier
    <3>3. CASE NoConnection(c) \/ SendsRequest(c) \/ Receives(c)
      BY <3>3 DEF NoConnection, ConnectFails, SendsRequest, SendOk, Receives, RecvSome
    <3>4. CASE RequestFails(c) \/ ReceivesEnd(c) \/ ReceivesError(c)
      BY <3>4 DEF RequestFails, SendFails, ReceivesEnd, RecvEnd, ReceivesError, RecvError, ClientClose
    <3> QED BY <1>2, <3>1, <3>2, <3>3, <3>4 DEF MemberStep
  <2>4. ASSUME place'[c] = "done", c \notin broken'
        PROVE  \/ Cut(c)
               \/ tpc[c] = "ended" /\ (hthread # c => status[c] # 0 /\ got'[c] = WholeSize(c))
    <3>1. \/ RequestFails(c) /\ arrived[c] = "none"
          \/ ReceivesEnd(c)
      <4>1. RequestFails(c) \/ ReceivesEnd(c) \/ ReceivesError(c)
        BY <1>0, <1>2, <2>1, <2>4 DEF MemberStep, StartClient, Connects, ConnectOk, LeaveBarrier,
           NoConnection, ConnectFails, SendsRequest, SendOk, Receives, RecvSome, Go, PoolTyped
      <4>2. ~ReceivesError(c)
        BY <2>4 DEF ReceivesError, RecvError
      <4>3. RequestFails(c) => arrived[c] = "none"
        BY <2>1 DEF RequestFails, SendFails, Go, ClientInv
      <4> QED BY <4>1, <4>2, <4>3
    <3>2. Ended(c)
      BY <3>1 DEF RequestFails, ReceivesEnd
    <3>3. CASE tpc[c] # "ended"
      BY <3>2, <3>3, EndedMeans
    <3>4. CASE tpc[c] = "ended"
      <4> SUFFICES ASSUME hthread # c PROVE status[c] # 0 /\ got'[c] = WholeSize(c)
        BY <3>4
      <4>1. status[c] # 0 /\ arrived[c] # "none" /\ Sent(c) = WholeSize(c)
        BY <2>3, <2>4, <3>4, FinishedSent, EndedArrived
      <4>2. got'[c] = Sent(c)
        BY <3>1, <4>1 DEF ReceivesEnd, RecvEnd
      <4> QED BY <4>1, <4>2
    <3> QED BY <3>3, <3>4
  <2> SUFFICES ASSUME NEW d \in members, place'[d] = "done", d \notin broken'
               PROVE  \/ Cut(d)
                      \/ tpc[d] = "ended" /\ (hthread # d => status[d] # 0 /\ got'[d] = WholeSize(d))
    BY <2>1, <2>2 DEF DoneInv, handler
  <2>5. CASE d = c
    BY <2>4, <2>5
  <2>6. CASE d # c
    BY <2>1, <2>6 DEF DoneInv
  <2> QED BY <2>5, <2>6
<1> QED
  BY <1>1, <1>2, OtherSteps

(* The invariants of the proxy and of the composition hold together.       *)
LEMMA SystemCorrect == ProxySystemSpec => [](ProxyInv /\ SystemInv)
<1>1. ProxySystemInit => ProxyInv /\ SystemInv
  BY ProxyInit, SystemInit DEF ProxySystemInit
<1>2. ProxyInv /\ SystemInv /\ [ProxySystemNext]_proxySystemVars => ProxyInv' /\ SystemInv'
  BY ProxyNext, SystemProxyStep, PoolTypedNext, BarriersNext, ClientNext, DoneNext DEF SystemInv
<1> QED
  BY <1>1, <1>2, PTL DEF ProxySystemSpec

(* With a pool of any size, no request leaves before all its clients are   *)
(* connected, and one that reads to the end has the whole of its answer if *)
(* its thread came to its end, uninterrupted by the handler.               *)
THEOREM PoolAnsweredCorrect == ProxySystemSpec => []PoolAnswered
<1>1. ProxyInv /\ SystemInv => PoolAnswered
  <2> SUFFICES ASSUME ProxyInv, SystemInv, NEW c \in members
               PROVE  /\ place[c] \in {"send", "recv", "done"} => \A d \in members : sock[d] # "idle"
                      /\ place[c] = "done" /\ c \notin broken /\ tpc[c] = "ended" /\ hthread # c
                            => status[c] # 0 /\ got[c] = WholeSize(c)
    BY DEF PoolAnswered, WholeSize
  <2> QED
    BY DEF SystemInv, BarriersInv, AfterBarrier2, Connected, DoneInv, Cut
<1> QED
  BY <1>1, SystemCorrect, PTL
=============================================================================
