---------------------------- MODULE ProxyServer ----------------------------
(***************************************************************************)
(* The file proxy of "Assements 2/Problem_B/proxy_server.c".  main accepts *)
(* connections and starts one detached thread for each, client_handler,    *)
(* which reads the request with one recv, opens the named file and sends a *)
(* header and the file's chunks, or an error page, and closes.  The signal *)
(* handler stops the accept loop; main then returns, which ends the        *)
(* process and every thread still sending.  Thread c serves connection c.  *)
(***************************************************************************)
EXTENDS Integers, FiniteSets

CONSTANTS Conns,          \* connections; also the threads that serve them
          Main,
          SignalThreads,  \* the threads the kernel may run the handler on
          Chunks,         \* a served file is sent in this many buffers
          Requests,       \* what clients ask for: a "file", a "missing" name, or
                          \* the "directory" itself (an empty or dotted name)
          None

ASSUME ProxyAssumption ==
    /\ Main \notin Conns /\ None \notin Conns \cup {Main}
    /\ SignalThreads \subseteq Conns \cup {Main} /\ Chunks \in Nat
    /\ Requests \subseteq {"file", "missing", "directory"}

VARIABLES
    server_running, listening,
    mpc, accepted,     \* main: its place, and the client_sd it has in hand
    tpc,               \* per connection: the place of its thread, or "none"
    hpc, hthread,      \* handle_signal: its place, and the thread it runs on
    sock,              \* the server's end of each connection
    wanted,            \* what each client's request names; never changes
    arrived,           \* request bytes delivered: "none", "part", "whole"
    read,              \* what the thread's recv returned of them
    gone,              \* clients that have closed
    status, pos, body  \* the response: 0, 200 or 404; chunks read from the file;
                       \* chunks send took whole

control == <<server_running, listening>>
main    == <<mpc, accepted>>
handler == <<hpc, hthread>>
client  == <<wanted, arrived, gone>>
reply   == <<read, status, pos, body>>
vars    == <<control, main, tpc, handler, sock, client, reply>>

Init ==
    /\ server_running = TRUE /\ listening = TRUE
    /\ mpc = "loop" /\ accepted = None
    /\ tpc = [c \in Conns |-> "none"]
    /\ hpc = "unsent" /\ hthread = None
    /\ sock = [c \in Conns |-> "idle"]
    /\ wanted \in [Conns -> Requests]
    /\ arrived = [c \in Conns |-> "none"] /\ read = [c \in Conns |-> "none"]
    /\ gone = {} /\ status = [c \in Conns |-> 0]
    /\ pos = [c \in Conns |-> 0] /\ body = [c \in Conns |-> {}]

Running   == mpc # "exited"                      \* the process has not ended
Active    == hpc \in {"flag", "close", "return"}
Runs(t)   == Running /\ ~(Active /\ hthread = t)
KernelListening == listening \/ (mpc = "blocked" /\ Runs(Main))

-----------------------------------------------------------------------------
(* main.  Definitions named *_bug are seeded faults, never part of Next. *)

MainMove(from, to) ==
    /\ Runs(Main) /\ mpc = from /\ mpc' = to
    /\ UNCHANGED <<control, accepted, tpc, handler, sock, client, reply>>

MainLoop     == MainMove("loop", IF server_running THEN "accept" ELSE "exit")
AcceptEnter  == listening /\ MainMove("accept", "blocked")
AcceptClosed == ~listening /\ MainMove("accept", "failed")
AcceptError  == listening /\ MainMove("accept", "failed")
AcceptFailed_bug == MainMove("failed", "accept")
AcceptFailed == MainMove("failed", IF server_running THEN "loop" ELSE "exit")

Accept(c) ==
    /\ Runs(Main) /\ mpc = "blocked" /\ sock[c] = "backlog"
    /\ mpc' = "spawn" /\ accepted' = c
    /\ sock' = [sock EXCEPT ![c] = "accepted"]
    /\ UNCHANGED <<control, tpc, handler, client, reply>>

Spawn ==
    /\ Runs(Main) /\ mpc = "spawn"
    /\ tpc' = [tpc EXCEPT ![accepted] = "recv"]
    /\ mpc' = "loop" /\ accepted' = None
    /\ UNCHANGED <<control, handler, sock, client, reply>>

(* malloc or pthread_create fails: the connection is closed unanswered. *)
SpawnFails_bug ==
    /\ Runs(Main) /\ mpc = "spawn" /\ mpc' = "loop" /\ accepted' = None
    /\ UNCHANGED <<control, tpc, handler, sock, client, reply>>
SpawnFails ==
    /\ Runs(Main) /\ mpc = "spawn" /\ mpc' = "loop" /\ accepted' = None
    /\ sock' = [sock EXCEPT ![accepted] = "closed"]
    /\ UNCHANGED <<control, tpc, handler, client, reply>>

Exit ==
    /\ Runs(Main) /\ mpc = "exit"
    /\ listening' = FALSE /\ mpc' = "exited"
    /\ UNCHANGED <<server_running, accepted, tpc, handler, sock, client, reply>>

-----------------------------------------------------------------------------
(* client_handler *)

ThreadAt(c, place) == Runs(c) /\ tpc[c] = place
Then(c, place) == tpc' = [tpc EXCEPT ![c] = place]

Receive(c, atEnd) ==
    /\ ThreadAt(c, "recv")
    /\ \/ /\ arrived[c] # "none" /\ Then(c, "open")
          /\ read' = [read EXCEPT ![c] = arrived[c]]
       \/ c \in gone /\ Then(c, atEnd) /\ UNCHANGED read
    /\ UNCHANGED <<control, main, handler, sock, client, status, pos, body>>
Recv_bug(c) == Receive(c, "ended")
Recv(c)     == Receive(c, "finish")

(* The name recv returned is looked up: a name cut short is not found, and *)
(* fopen for reading succeeds on a directory.                              *)
Opens(c) == read[c] = "whole" /\ wanted[c] \in {"file", "directory"}

SendStatus(c) ==
    /\ ThreadAt(c, "open")
    /\ status' = [status EXCEPT ![c] = IF Opens(c) THEN 200 ELSE 404]
    /\ Then(c, IF Opens(c) THEN "body" ELSE "finish")
    /\ UNCHANGED <<control, main, handler, sock, client, read, pos, body>>

FileSize(c) == IF wanted[c] = "file" THEN Chunks ELSE 0     \* fread of a directory fails

(* One turn of the loop: the result of send is ignored, so a chunk it did  *)
(* not take is skipped.                                                    *)
SendChunk(c) ==
    /\ ThreadAt(c, "body") /\ pos[c] < FileSize(c)
    /\ pos' = [pos EXCEPT ![c] = @ + 1]
    /\ \/ body' = [body EXCEPT ![c] = @ \cup {pos'[c]}]
       \/ c \in gone /\ body' = body
    /\ UNCHANGED <<control, main, tpc, handler, sock, client, read, status>>

EndOfFile_bug(c) ==
    /\ ThreadAt(c, "body") /\ Then(c, "finish")
    /\ UNCHANGED <<control, main, handler, sock, client, reply>>
EndOfFile(c) == pos[c] = FileSize(c) /\ EndOfFile_bug(c)

CloseSocket(c) ==
    /\ ThreadAt(c, "finish") /\ Then(c, "ended")
    /\ sock' = [sock EXCEPT ![c] = "closed"]
    /\ UNCHANGED <<control, main, handler, client, reply>>

-----------------------------------------------------------------------------
(* handle_signal, on top of main or of a client_handler *)

Deliver(t) ==
    /\ Running /\ hpc = "unsent" /\ (t # Main => tpc[t] \notin {"none", "ended"})
    /\ hpc' = "flag" /\ hthread' = t
    /\ UNCHANGED <<control, main, tpc, sock, client, reply>>

HandlerMove(from, to) ==
    /\ Running /\ hpc = from /\ hpc' = to
    /\ UNCHANGED <<hthread, accepted, sock, client, read, status, body>>

HandlerFlag ==
    /\ HandlerMove("flag", "close") /\ server_running' = FALSE
    /\ UNCHANGED <<listening, mpc, tpc, pos>>
HandlerClose ==
    /\ HandlerMove("close", "return") /\ listening' = FALSE
    /\ UNCHANGED <<server_running, mpc, tpc, pos>>

(* On return an interrupted accept or recv fails with EINTR, and a send    *)
(* interrupted part of the way is short.                                   *)
HandlerReturn ==
    /\ HandlerMove("return", "done")
    /\ mpc' = IF hthread = Main /\ mpc = "blocked" THEN "failed" ELSE mpc
    /\ \/ UNCHANGED <<tpc, pos>>
       \/ \E c \in Conns \cap {hthread} :
            \/ tpc[c] = "recv" /\ Then(c, "finish") /\ UNCHANGED pos
            \/ /\ tpc[c] = "body" /\ pos[c] < FileSize(c) /\ UNCHANGED tpc
               /\ pos' = [pos EXCEPT ![c] = @ + 1]
    /\ UNCHANGED control

-----------------------------------------------------------------------------
(* The clients and the kernel *)

ClientConnect(c) ==
    /\ KernelListening /\ sock[c] = "idle"
    /\ sock' = [sock EXCEPT ![c] = "backlog"]
    /\ UNCHANGED <<control, main, tpc, handler, client, reply>>

(* The request's bytes are delivered at once or in two segments. *)
Segment(c) ==
    /\ sock[c] # "idle" /\ c \notin gone
    /\ \/ arrived[c] = "none" /\ \E a \in {"part", "whole"} :
            arrived' = [arrived EXCEPT ![c] = a]
       \/ arrived[c] = "part" /\ arrived' = [arrived EXCEPT ![c] = "whole"]
    /\ UNCHANGED <<control, main, tpc, handler, sock, wanted, gone, reply>>

ClientClose(c) ==
    /\ sock[c] # "idle" /\ c \notin gone /\ gone' = gone \cup {c}
    /\ UNCHANGED <<control, main, tpc, handler, sock, wanted, arrived, reply>>

-----------------------------------------------------------------------------
MainStep ==
    \/ MainLoop \/ AcceptEnter \/ AcceptClosed \/ AcceptFailed \/ Spawn \/ Exit
    \/ \E c \in Conns : Accept(c)
ThreadStep(c) == Recv(c) \/ SendStatus(c) \/ SendChunk(c) \/ EndOfFile(c) \/ CloseSocket(c)
HandlerStep == HandlerFlag \/ HandlerClose \/ HandlerReturn
Next ==
    \/ MainStep \/ AcceptError \/ SpawnFails \/ HandlerStep
    \/ \E t \in SignalThreads : Deliver(t)
    \/ \E c \in Conns : ThreadStep(c) \/ ClientConnect(c) \/ Segment(c) \/ ClientClose(c)
Spec == Init /\ [][Next]_vars

(* Every thread that can run is run, accept does not fail for ever, and a  *)
(* client delivers its request or closes.                                  *)
FairSpec ==
    /\ Spec /\ WF_vars(MainStep) /\ SF_vars(AcceptEnter) /\ WF_vars(HandlerStep)
    /\ \A c \in Conns : WF_vars(ThreadStep(c)) /\ WF_vars(Segment(c) \/ ClientClose(c))
=============================================================================
