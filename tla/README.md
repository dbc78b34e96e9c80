# A verification project for the AOS, STCN and tool programs

This directory holds TLA+ models of the repository's programs, TLC configurations that
check them on small instances, and proofs, checked by TLAPS, of the properties that matter
most for every value of the parameters. `PROJECT.json` is the machine-readable index: it maps
each definition to the source lines it models and lists the runs, the seeded faults each
property is known to reject, the hazards of the code and the theorems.

Contents: [the system](#the-system), [modules](#modules), [how state and actions correspond to
the code](#how-the-models-correspond-to-the-code), [runs](#runs), [fairness](#fairness),
[findings](#findings), [proofs](#proofs), [what is not covered](#what-is-not-covered),
[plan](#plan).

## The system

The repository is a collection of course programs. They do not call one another; those of one
assignment talk over sockets. Directories named `send/` or `Send/` hold byte-identical copies
of the programs beside them and are not considered again.

| Component | Source | State | Operations | What makes it correct |
|---|---|---|---|---|
| Thread-pool TCP server | `AOS/.../Problem_A/server.c` | `server_running`, `listen_sd`, ring buffer with mutex and two condition variables, one descriptor per thread | accept loop, `queue_push`, `queue_pop`, worker loop, `handle_signal`, shutdown and join | each accepted descriptor has one owner and is neither lost nor served twice; no wakeup is lost; a signal stops it |
| Client pool | `Problem_A/client.c` | two barriers, one thread and socket per client | connect, barriers, send, receive, close | nobody sends before all are connected |
| File proxy server | `Problem_B/proxy_server.c` | accept loop, one detached thread per connection | look-up of the requested name, transmission, signal handler | each socket closed once; a client gets the whole of a designated file or an error page |
| Proxy client pool | `Problem_B/client.c` | as client pool, plus the pieces of the answer received | connect, barriers, request, read until the proxy closes | as client pool; a client that reads to the end has the whole answer |
| Line server and client | `AOS/.../tcpServer.c`, `tcpClient.c` | static receive buffer of `read_line` | accept, read a line, print | the lines printed are the lines sent |
| Datagram echo, stream echo | `STCN/.../Exp05`, `Exp04` | one socket each | request, reply, exit | answers belong to requests; both sides end |
| Framing, parity, checksum, CRC, Hamming | `STCN/.../Exp01`-`Exp03` | what is on the line | encode, corrupt, decode or check | lossless framing, no flag inside a frame, one flipped bit detected or corrected |
| Routing | `Exp06` | distance tables; distances, visited nodes and parents | a router's turn; the nearest node's visit | shortest paths, next hops that form no circle |
| Flow control simulations | `Exp07` | window pointers, frames acknowledged and delivered | send, lose, time out, acknowledge | each frame handed up once and in order, from within the window |
| Leaky bucket | `Exp08` | bucket content, place in the trace | a second: arrivals, overflow, leak | packets conserved, dropped only when arrivals exceed bucket and rate |
| Ciphers, RSA | `Exp09`, `Exp10` | keys | encrypt, decrypt | decryption inverts encryption |
| NS-2 scripts | `Exp11` | none | input of an external simulator | |
| Rainfall lab | `LAB_SE/.../Assignment 2.1` | the records, a sorted copy made once | load, extremes, merge and quick sort, range search | sorted permutations, right extremes and ranges |
| Huffman compressor | `LAB_SE/.../Assignment 2.2` | heap, tree, archive | compress in two passes, decompress | lossless, optimal codes; a cut archive gives a prefix or an error |
| PPT to PDF converter | `Some_Python_Code/ppt_to_pdf.py` | files on disk | collect, convert, verify, remove | no presentation is lost |

Interactions. `client.c` opens connections to `server.c` through the kernel's accept backlog;
in the server the main thread hands descriptors to the workers through the ring buffer, and
signal handlers interrupt any thread and change the state all of them read. Each side may
stop at any time. The proxy has the same shape with one thread per connection instead of a
queue. The converter interacts with LibreOffice through an exit code and a file on disk.

The hard behaviours: condition variables signalled for one waiter; shutdown from a signal
handler that takes a lock the interrupted thread may hold; barriers on one side against
blocking reads on the other, with a bounded backlog between; partial sends, `EINTR` and
failed thread creation; lines and messages cut and merged by TCP; late, lost and duplicated
datagrams; a converter that is interrupted between writing a PDF and removing its original; an
archive whose end could not be written.
`PROJECT.json` lists them one by one under `hazards`, each at the line where it bites, with
the properties that would catch it.

## Modules

| Module | Models | Role |
|---|---|---|
| `Server` | `server.c` | one action per step of a thread between two points at which another thread can matter |
| `ConnFifo` | | abstract: a bounded FIFO of connections, each handed to one worker and answered at most once |
| `ServerProperties` | | type, mutual exclusion, ownership, wakeups, refinement mapping to `ConnFifo`, liveness |
| `Server_proofs` | | theorems about `Server`: its invariants, and that it implements `ConnFifo` |
| `ClientPool` | `client.c` | main and client threads with two barriers; the server is an open environment |
| `PoolProperties` | | barrier properties |
| `PoolSystem` | `client.c` against `server.c` | composition of `Server` and `ClientPool` on shared actions (connect, send, close) |
| `PoolSystem_proofs` | | theorems about `ClientPool`, and about the composition from those of its two parts |
| `ProxyServer`, `ProxyProperties` | `proxy_server.c` | accept loop, detached threads, signal handler, partial sends |
| `ProxyPool` | `Problem_B/client.c` | main and client threads with two barriers and the reading loop; the proxy is an open environment |
| `ProxySystem` | `Problem_B/client.c` against `proxy_server.c` | composition of `ProxyServer` and `ProxyPool`, beside clients of other kinds |
| `Proxy_proofs` | | theorems about `ProxyServer` and `ProxySystem` |
| `ReadLine` | `tcpServer.c`, `tcpClient.c` | line reassembly over a byte stream |
| `UdpEcho`, `TcpEcho` | `Exp05`, `Exp04` | echo over a faulty datagram network and over a stream |
| `Sockets_proofs` | | theorems about `ReadLine`, `UdpEcho` and `TcpEcho` |
| `Coding` | `Exp01`, `Exp02`, `Exp03` | seven encoders and decoders with a noisy channel between |
| `SlidingWindow` | | abstract: a sender's window over a numbered stream, received in order and once |
| `Arq` | `Exp07` | stop-and-wait, go-back-n and selective repeat, each shown to implement `SlidingWindow` |
| `LeakyBucket` | `Exp08` | one step per second |
| `Routing` | `Exp06` | the distance vector exchange by routers' turns, Dijkstra's algorithm by visits |
| `Ciphers` | `Exp09`, `Exp10` | Caesar, substitution and RSA with their keys |
| `Network_proofs` | | theorems about the framing of `Coding` and about `Routing` |
| `Huffman` | `Assignment 2.2` | heap, tree, codes, bit stream; both passes of the compressor and the decompressor |
| `Rainfall` | `Assignment 2.1` | the menu, both sorts, both searches |
| `Lab_proofs` | | theorems about the letter ciphers of `Ciphers`, `LeakyBucket` and `Rainfall`, and that `Arq` implements `SlidingWindow` |
| `DataLemmas` | | induction over data for the two modules above: numbers, measures, recursive functions, folds, sums |
| `PptToPdf`, `PptToPdf_proofs` | `ppt_to_pdf.py` | batch conversion, with interruptions; theorem that nothing is lost |
| `MCServer`, `MCPoolSystem`, `MCProxySystem`, `MCPptToPdf`, `MCHuffman` | | instances for TLC |
| `MCLabs` | | the laboratory programs side by side, one of them running in each behaviour |

Definitions whose names end in `_bug` are seeded faults: a dropped guard, a missing signal, an
off-by-one. They are never part of a next-state relation; they document, for each property,
a fault of the code that the property detects.

## How the models correspond to the code

**Server.** `pc[t]` is the place of thread `t` in `main`, `queue_push`, `queue_pop` or
`worker_routine`; `mutex` is the holder of `queue.mutex`; a thread asleep in
`pthread_cond_wait` is at `pop_wait` or `push_wait`. Waiting is two steps as in POSIX: the wait
set is entered and the mutex released atomically (`PopSleep`), and after a wakeup, genuine or
spurious, the thread relocks (`pop_lock`) and tests its `while` condition again.
`pthread_cond_signal` wakes one waiter chosen freely, or none if there is none. A signal
handler is a record per signal: `hpc`, the thread it runs on, and the handler it interrupted on
that thread; while a handler is active on a thread the thread's own code does not run, and a
handler that finds the mutex held by its own thread waits for ever, as the non-recursive
mutex makes it. `accept` blocked in the kernel keeps the listening socket alive although the
handler has closed its descriptor, and returns `EINTR` when the handler ran on its thread
(`sigaction` without `SA_RESTART`). Only the request's presence is modelled, not its text.

**Client pool.** `cpc[i]` is the place of thread `i` in `client_worker`. A barrier is the set of
threads that have entered it; it opens when all `PoolSize` have. A failed socket, name look-up
or connect returns before the barriers, as in the code.

**Pool and server.** Client `i` uses connection `i`. `Connect` is one joint step of both
models; it waits while the backlog is full, fails once nobody listens and may time out. All
other steps of one side leave the other unchanged.

**Proxy.** A response is a status and the set of a file's buffers that were sent whole, so that a
`send` that a signal on its own thread interrupts, whose result the code ignores, leaves a hole. Requests are
classified as a designated file, a missing name, or a name that `sanitize_filename` reduces to
the directory itself. The end of `main` ends the process with every detached thread in it.

**Proxy client pool.** `members` is the set of clients of one process; with one of them there
is no barrier and `main` works itself. The barriers are read off the clients' places: one opens
when all members have come to it or passed it. An answer is counted in pieces, its header or
error page and the file's buffers; a `recv` returns any number of those sent, and returns 0 only
when all are read and the proxy has closed or ended. Bytes of the request that the proxy did not
read reset the connection, and the client's `recv` may then fail.

**Line server.** A byte is a pair of its connection and its position in that client's stream,
so that a lost, repeated or foreign byte is visible in what is printed; the zero bytes' places
are chosen with the stream. `recv` returns any non-empty piece of what has arrived. The copying
loop is one step: nothing else reads or writes what it touches. The tests of `rcv_ptr` against `n - 1`
and `n` are three actions, `LastLine`, `MoreLines` and `Unfinished`.

**Echo programs.** A client is its sequence of messages; one with an argument sends two, the
second of which is `exit`. The datagram network is a set from which messages are delivered in any
order, lost, or kept after delivery (a duplicate). A stream is a sequence of bytes of which a
`recv` takes any prefix.

**Codes.** Bits are numbers, a frame is a sequence of them (words of `WordBits` bits for the
checksum, rows for the two-dimensional parity). The programs play sender and receiver in one
process and corrupt one place they fix; the `Channel` here flips any one, and up to three of
the matrix. `&` is written as a division and a remainder (`Holds`).

**Flow control.** The simulations print what a sender, a channel and a receiver would do;
`transmitted`, `acked` and `delivered` record what they print. They lose the frames they fix,
and so does the model, for several windows and numbers of frames. The refinement reads the
abstract window off them: its base is the first frame not acknowledged.

**Routing.** A router's turn is one step: it alone writes its row, and it reads the others'
rows as they are in the middle of the round. Networks are all small ones, in place of the
one that is wired in.

**Huffman.** Heaps are sequences in the array's order, so that ties are broken as in the code.
The archive is a flag for its header, the original size and the bits; the tail that a full disk
loses is cut at a byte. Between the two passes a character may be appended to the text.

**Rainfall.** Of the twelve months one is kept. A month that a short row leaves unset may hold
anything. Quick sort is one step per call of `quickSortRec` with any pivot in place of `rand`,
its stack of calls in `pending`.

**Ciphers.** A character is its case and its distance from the first letter of that case.
Remainders have the sign that C gives them. `mod_exp` and the two Euclidean algorithms are
recursive functions.

**Converter.** `target` gives each presentation its PDF's name. LibreOffice returns 0 or not,
hangs until the time-out, and leaves nothing, an empty, a foreign or truncated, or the whole PDF;
`truthful` says whether a return code of 0 implies the last. `dirs_usable` says whether the output
directories exist or can be made: if not, `mkdir`, outside the code's `try`, may end the batch (`MkdirRaises`,
place `raised`), while an exception within the `try` counts the file as failed (`VerifyRaises` and the
actions of `Fails`). The user may interrupt the program
at any step and start it again.

## Runs

| Run | Configuration | Shows |
|---|---|---|
| `safety` | 2 workers, ring of 2, 3 connections, backlog 2, 1 signal on any thread | types, ownership of descriptors, at most one forgotten and that by shutdown, no lost wakeup, none waiting whom main joins, and that `Server` implements `ConnFifo` |
| `live` | 1 worker, ring of 1, 2 connections, 1 signal on main | every connection is served unless the server is stopped; a signal stops the server unless its handler blocked itself |
| `stopping` | 2 workers, ring of 1, pool of 2, 2 signals on main, nested or not, time-outs | barriers, genuine replies, mutual exclusion and the shutdown's wakeups |
| `fits` | 1 worker, ring 1, backlog 1, pool of 4 | a pool as large as the server can hold is served |
| `proxy` | pool of 2, or pool of 1 beside a free client; files of 2 buffers, requests in 1 or 2 segments, handler on main or on one thread | sockets accounted for, whole answers unless the handler interrupts their thread, closing, stopping, the pool's return |
| `convert` | 2 presentations, 2 PDF names, output directories that can be made or not, 1 interruption | nothing lost; a summary, with right counts, is reached, or the exception of a directory that cannot be made |
| `labs` | see below | each laboratory program against what it must compute or promise |
| `sigint`, `exceeds`, `hole`, `collide`, `truncated` | | violations, see [findings](#findings) |

Why the bounds are enough to be interesting. With two workers and three connections the ring is
full, empty and wrapped, both workers sleep, one connection arrives for two sleepers, and the
handler interrupts each thread at each place. One worker with one slot makes main wait for room
in `live`. Two signals on one thread are needed for nesting. In `fits` and `exceeds` the pool
is exactly `HoldingCapacity`, workers + ring + one in main's hand + backlog, and one more; with
one of each kind both are reached. A buffer of three bytes lets a segment hold two lines
and a half, end in, before and after a zero byte, and fill the buffer. A second presentation is
what a collision needs; a second run of the converter is what a stale PDF needs.
Each run visits the whole reachable state space of its instance; symmetry of connections, workers and
signals is used in `safety` and `stopping`, which check no liveness. Deadlock checking is off
throughout: all programs end, and the findings are about waiting that no step ends.

In `labs` the programs have nothing to do with each other: a behaviour is one of one program,
chosen in its initial state (`lab`), while the variables of the others keep one initial value.
Its instances, and why they are chosen:

| Program | Instance | Reaches |
|---|---|---|
| Line server | 2 clients, buffer of 3 bytes, streams of up to 3 lines, 2 descriptors | lines cut and merged, empty lines, a full buffer, all descriptors leaked |
| Datagram echo | 2 clients, 1 duplicate | lost, late and reordered answers; a lost `exit` |
| Stream echo | 1 client, up to 4 typed lines | merged and cut lines, an empty one, an input without `exit` |
| Codes | all bit strings up to 8 (framing), 5 (Hamming), 4 (parity, CRC) bits, all generators of 2 to 4 bits, all 2 x 2 matrices, words at the ends of the 16-bit range | stuffing at the end and twice in a frame; the end-around carry; errors in data and in check bits; generators that miss an error |
| Flow control | 5 frames and 1; windows 4, 2, 1 and 3 of go-back-n with more and fewer frames; 4, 6 and 8 frames of selective repeat | loss, lost acknowledgement, roll-back, buffering, a last window that is not full |
| Leaky bucket | capacity 5, rate 2, all traces of 3 arrivals of 0 to 6 with gaps | overflow, a bucket exactly full, one that drains between arrivals |
| Huffman | texts of up to 3 of NUL, `$` and `a`; 4 and 5 characters with frequencies from flat to steep; every cut of each archive | dummy leaf, padding, ties, a partial tree |
| Rainfall | 0, 1 and 4 records kept (a fifth is one too many), amounts 0 to 2, short rows | ties, any pivot, empty and full ranges |
| Routing | all networks of 4 nodes with costs 1, 3 or no link | rounds that use this round's rows, unreachable nodes, routes as dear as none |
| Ciphers | 3 letters, shifts -7 to 7, all keys of up to 4 places; RSA with 91 pairs of numbers and all 256 bytes | keys refused, negative remainders, moduli below 256, equal primes |

## Fairness

- Threads: weak fairness of each thread's steps: the scheduler runs what can run.
- Locks: strong fairness of `PushLock`, `PopLock` and the two broadcasts' locks. A
  mutex that is released again and again is not withheld from one thread for ever; futexes
  give no formal guarantee, but without it no statement about progress of a server with two
  threads is possible.
- `accept`: strong fairness of entering it, so that failing for want of descriptors does
  not repeat for ever.
- Clients of `Server`, and the free ones of `ProxySystem`: one that has connected sends or closes. `recv` has no
  time-out, so a silent client keeps its worker; that is a hazard on its own and the subject of
  `fits` and `exceeds`, where nothing about clients is assumed but that their threads run.
- Laboratory programs: weak fairness of each process, stated for whichever runs (`LabSpec`); the
  purely computing ones whose end is not in question have none.
- Signals, time-outs, failures of `send`, `recv` and `accept`, losses and interruptions are never
  fair: they may happen or not. The datagram client's time-out and the converter's are steps of
  those programs and are fair.
- A signal is delivered to the main thread in the liveness runs. On Linux a process-directed
  signal goes to the main thread when it does not block it. On another thread it does not
  interrupt `accept`, and the proxy then waits for one more connection.

## Findings

1. `sigint` / `ShutdownCompletes` (`server.c:87`): `handle_signal` locks `queue.mutex`. If the
   interrupted thread is in its critical section the handler waits for itself and neither the
   process nor the test script that waits for it ends. `ShutdownUnlessSelfBlocked` in `live`
   shows that this is the only obstacle.
2. `exceeds` / `PoolServed` (`client.c:81`): a pool larger than the holding capacity never gets
   past the first barrier, although the README promises that all clients connect first.
3. `hole` / `SentMeansWhole` (`proxy_server.c:100`): the result of `send` is ignored. If the signal
   handler runs on the thread that is sending, a buffer is cut or lost, the next one follows, and
   the thread reports "Successfully sent proxy copy". `WholeAnswerUnlessInterrupted` in `proxy` shows
   that nothing else makes a hole, a signal on any other thread included.
4. `collide` / `RemovedHasItsPdf` (`ppt_to_pdf.py:73`): `deck.ppt` and `deck.pptx` share
   `deck.pdf`; with `--remove-original` both are deleted and one content is gone.
5. `truncated` / `TreeReconstructed` (`CSMCS26A017_Lab2_2.c:638`): no write is checked, so a full
   disk leaves an archive without its end behind a message of success. When the cut is in the
   tree, the decompressor reports it as reconstructed, and a lone root passes for a leaf `$`.

Met while modelling, and within properties that hold because they name it: a failed `recv` in `read_line` leaks its
descriptor (`OnlyFailuresLeak` says that nothing else does); a late datagram is printed as the
answer to the next message (`AnswersBelong` says when); an empty message on the stream client's
command line makes both sides wait (`TcpEnded` excludes it); a pool of which one client cannot connect
keeps its connections and the proxy's threads for ever (`EveryConnClosed` names it); RSA accepts two
equal primes, with which decryption does not invert (`RsaInverts` excludes them). Two more are the
converter's. `target_dir.mkdir` (`ppt_to_pdf.py:72`) stands outside the `try` of lines 87-119: if the
output directory cannot be made, its exception ends the batch, the remaining files are not tried
and no summary is returned (`ReachesSummary` names this end, and shows that nothing else keeps the
converter from its summary). And the verification takes any file with bytes under the PDF's name for the one just
written: when LibreOffice returns 0 without having written, an older PDF passes and the original
is removed (`NothingLost` makes that case explicit). Of the proxy's requests no property singles out the
empty or dotted name, for which `fopen` opens the directory itself (`proxy_server.c:84`): it is answered with 200 and an
empty body, where the README has an error page for what is not a designated file.

## Proofs

All theorems are about arbitrary constants that satisfy the named assumptions of the modules
(`ConstantsAssumption`, `PoolSizeAssumption`, `ProxyAssumption` and so on), which TLC evaluates in
the runs. Those that state a property of a run name it under `theorems` in `PROJECT.json`. Each
rests on an inductive invariant; the text below says what had to be added to the property
to make it one.

`Server_proofs`, about `Spec`:

- `TypeCorrect`: `TypeOK` with `HandInv`, which says where a thread has a descriptor in hand.
  They are inductive together: storing a descriptor is well typed only because of `HandInv`.
- `MutualExclusion`: `MutexInv` is inductive relative to the types and to `HandlersPlaced`, which
  gives each delivered signal its thread.
- `RingCorrect`: `tail = (head + count) % QueueSize`, from lemmas about `%` for indices that
  advance by one.
- `WakeupsCorrect` and `PushWakeupsCorrect`: nobody sleeps once a handler has returned, and main
  sleeps only on a full ring. `SleepInv` strengthens both to the threads that are about to
  sleep; mutual exclusion is what makes it inductive, because the test and the sleep are under
  the handler's lock.
- `PopWakeupsCorrect`: while a worker sleeps, the workers on their way to the ring are at least as
  many as its connections. `PopInv` adds that a worker about to sleep has found the ring empty.
  The cases are the counts: a push adds one connection and wakes one worker (`PopStore`), a pop
  removes one of each (`PopTaken`).
- `JoinWakeupsCorrect`: from main's own broadcast on, no worker waits. `JoinInv` adds that the flag is
  down once main has left its loop, and that from the broadcast on no worker is about to sleep either:
  a worker tests the flag and enters its wait under one lock of the mutex, so main's broadcast, made
  under it, comes before the test or after the sleep, never between. `WakeupsCorrect` is about the handlers' broadcast, which may still
  be to come when main is at its join; this one does not need it.
- `OwnershipCorrect` and `NoneForgotten`: one owner for each descriptor, none lost while the server runs, at most one
  answer. What `queue_push` drops when shutdown begins is one descriptor at most: after it main is
  past its last push (`DropInv`, `AfterPush`). They rest on the ring: `Slot` is injective below `QueueSize` (`SlotInjective`), a push
  adds one descriptor to the queued set (`StoreQueued`) and a pop removes one (`TakeQueued`);
  `OwnershipSteps` reduces every action to four ways in which a descriptor can change hands.

`ServerImplementsFifo`, in the same module, is the refinement. The abstract queue is the ring read
from `head` for `count` slots; `Slot`'s lemmas make `PushStore` an append and `PopTake` a removal
of the head, `Close` and `Send` follow from the ownership invariant (the connection has no other
worker and no earlier answer), and every other step stutters.

`PoolSystem_proofs`, about `PoolSpec`: `PoolTypeCorrect`, `BarriersCorrect`, `StrandingCorrect`.
`PoolTypeOK` is left to its theorem; no run repeats it.
`BarrierInv` says which threads have entered each barrier as a function of their places, so an
open barrier means that all have connected. `PoolSpec` lets the server answer anything, so the
results hold for each system the pool is part of.

and about `SystemSpec`: `SystemIsBoth` shows that a behaviour of the composition is
one of `Server` and one of `ClientPool`, so all the above holds in it. On top come what is true
while the server runs (`RunningInv`), what a worker that closes has done (`ServedInv`), what a
client has done at each place (`PlacesInv`), and the two properties `RepliesGenuine` and
`NoReplyCorrect`.

`Proxy_proofs`, about `ProxyServer` and `ProxySystem`: `SocketsCorrect` (a connection that has not been
accepted, or that main still holds, has no thread), `WholeAnswerCorrect` (what was delivered is exactly
what the thread has passed, unless the handler interrupts it, and how far an
answer has come at each place of its thread, while the proxy stops, too), and, with these, `PoolAnsweredCorrect` for the
composition: what a proxy's step leaves to its clients (`ProxyKeeps`) and what the others'
steps leave to a member of the pool (`OthersKeep`) reduce the proof to the member's own steps.

`Sockets_proofs`:

- `DatagramAnswers`, about `UdpSpec`: every datagram stems from a message that was sent, and without
  a duplicate a message is under way once, as a request or as a reply, and no longer once answered.
- `StreamAnswers`, about `TcpSpec`: while the client waits, its message is at the server, the answer
  is at the client, or the server has stopped.
- `LeaksCorrect`, about `ReadSpec`: the open descriptors are that of the connection served and
  those whose `recv` failed.
- `LinesCorrect`, about `ReadSpec`. The invariant has three parts: the static buffer is what `recv` returned last,
  the end of what was taken from the connection served (`Buffered`); main's line is what follows the last line
  end, up to what has left the buffer (`Reading`); the lines printed are those that end before
  (`LinesExact`). `ConsumedStays` shows that only `Copy` changes what has left the buffer;
  `CopyEffect` says what one pass of the copying loop does, and `ExactStill` and `ExactNext` what that means for the lines.

`Lab_proofs`:

- `CiphersCorrect`, about `CipherSpec`: `CaesarBack` from what C's remainder does below twice the
  divisor (`RemOnce`), `SubstitutionBack` from the injectivity of an accepted key, and
  `AttackMeetsText` since a shift that moves anything is one the attack tries.
- `SimulationsSlide`, the refinement of `SlidingWindow` by `Arq`. `ArqInv` gives three numbers - frames transmitted,
  acknowledged, handed up - by which `View` computes the abstract state; for each program the
  place in it says how they are related (`SwAt`, `GbnAt`, `SrAt`), and each action moves them in one of
  the ways of `Moves`, which are the steps of `SlidingWindow` (`MovesSlide`).
- `BucketAccounts`, about `BucketSpec`: each packet is accounted for, and none is dropped exactly when
  the arrivals of every interval fit into the bucket and what leaks meanwhile. The second needs to
  know what the content is while nothing has been dropped: the greatest excess, over the places in
  the trace, of what has arrived since over what has leaked since (`ExcessHeld`).
- `RainfallRight`, about `RainSpec`, for tables of any size and any pivots. Quick sort: its array is
  the records in another order (`Rearranged`), its pending ranges come one after the other, and two
  elements that are still out of order lie within one of them (`QuickHolds`); `Parted` is the
  invariant of the loop in `partition`. Merge sort: a sequence `Lists` a set of places if a
  one-to-one map from its own places onto them goes up in amount and, among equal amounts, in
  place; merging the lists of two neighbouring runs gives the list of both, and the list of
  all places has the same records, in order and stable. The two searches of part C narrow their bounds; the extremes of
  two halves give those of the whole (`BestOf`).

`Network_proofs`:

- `FramesAreSound`, about `CodingSpec`, for payloads of any length. The sender's and the receiver's
  scans are in step: what the receiver has put out, is counting and is about to skip is what the sender has taken in
  (`BitsBack`, `BytesBack`). That no flag lies within a frame rests on `ShortRuns`: a stuffed
  payload has no six ones in a row, and the sender's counter is the length of the last run. That every
  FLAG within a frame of bytes is escaped is an induction over the characters of the payload: after
  what each has become, the next place is not escaped (`FlagsEscaped`); `EscapedIs` unfolds the
  recursive function of the receiver's view, `EscapedAt`.
- `RoutesAreShortest`, about `RoutingSpec`, for networks of any size and costs. For the distance
  vector: a finite entry is at least the link to its next hop and that router's entry (`TablesLead`),
  hence never less than the shortest path; a router whose turn has passed is `Settled` unless the round
  changes a table, so at the end all are, which makes the entries shortest. For Dijkstra: no node left is nearer
  than a visited one, whose neighbours know of it (`VisitedNear`), and each node's parent is
  visited and nearer by their link (`ParentsLead`), so that following parents ends at the source.

`DataLemmas` has what these proofs need of induction. The library's induction theorems take an operator
as a parameter, which the provers do not instantiate, so the lemmas here speak of sets: a set of
numbers that has 0 and with each its successor has all (`NatInduct`); a set that has an element whenever it has
all that measure less has all (`MeasureInduct`, `InductiveAll`). `Recursion` shows from these
that a function with a recursive definition exists and satisfies it, provided each value
depends on arguments of less measure; folds and sums over sequences are unfolded with it, and
`FoldWithin` carries an invariant through a fold.

`PptToPdf_proofs`, about `PptSpec`: `NothingIsLost`. The strengthening says that the file being
converted is not one already removed, and that after a return code 0 of a truthful LibreOffice
its PDF is whole; distinct targets then keep every later write away from the removed files' PDFs.

Proving changed the models in four places. The stream echo's half of the former invariant of the
echoes holds only as long as each `recv` returns one message, so it is a property of its own
(`InStep`), beside `AnswersBelong`. `SlidingWindow` is a safety specification, since that the
simulations end is `ArqEnded` in `ProgramsEnd`. The two letter ciphers are apart from RSA
(`CiphersInvert`, `RsaInverts`). In `Coding`, `Routing`, `LeakyBucket` and `Rainfall`
what was a nested definition is now a named step of a fold or a recursive function over pairs of places (`PartitionStep`,
`Search`, `merge`), and what a range lists is stated as the slice between two places.

Only model-checked:

- All liveness (`EveryConnServed`, `ShutdownUnlessSelfBlocked`, `PoolServed`, `EveryConnClosed`, `ProxyStops`, `PoolReturns`,
  `ReachesSummary`, `ProgramsEnd`), which is out of the prover's reach.
- `OneErrorCaught`: that a generator catches or misses an error is algebra of polynomials over bits,
  that Hamming's syndrome names the place is a statement about the digits of a number; neither is known to the provers.
- `RsaInverts`: it rests on Euler's theorem.
- `RestoresPrefix` and `CodesOptimal`: `Huffman` has `RECURSIVE` operators (a tree has no bound to make a
  function's domain of), and about those nothing can be proved here.

## What is not covered

- Set-up of sockets, argument parsing and prompts, wording of messages. With the set-up goes a signal
  between `socket` and `listen` in `server.c`; its failing `pthread_create`, which exits before any
  connection, is left out too.
- Four hazards have no property: two handlers closing the same descriptor number (`server.c:83`; the
  model has no descriptor numbers), a request that reaches the proxy in two segments
  (`proxy_server.c:61`; modelled, but the code promises nothing for it), the name that opens the directory
  (`proxy_server.c:84`; modelled, and described above), and a line longer than the line
  server's buffer (`tcpServer.c:112`; what the build does is undefined).
- Of the converter: without LibreOffice `convert_all` raises (line 164) before anything modelled
  begins, and `is_file` (line 58), which may raise for a directory without permission, would leave the
  batch as `mkdir` does; only `mkdir` is modelled. Whether the directories can be made is one choice for
  the batch.
- The text of requests, replies and lines.
- What `Problem_B/client.c` prints of an answer's first line, which it takes from the first
  `recv` alone.
- Of the Huffman program the menu, the tables and the comparison of sizes, and an output name
  equal to the input's (the text is emptied between the passes); of the rainfall program the
  written files and the counters of comparisons and swaps.
- Odd parity, and overflow of integers beyond the sizes checked.
- The NS-2 scripts are input for another program, and the shell scripts are sequential glue;
  neither is modelled.
- The bounds: `MaxRestarts`, `MaxDups`, `MaxOpen`, `Backlog`, the number of signals (each is
  delivered at most once) and the finite sets of what clients send.

## Plan

Every safety property about interleavings, failures and shutdown is proved, and of the
computations all but the three properties above. What could follow, in the order of importance:

1. `OneErrorCaught` program by program: the parity and the checksum need only sums, the CRC and Hamming's code
   lemmas about digits that `DataLemmas` does not have.
2. `Huffman` with trees as functions from code words, so that nothing in it is `RECURSIVE` and `RestoresPrefix`
   can be proved as the framing was.
