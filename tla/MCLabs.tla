------------------------------- MODULE MCLabs -------------------------------
(* The laboratory programs on small instances.  They have nothing to do    *)
(* with one another: each behaviour is one of one program, chosen in the   *)
(* initial state, while the others' variables keep their initial values.   *)
EXTENDS UdpEcho, TcpEcho, ReadLine, Coding, Arq, LeakyBucket, Huffman, Rainfall, Routing, Ciphers

VARIABLE lab

-----------------------------------------------------------------------------
(* Sockets: a message or "exit" and the client's own "exit"; typed lines,  *)
(* and an end of input without "exit"; one to three zero-ended lines, some *)
(* of them empty.                                                          *)
MCUdpScripts == {<<"text", "exit">>, <<"exit", "exit">>, <<"text", "text">>}

Typed(size, exit) == [size |-> size, exit |-> exit]
MCTcpScripts ==
    LET Text == Typed(2, FALSE)  Char == Typed(1, FALSE)  Quit == Typed(2, TRUE)
    IN  {<<Text, Quit>>, <<Quit, Quit>>, <<Typed(0, FALSE), Quit>>, <<Char, Text, Text>>,
         <<Text, Char, Text, Quit>>}
MCStreams == {[len |-> 3, ends |-> {3}], [len |-> 4, ends |-> {1, 4}], [len |-> 6, ends |-> {3, 4, 6}]}

(* Codes: every short bit string, with every generator of two to four bits *)
(* for the CRC; words at the ends of the range for the checksum.           *)
Bits(m) == BoundedSeq({0, 1}, m) \ {<<>>}
Coded(code, data) == {[code |-> code, data |-> d, generator |-> <<>>] : d \in data}
MCTasks ==
    Coded("bits", Bits(8)) \cup Coded("bytes", BoundedSeq(Characters, 4))
    \cup Coded("parity", Bits(4)) \cup Coded("parity2d", TupleOf(TupleOf({0, 1}, 2), 2))
    \cup Coded("checksum", TupleOf({0, 32768, 65535}, 2)) \cup Coded("hamming", Bits(5))
    \cup {[code |-> "crc", data |-> d, generator |-> g] : d \in Bits(4), g \in Bits(4) \ Bits(1)}

(* Flow control with the programs' sizes and others.                       *)
Simulation(p, w, t) == [protocol |-> p, window |-> w, total |-> t]
MCSimulations ==
    {Simulation("stop_and_wait", 1, t) : t \in {1, 5}}
    \cup {Simulation("go_back_n", wt[1], wt[2]) : wt \in {<<4, 8>>, <<2, 5>>, <<1, 3>>, <<3, 1>>}}
    \cup {Simulation("selective_repeat", 4, t) : t \in {4, 6, 8}}

(* Three arrivals, with and without seconds between them.                  *)
Arrival(t, v) == [time |-> t, incoming |-> v]
MCTraces == {<<Arrival(t, a), Arrival(t + d, b), Arrival(t + d + 1, c)>> :
                t, d \in {1, 2}, a, b, c \in {0, 2, 4, 6}}

(* Texts with the NUL byte and '$', which the tree uses itself, and texts  *)
(* of four and five characters with frequencies from flat to steep.        *)
MCAlphabet == {0, 36, 97}
Text(f) == FlattenSeq([c \in DOMAIN f |-> [i \in 1..f[c] |-> c]])
MCTexts == BoundedSeq(MCAlphabet, 3) \cup {Text(f) : f \in TupleOf({1, 2, 3, 5}, 4)} \cup {Text(<<1, 2, 1, 3, 1>>)}

(* Tables of up to five years, a row of which may lack its month or total; *)
(* the fifth is one record too many.                                       *)
MCAmounts == 0..2
Row(y, a, cells) == [year |-> y, month |-> (2 * y) % 3, annual |-> a, cells |-> cells]
MCFiles == {[y \in 1..m |-> Row(y, a[(y % 4) + 1], IF y = 2 THEN cells ELSE "all")] :
                m \in {0, 1, 5}, a \in TupleOf(MCAmounts, 4), cells \in {"all", "no annual", "no month"}}

(* Every network of four routers with links of cost 1, of cost 3 or none;  *)
(* two links of cost 3 cost as much as none.                               *)
MCNetworks ==
    {[i \in Nodes |-> [j \in Nodes |-> IF i = j THEN 0 ELSE f[{i, j}]]] :
        f \in [{{i, j} : i, j \in Nodes} \ {{i} : i \in Nodes} -> {1, 3, INF}]}

(* Shifts beyond the alphabet both ways, keys right and wrong, pairs of    *)
(* primes and not with all bytes as the text.                              *)
Job(c, keys, texts) == {[cipher |-> c, key |-> k, text |-> t] : k \in keys, t \in texts}
Letter == [upper : BOOLEAN, at : -1..2]
MCJobs ==
    Job("caesar", -7..7, TupleOf(Letter, 2)) \cup Job("substitution", BoundedSeq(-1..2, 4), TupleOf(Letter, 1))
    \cup Job("rsa", {1, 2, 3, 4, 5, 7, 9, 11, 13, 25, 35, 49, 103} \X {2, 3, 5, 6, 7, 13, 17}, {[i \in 1..256 |-> i - 1]})

-----------------------------------------------------------------------------
Some(S) == CHOOSE s \in S : TRUE

(* The programs that do not run are initialised first, from one input.     *)
Idle(l, Init) == IF lab = l THEN TRUE ELSE Init
LabInit ==
    /\ lab \in {"udp", "tcp", "lines", "coding", "arq", "bucket", "huffman", "rainfall", "routing", "ciphers"}
    /\ Idle("udp", messages = [c \in UdpClients |-> <<"text", "exit">>] /\ UdpInit)
    /\ Idle("tcp", script = Some(TcpScripts) /\ TcpInit)
    /\ Idle("lines", stream = [c \in Clients |-> Some(Streams)] /\ ReadInit)
    /\ Idle("coding", task = Some(Tasks) /\ CodingInit)
    /\ Idle("arq", sim = Some(Simulations) /\ ArqInit)
    /\ Idle("bucket", trace = Some(Traces) /\ BucketInit)
    /\ Idle("huffman", text = Some(Texts) /\ HuffmanInit)
    /\ Idle("rainfall", file = Some(Files) /\ RainInit)
    /\ Idle("routing", cost = Some(Networks) /\ algorithm = "vector" /\ RoutingInit)
    /\ Idle("ciphers", job = Some(Jobs) /\ CipherInit)
    /\ (lab = "udp" => UdpInit)
    /\ (lab = "tcp" => TcpInit)
    /\ (lab = "lines" => ReadInit)
    /\ (lab = "coding" => CodingInit)
    /\ (lab = "arq" => ArqInit)
    /\ (lab = "bucket" => BucketInit)
    /\ (lab = "huffman" => HuffmanInit)
    /\ (lab = "rainfall" => RainInit)
    /\ (lab = "routing" => RoutingInit)
    /\ (lab = "ciphers" => CipherInit)

labVars == <<lab, udpVars, tcpVars, readVars, codingVars, arqVars, bucketVars, huffmanVars,
             rainVars, routingVars, cipherVars>>
Still(l, vs) == IF lab = l THEN TRUE ELSE UNCHANGED vs
Run(l, A) ==
    /\ lab = l /\ A /\ UNCHANGED lab
    /\ Still("udp", udpVars) /\ Still("tcp", tcpVars) /\ Still("lines", readVars)
    /\ Still("coding", codingVars) /\ Still("arq", arqVars) /\ Still("bucket", bucketVars)
    /\ Still("huffman", huffmanVars) /\ Still("rainfall", rainVars)
    /\ Still("routing", routingVars) /\ Still("ciphers", cipherVars)

LabNext ==
    \/ Run("udp", UdpNext) \/ Run("tcp", TcpNext) \/ Run("lines", ReadNext)
    \/ Run("coding", CodingNext) \/ Run("arq", ArqNext) \/ Run("bucket", BucketSlot)
    \/ Run("huffman", HuffmanNext) \/ Run("rainfall", RainNext)
    \/ Run("routing", RoutingNext) \/ Run("ciphers", CipherNext)

(* The programs' own fairness, as in their modules.  Only one program      *)
(* runs, so fairness to one of its processes and fairness to one of        *)
(* another's can be stated together.  Clients = UdpClients here.           *)
LabSpec ==
    /\ LabInit /\ [][LabNext]_labVars
    /\ WF_labVars(\/ Run("udp", UdpServerStep) \/ Run("tcp", TcpServerStep)
                  \/ Run("lines", ReadServerStep) \/ Run("arq", ArqNext)
                  \/ Run("bucket", BucketSlot) \/ Run("routing", RoutingNext))
    /\ \A c \in Clients :
        WF_labVars(\/ Run("udp", UdpClientStep(c)) \/ Run("tcp", TcpClientStep)
                   \/ Run("lines", SendArgument(c) \/ Exit(c)))

(* The programs that must come to an end do, and stay there: datagram and  *)
(* stream echo, the line server's connections, the simulations of flow     *)
(* control, the leaky bucket and both routing programs; and an exit that   *)
(* is not lost stops the datagram server (UdpEnded).                       *)
ProgramsEnd ==
    <>[](/\ lab = "udp" => UdpEnded
         /\ lab = "tcp" => TcpEnded
         /\ lab = "lines" => EveryLinePrinted
         /\ lab = "arq" => ArqEnded
         /\ lab = "bucket" => BucketDrained
         /\ lab = "routing" => RoutingEnded)
=============================================================================
