-------------------------------- MODULE Arq --------------------------------
(***************************************************************************)
(* The three simulations of Exp07_Flow_Control: stop_and_wait.c,           *)
(* go_back_n.c and selective_repeat.c.  Each plays sender, channel and     *)
(* receiver in one thread and loses the frames it fixes.  Frames count     *)
(* from 0, as in the last two: packet i of stop_and_wait.c is frame i - 1. *)
(***************************************************************************)
EXTENDS Integers, Sequences, FiniteSets

CONSTANTS Simulations     \* [protocol, window, total]: WINDOW_SIZE and TOTAL_FRAMES

ASSUME ArqAssumption ==
    \A s \in Simulations :
        /\ s.protocol \in {"stop_and_wait", "go_back_n", "selective_repeat"}
        /\ s.window \in Nat \ {0} /\ s.total \in Nat \ {0}
        /\ s.protocol = "stop_and_wait" => s.window = 1
        /\ s.protocol = "selective_repeat" => s.window = 4 /\ s.total >= 4   \* wired into it

VARIABLES sim, phase,     \* which program; where it is
          frame,          \* the loop's frame: next_frame_to_send, i
          tries,          \* attempts at the frame; of go_back_n.c, error_simulated
          transmitted, acked,   \* frames ever transmitted; frames acknowledged
          delivered       \* what the receiver accepted for the network layer

arqVars == <<sim, phase, frame, tries, transmitted, acked, delivered>>

Is(protocol, p) == sim.protocol = protocol /\ phase = p
Prefix(S) == CHOOSE n \in 0..sim.total : n \notin S /\ 0..(n - 1) \subseteq S
ack_expected == Prefix(acked)                 \* of selective_repeat.c, send_base

ArqInit ==
    /\ sim \in Simulations /\ phase = "send" /\ frame = 0 /\ tries = 0
    /\ transmitted = {} /\ acked = {} /\ delivered = <<>>

Continue(p, f) == phase' = IF f < sim.total THEN p ELSE "done"

-----------------------------------------------------------------------------
(* stop_and_wait.c: frame 1 is lost once, then the acknowledgement of 3.   *)

SwTransmit ==
    /\ Is("stop_and_wait", "send") /\ phase' = "flight"
    /\ tries' = tries + 1 /\ transmitted' = transmitted \cup {frame}
    /\ UNCHANGED <<sim, frame, acked, delivered>>
SwFrameLost ==
    /\ Is("stop_and_wait", "flight") /\ frame = 1 /\ tries = 1 /\ phase' = "send"
    /\ UNCHANGED <<sim, frame, tries, transmitted, acked, delivered>>
SwDuplicate == frame = 3 /\ tries > 1
SwFrameArrives ==
    /\ Is("stop_and_wait", "flight") /\ ~(frame = 1 /\ tries = 1) /\ phase' = "answer"
    /\ delivered' = IF SwDuplicate THEN delivered ELSE Append(delivered, frame)
    /\ UNCHANGED <<sim, frame, tries, transmitted, acked>>
SwAckLost ==
    /\ Is("stop_and_wait", "answer") /\ frame = 3 /\ tries = 1 /\ phase' = "send"
    /\ UNCHANGED <<sim, frame, tries, transmitted, acked, delivered>>
SwAck ==
    /\ Is("stop_and_wait", "answer") /\ ~(frame = 3 /\ tries = 1)
    /\ acked' = acked \cup {frame} /\ frame' = frame + 1 /\ tries' = 0 /\ Continue("send", frame + 1)
    /\ UNCHANGED <<sim, transmitted, delivered>>

StopAndWait == SwTransmit \/ SwFrameLost \/ SwFrameArrives \/ SwAckLost \/ SwAck

-----------------------------------------------------------------------------
(* go_back_n.c: the whole window is sent, then what arrives is handled.    *)
(* Of the first window frame 1 is lost, and those after it are discarded.  *)

InWindow_bug == frame <= ack_expected + sim.window /\ frame < sim.total
InWindow == frame < ack_expected + sim.window /\ frame < sim.total
HandUp(f) == acked' = acked \cup {f} /\ delivered' = Append(delivered, f)

GbnTransmit ==
    /\ Is("go_back_n", "send") /\ InWindow
    /\ transmitted' = transmitted \cup {frame} /\ frame' = frame + 1
    /\ UNCHANGED <<sim, phase, tries, acked, delivered>>
GbnFirstWindow ==
    /\ Is("go_back_n", "send") /\ ~InWindow /\ tries = 0 /\ ack_expected = 0
    /\ HandUp(0) /\ phase' = "discard"
    /\ UNCHANGED <<sim, frame, tries, transmitted>>
GbnRollBack ==
    /\ Is("go_back_n", "discard") /\ frame' = 1 /\ tries' = 1
    /\ Continue("send", ack_expected)
    /\ UNCHANGED <<sim, transmitted, acked, delivered>>
GbnWindowSent ==
    /\ Is("go_back_n", "send") /\ ~InWindow /\ ~(tries = 0 /\ ack_expected = 0)
    /\ phase' = "arrive" /\ UNCHANGED <<sim, frame, tries, transmitted, acked, delivered>>
GbnAccept ==
    /\ Is("go_back_n", "arrive") /\ ack_expected < frame /\ HandUp(ack_expected)
    /\ UNCHANGED <<sim, phase, frame, tries, transmitted>>
GbnWindowDone ==
    /\ Is("go_back_n", "arrive") /\ ack_expected = frame /\ Continue("send", frame)
    /\ UNCHANGED <<sim, frame, tries, transmitted, acked, delivered>>

GoBackN == GbnTransmit \/ GbnFirstWindow \/ GbnRollBack \/ GbnWindowSent \/ GbnAccept \/ GbnWindowDone

-----------------------------------------------------------------------------
(* selective_repeat.c: of the first window frame 1 is lost and sent again; *)
(* those after it wait in the buffer.  The rest follows without loss.      *)

SrTransmit ==
    /\ Is("selective_repeat", "send") /\ frame < sim.window
    /\ transmitted' = transmitted \cup {frame} /\ frame' = frame + 1
    /\ UNCHANGED <<sim, phase, tries, acked, delivered>>
SrFirst ==
    /\ Is("selective_repeat", "send") /\ frame = sim.window
    /\ HandUp(0) /\ frame' = 2 /\ phase' = "buffer"
    /\ UNCHANGED <<sim, tries, transmitted>>
SrBuffer ==
    /\ Is("selective_repeat", "buffer") /\ frame < sim.window
    /\ acked' = acked \cup {frame} /\ frame' = frame + 1
    /\ UNCHANGED <<sim, phase, tries, transmitted, delivered>>
SrRepeat ==
    /\ Is("selective_repeat", "buffer") /\ frame = sim.window
    /\ acked' = acked \cup {1} /\ delivered' = delivered \o <<1, 2, 3>>
    /\ frame' = 4 /\ Continue("rest", 4) /\ UNCHANGED <<sim, tries, transmitted>>
SrRest ==
    /\ Is("selective_repeat", "rest") /\ transmitted' = transmitted \cup {frame} /\ phase' = "arrive"
    /\ UNCHANGED <<sim, frame, tries, acked, delivered>>
SrRestArrives ==
    /\ Is("selective_repeat", "arrive") /\ HandUp(frame) /\ frame' = frame + 1 /\ Continue("rest", frame + 1)
    /\ UNCHANGED <<sim, tries, transmitted>>

SelectiveRepeat == SrTransmit \/ SrFirst \/ SrBuffer \/ SrRepeat \/ SrRest \/ SrRestArrives

-----------------------------------------------------------------------------
ArqNext == StopAndWait \/ GoBackN \/ SelectiveRepeat
ArqSpec == ArqInit /\ [][ArqNext]_arqVars /\ WF_arqVars(ArqNext)

(* Whatever is lost, the three are sliding windows: no frame is handed up  *)
(* twice, out of order or unsent, none is acknowledged that was not        *)
(* handed up, and the sender keeps to its window.                          *)
Sliding == INSTANCE SlidingWindow WITH
    window <- sim.window, total <- sim.total,
    high <- Prefix(transmitted), base <- ack_expected, up <- delivered
ArqSlides == Sliding!SlidingSpec

(* Every frame has got through and is acknowledged.                        *)
ArqEnded == ack_expected = sim.total
=============================================================================
