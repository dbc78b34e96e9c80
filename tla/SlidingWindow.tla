--------------------------- MODULE SlidingWindow ---------------------------
(***************************************************************************)
(* What the flow-control simulations of Exp07 promise: the sender is never *)
(* more than a window ahead of what is acknowledged, the receiver hands    *)
(* every frame up once and in order, and nothing is acknowledged before it *)
(* was handed up.  Sending a frame again, losing one and losing an         *)
(* acknowledgement change nothing here.                                    *)
(***************************************************************************)
EXTENDS Integers, Sequences

VARIABLES window, total,  \* the sizes, fixed
          high, base,     \* frames sent at least once; frames acknowledged
          up              \* frames handed up by the receiver, in order

slidingVars == <<window, total, high, base, up>>

Frames(n) == [k \in 1..n |-> k - 1]

SlidingInit == window > 0 /\ total > 0 /\ high = 0 /\ base = 0 /\ up = <<>>

Transmit ==
    /\ high < total /\ high < base + window
    /\ high' = high + 1 /\ UNCHANGED <<window, total, base, up>>
Receive ==
    /\ \E n \in (Len(up) + 1)..high : up' = Frames(n)
    /\ base' \in base..Len(up') /\ UNCHANGED <<window, total, high>>
Acknowledge ==
    /\ base' \in (base + 1)..Len(up) /\ UNCHANGED <<window, total, high, up>>

SlidingNext == Transmit \/ Receive \/ Acknowledge
SlidingSpec == SlidingInit /\ [][SlidingNext]_slidingVars
=============================================================================
