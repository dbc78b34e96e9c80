---------------------------- MODULE LeakyBucket ----------------------------
(***************************************************************************)
(* leaky_bucket.c of Exp08_Traffic_Shaping: one pass of its loop is one    *)
(* second.  The trace of arrivals is an input, of increasing times that    *)
(* need not be consecutive.                                                *)
(***************************************************************************)
EXTENDS Integers, Sequences, FiniteSetsExt

CONSTANTS BUCKET_CAPACITY, LEAK_RATE,
          Traces          \* sequences of [time, incoming]

ASSUME BucketAssumption ==
    /\ BUCKET_CAPACITY \in Nat /\ LEAK_RATE \in Nat \ {0}
    /\ \A t \in Traces :
        /\ t \in Seq([time : Nat \ {0}, incoming : Nat])
        /\ \A i, j \in DOMAIN t : i < j => t[i].time < t[j].time

VARIABLES trace, trace_idx, time, bucket_content,
          sent_total, dropped_total   \* in all; the program prints them by the second

bucketVars == <<trace, trace_idx, time, bucket_content, sent_total, dropped_total>>

BucketInit ==
    /\ trace \in Traces /\ trace_idx = 0 /\ time = 1 /\ bucket_content = 0
    /\ sent_total = 0 /\ dropped_total = 0

BucketRuns == trace_idx < Len(trace) \/ bucket_content > 0
DueNow == trace_idx < Len(trace) /\ trace[trace_idx + 1].time = time
incoming == IF DueNow THEN trace[trace_idx + 1].incoming ELSE 0

Overflows_bug(n) == n > BUCKET_CAPACITY
Overflows(n) == bucket_content + n > BUCKET_CAPACITY
Leak(content) == IF content >= LEAK_RATE THEN LEAK_RATE ELSE content

BucketSlot ==
    /\ BucketRuns
    /\ LET before == bucket_content + incoming
           content == IF Overflows(incoming) THEN BUCKET_CAPACITY ELSE before
       IN  /\ dropped_total' = dropped_total + (before - content)
           /\ sent_total' = sent_total + Leak(content)
           /\ bucket_content' = content - Leak(content)
    /\ trace_idx' = IF DueNow THEN trace_idx + 1 ELSE trace_idx
    /\ time' = time + 1 /\ UNCHANGED trace

BucketSpec == BucketInit /\ [][BucketSlot]_bucketVars /\ WF_bucketVars(BucketSlot)

-----------------------------------------------------------------------------
ArrivedOf(t, first, last) == MapThenSumSet(LAMBDA i : t[i].incoming, first..last)
Arrived(first, last) == ArrivedOf(trace, first, last)

(* Arrivals conform when no interval brings more than the bucket holds and *)
(* the leak lets out of it meanwhile.                                      *)
Conforms ==
    \A first, last \in 1..trace_idx :
        first <= last => Arrived(first, last)
            <= BUCKET_CAPACITY + LEAK_RATE * (trace[last].time - trace[first].time)

(* No packet is counted twice or forgotten: what has arrived was sent,     *)
(* dropped or is in the bucket.  A packet is dropped only if the arrivals  *)
(* do not conform, and then one is.  The bucket never holds more than its  *)
(* capacity.                                                               *)
TrafficAccounted ==
    /\ bucket_content \in 0..BUCKET_CAPACITY
    /\ Arrived(1, trace_idx) = sent_total + dropped_total + bucket_content
    /\ dropped_total = 0 <=> Conforms

(* The loop has ended: the trace is over, the bucket empty and the rest    *)
(* sent or dropped.                                                        *)
BucketDrained == ~BucketRuns
=============================================================================
