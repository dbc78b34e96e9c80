--------------------------- MODULE Sockets_proofs ---------------------------
(***************************************************************************)
(* Theorems about the socket programs of the laboratory: the datagram echo *)
(* with any number of clients, messages and duplicated datagrams, the      *)
(* stream echo however its streams are cut, and the line server with any   *)
(* number of connections and lines.                                        *)
(***************************************************************************)
EXTENDS UdpEcho, TcpEcho, ReadLine, SequenceTheorems, FiniteSetTheorems, TLAPS

(* Everything that may be under way, and the types of the variables.      *)
Datagrams == {"request", "reply"} \X UdpClients \X (Nat \ {0})

UdpTyped ==
    /\ messages \in [UdpClients -> UdpScripts]
    /\ ucl \in [UdpClients -> {"send", "wait", "done"}]
    /\ at \in [UdpClients -> Nat \ {0}] /\ shown \in [UdpClients -> Seq(Nat)]
    /\ userver \in {"receive", "stopped", "error"}
    /\ net \subseteq Datagrams /\ dups \in Nat /\ lost \in BOOLEAN

(* A client has printed one result for each message before the one it is   *)
(* at, and every datagram stems from a message it has sent.                *)
UdpSent ==
    /\ \A c \in UdpClients : Len(shown[c]) = at[c] - 1
    /\ \A m \in net : m[3] < at[m[2]] \/ (m[3] = at[m[2]] /\ ucl[m[2]] = "wait")

(* Without duplication a message is under way once, as request or as       *)
(* reply, and no longer once its answer was printed.                       *)
UdpOnce ==
    dups = 0 =>
        /\ \A m \in net : <<"request", m[2], m[3]>> \notin net \/ <<"reply", m[2], m[3]>> \notin net
        /\ \A m \in net : \A k \in 1..Len(shown[m[2]]) : shown[m[2]][k] # m[3]

UdpInv == UdpTyped /\ UdpSent /\ UdpOnce /\ AnswersBelong

-----------------------------------------------------------------------------
(* Every step keeps the types.                                             *)
LEMMA UdpTypedNext == UdpTyped /\ [UdpNext]_udpVars => UdpTyped'
<1> SUFFICES ASSUME UdpTyped, [UdpNext]_udpVars PROVE UdpTyped'
  OBVIOUS
<1> USE DEF UdpTyped
<1>1. ASSUME NEW c \in UdpClients, NEW j \in Nat, NEW last, Proceed(c, j, last)
      PROVE  /\ ucl' \in [UdpClients -> {"send", "wait", "done"}]
             /\ at' \in [UdpClients -> Nat \ {0}] /\ shown' \in [UdpClients -> Seq(Nat)]
  <2>1. Append(shown[c], j) \in Seq(Nat)
    OBVIOUS
  <2> QED  BY <1>1, <2>1 DEF Proceed
<1>2. ASSUME NEW m \in Datagrams, NEW sent_ \in SUBSET Datagrams, Deliver(m, sent_)
      PROVE  net' \subseteq Datagrams /\ dups' \in Nat /\ messages' = messages /\ lost' = lost
  BY <1>2 DEF Deliver
<1>3. ASSUME NEW c \in UdpClients, UdpClientStep(c) PROVE UdpTyped'
  <2>1. CASE UdpSend(c)
    <3>1. <<"request", c, at[c]>> \in Datagrams
      BY DEF Datagrams
    <3> QED  BY <2>1, <3>1 DEF UdpSend
  <2>2. CASE UdpTimeout(c)
    BY <2>2, <1>1 DEF UdpTimeout, Answered, Proceed
  <2>3. ASSUME NEW m \in net, m[2] = c, UdpRecv(m[2], m[3]) PROVE UdpTyped'
    <3>1. m[3] \in Nat /\ <<"reply", c, m[3]>> \in Datagrams
      BY DEF Datagrams
    <3> QED  BY <2>3, <3>1, <1>1, <1>2 DEF UdpRecv, Answered, Proceed
  <2> QED  BY <1>3, <2>1, <2>2, <2>3 DEF UdpClientStep
<1>4. CASE UdpServerStep
  <2> PICK m \in net : m[1] = "request" /\ UdpServe(m[2], m[3])
    BY <1>4 DEF UdpServerStep
  <2>1. /\ <<"request", m[2], m[3]>> \in Datagrams
        /\ {<<"reply", d, m[3]>> : d \in {m[2]}} \in SUBSET Datagrams
    BY DEF Datagrams
  <2> QED  BY <2>1, <1>2 DEF UdpServe, Serve, clientSide
<1>5. CASE UdpServerError \/ (\E m \in net : Lose(m)) \/ UNCHANGED udpVars
  BY <1>5 DEF UdpServerError, Lose, clientSide, udpVars
<1> QED  BY <1>3, <1>4, <1>5 DEF UdpNext

(* How one step of a client changes what it has printed.                   *)
LEMMA ProceedEffect ==
    ASSUME UdpTyped, NEW c \in UdpClients, NEW j \in Nat, NEW last, Proceed(c, j, last), UdpSent
    PROVE  /\ Len(shown'[c]) = at[c] /\ shown'[c][at[c]] = j
           /\ \A k \in 1..(at[c] - 1) : shown'[c][k] = shown[c][k]
           /\ \A d \in UdpClients \ {c} : shown'[d] = shown[d] /\ at'[d] = at[d] /\ ucl'[d] = ucl[d]
           /\ at'[c] = at[c] + 1 /\ at[c] \in Nat \ {0} /\ ucl[c] = "wait" /\ Len(shown[c]) = at[c] - 1
<1>1. shown[c] \in Seq(Nat) /\ at[c] \in Nat \ {0} /\ Len(shown[c]) = at[c] - 1
  BY DEF UdpTyped, UdpSent
<1>2. shown'[c] = Append(shown[c], j) /\ ucl[c] = "wait" /\ at'[c] = at[c] + 1
  BY DEF UdpTyped, Proceed
<1>3. \A d \in UdpClients \ {c} : shown'[d] = shown[d] /\ at'[d] = at[d] /\ ucl'[d] = ucl[d]
  BY DEF UdpTyped, Proceed
<1> QED  BY <1>1, <1>2, <1>3

(* Every step keeps the datagrams under way those of messages sent.        *)
LEMMA UdpSentNext == UdpTyped /\ UdpSent /\ [UdpNext]_udpVars => UdpSent'
<1> SUFFICES ASSUME UdpTyped, UdpSent, [UdpNext]_udpVars PROVE UdpSent'
  OBVIOUS
<1>0. \A m \in net : m[2] \in UdpClients /\ m[3] \in Nat \ {0}
  BY DEF UdpTyped, Datagrams
<1>a. \A d \in UdpClients : at[d] \in Nat \ {0}
  BY DEF UdpTyped
<1>1. ASSUME NEW c \in UdpClients, NEW j \in Nat, NEW last, Proceed(c, j, last), net' \subseteq net
      PROVE  UdpSent'
  <2>1. /\ Len(shown'[c]) = at[c] /\ at'[c] = at[c] + 1
        /\ \A d \in UdpClients \ {c} : shown'[d] = shown[d] /\ at'[d] = at[d] /\ ucl'[d] = ucl[d]
    BY <1>1, ProceedEffect
  <2>2. \A d \in UdpClients : Len(shown'[d]) = at'[d] - 1
    <3>1. \A d \in UdpClients : Len(shown[d]) = at[d] - 1
      BY DEF UdpSent
    <3> QED  BY <1>a, <2>1, <3>1
  <2>3. ASSUME NEW m \in net' PROVE m[3] < at'[m[2]] \/ (m[3] = at'[m[2]] /\ ucl'[m[2]] = "wait")
    <3>1. /\ m[2] \in UdpClients /\ m[3] \in Nat /\ at[m[2]] \in Nat
          /\ m[3] < at[m[2]] \/ (m[3] = at[m[2]] /\ ucl[m[2]] = "wait")
      BY <1>0, <1>a, <1>1, <2>3 DEF UdpSent
    <3>2. CASE m[2] = c
      BY <2>1, <3>1, <3>2
    <3>3. CASE m[2] # c
      BY <2>1, <3>1, <3>3
    <3> QED  BY <3>2, <3>3
  <2> QED  BY <2>2, <2>3 DEF UdpSent
<1>2. ASSUME NEW c \in UdpClients, UdpSend(c) PROVE UdpSent'
  <2>1. \A m \in net' : m \in net \/ (m[2] = c /\ m[3] = at[c])
    BY <1>2 DEF UdpSend
  <2> QED  BY <1>2, <2>1, <1>0, <1>a DEF UdpSend, UdpSent, UdpTyped
<1>3. CASE UdpServerStep
  <2> PICK m \in net : m[1] = "request" /\ UdpServe(m[2], m[3])
    BY <1>3 DEF UdpServerStep
  <2>1. \A q \in net' : q \in net \/ (q[2] = m[2] /\ q[3] = m[3])
    BY DEF UdpServe, Serve, Deliver
  <2> QED  BY <2>1, <1>0, <1>a DEF UdpServe, Serve, clientSide, UdpSent
<1>4. CASE UdpServerError \/ (\E m \in net : Lose(m)) \/ UNCHANGED udpVars
  BY <1>4 DEF UdpServerError, Lose, clientSide, udpVars, UdpSent
<1>5. ASSUME NEW c \in UdpClients, UdpTimeout(c) PROVE UdpSent'
  BY <1>1, <1>5 DEF UdpTimeout, Answered
<1>6. ASSUME NEW c \in UdpClients, NEW m \in net, m[2] = c, UdpRecv(m[2], m[3]) PROVE UdpSent'
  BY <1>0, <1>1, <1>6 DEF UdpRecv, Answered, Deliver
<1> QED  BY <1>2, <1>3, <1>4, <1>5, <1>6 DEF UdpNext, UdpClientStep

(* Every step keeps a message under way once as long as no datagram is     *)
(* doubled.                                                                *)
LEMMA UdpOnceNext == UdpTyped /\ UdpSent /\ AnswersBelong /\ UdpOnce /\ [UdpNext]_udpVars => UdpOnce'
<1> SUFFICES ASSUME UdpTyped, UdpSent, AnswersBelong, UdpOnce, [UdpNext]_udpVars, dups' = 0
             PROVE  UdpOnce'
  BY DEF UdpOnce
<1>0. \A m \in net : m[1] \in {"request", "reply"} /\ m[2] \in UdpClients /\ m[3] \in Nat \ {0}
                     /\ m = <<m[1], m[2], m[3]>>
  BY DEF UdpTyped, Datagrams
<1>a. \A d \in UdpClients : at[d] \in Nat \ {0} /\ shown[d] \in Seq(Nat)
  BY DEF UdpTyped
<1>b. dups \in Nat
  BY DEF UdpTyped
<1>1. ASSUME NEW c \in UdpClients, UdpSend(c) PROVE UdpOnce'
  <2>1. /\ net' = net \cup {<<"request", c, at[c]>>} /\ shown' = shown /\ dups = 0
        /\ ucl[c] = "send"
    BY <1>1 DEF UdpSend
  <2>2. \A m \in net : m[2] = c => m[3] # at[c]
    BY <1>0, <1>a, <2>1 DEF UdpSent
  <2>3. \A k \in 1..Len(shown[c]) : shown[c][k] # at[c]
    BY <1>a DEF AnswersBelong, UdpSent
  <2>4. ASSUME NEW m \in net', <<"request", m[2], m[3]>> \in net', <<"reply", m[2], m[3]>> \in net'
        PROVE  FALSE
    BY <1>0, <2>1, <2>2, <2>4 DEF UdpOnce
  <2>5. \A m \in net' : \A k \in 1..Len(shown[m[2]]) : shown[m[2]][k] # m[3]
    BY <2>1, <2>3 DEF UdpOnce
  <2> QED  BY <2>1, <2>4, <2>5 DEF UdpOnce
<1>2. CASE UdpServerStep
  <2> PICK m \in net : m[1] = "request" /\ UdpServe(m[2], m[3])
    BY <1>2 DEF UdpServerStep
  <2>0. {<<"reply", d, m[3]>> : d \in {m[2]}} = {<<"reply", m[2], m[3]>>}
    OBVIOUS
  <2>2. m = <<"request", m[2], m[3]>>
    BY <1>0
  <2>1. net' = (net \ {m}) \cup {<<"reply", m[2], m[3]>>} /\ shown' = shown /\ dups = 0
    BY <1>b, <2>0, <2>2 DEF UdpServe, Serve, Deliver, clientSide
  <2>3. ASSUME NEW q \in net', <<"request", q[2], q[3]>> \in net', <<"reply", q[2], q[3]>> \in net'
        PROVE  FALSE
    BY <2>1, <2>2, <2>3, <1>0 DEF UdpOnce
  <2>4. \A q \in net' : \A k \in 1..Len(shown[q[2]]) : shown[q[2]][k] # q[3]
    BY <2>1 DEF UdpOnce
  <2> QED  BY <2>1, <2>3, <2>4 DEF UdpOnce
<1>3. CASE UdpServerError \/ (\E m \in net : Lose(m)) \/ UNCHANGED udpVars
  <2>1. net' \subseteq net /\ shown' = shown /\ dups' = dups
    BY <1>3 DEF UdpServerError, Lose, clientSide, udpVars
  <2> QED  BY <2>1 DEF UdpOnce
<1>4. ASSUME NEW c \in UdpClients, UdpTimeout(c) PROVE UdpOnce'
  <2>1. Proceed(c, 0, Len(messages[c])) /\ net' = net /\ dups' = dups
    BY <1>4 DEF UdpTimeout, Answered
  <2>2. /\ Len(shown'[c]) = at[c] /\ shown'[c][at[c]] = 0 /\ Len(shown[c]) = at[c] - 1
        /\ \A k \in 1..(at[c] - 1) : shown'[c][k] = shown[c][k]
        /\ \A d \in UdpClients \ {c} : shown'[d] = shown[d]
    BY <2>1, ProceedEffect
  <2>3. ASSUME NEW q \in net', NEW k \in 1..Len(shown'[q[2]]) PROVE shown'[q[2]][k] # q[3]
    <3>1. q \in net /\ \A i \in 1..Len(shown[q[2]]) : shown[q[2]][i] # q[3]
      BY <2>1 DEF UdpOnce
    <3>2. CASE q[2] = c /\ k = at[c]
      BY <2>2, <1>0, <3>1, <3>2
    <3>3. CASE q[2] = c /\ k \in 1..(at[c] - 1)
      BY <2>2, <3>1, <3>3
    <3>4. CASE q[2] # c
      BY <2>2, <1>0, <3>1, <3>4
    <3> QED  BY <2>2, <1>a, <3>2, <3>3, <3>4
  <2> QED  BY <2>1, <2>3 DEF UdpOnce
<1>5. ASSUME NEW c \in UdpClients, NEW m \in net, m[2] = c, UdpRecv(m[2], m[3]) PROVE UdpOnce'
  <2>1. /\ Proceed(c, m[3], Len(messages[c])) /\ dups = 0
        /\ <<"reply", c, m[3]>> \in net /\ net' = net \ {<<"reply", c, m[3]>>}
    BY <1>5, <1>b DEF UdpRecv, Answered, Deliver
  <2>2. \A q \in net' : q \in net /\ (q[2] = c => q[3] # m[3])
    BY <2>1, <1>0, <1>5 DEF UdpOnce
  <2>3. /\ Len(shown'[c]) = at[c] /\ shown'[c][at[c]] = m[3] /\ Len(shown[c]) = at[c] - 1
        /\ \A k \in 1..(at[c] - 1) : shown'[c][k] = shown[c][k]
        /\ \A d \in UdpClients \ {c} : shown'[d] = shown[d]
    BY <2>1, <1>0, ProceedEffect
  <2>4. ASSUME NEW q \in net', NEW k \in 1..Len(shown'[q[2]]) PROVE shown'[q[2]][k] # q[3]
    <3>1. q \in net /\ \A i \in 1..Len(shown[q[2]]) : shown[q[2]][i] # q[3]
      BY <2>1 DEF UdpOnce
    <3>2. CASE q[2] = c /\ k = at[c]
      BY <2>2, <2>3, <1>0, <3>1, <3>2
    <3>3. CASE q[2] = c /\ k \in 1..(at[c] - 1)
      BY <2>2, <2>3, <3>1, <3>3
    <3>4. CASE q[2] # c
      BY <2>2, <2>3, <1>0, <3>1, <3>4
    <3> QED  BY <2>2, <2>3, <1>a, <3>2, <3>3, <3>4
  <2> QED  BY <2>1, <2>4 DEF UdpOnce
<1> QED  BY <1>1, <1>2, <1>3, <1>4, <1>5 DEF UdpNext, UdpClientStep

(* AnswersBelong of the k-th entry of one client's list.                   *)
Belongs(list, k, copies) ==
    list[k] # 0 =>
        /\ list[k] <= k
        /\ list[k] # k /\ copies = 0 => \E i \in 1..k-1 : list[i] = 0
        /\ copies = 0 => \A i \in 1..k-1 : list[i] # list[k]

(* AnswersBelong says Belongs of every answer shown.                       *)
LEMMA AllBelong ==
    AnswersBelong <=> \A c \in UdpClients : \A k \in 1..Len(shown[c]) : Belongs(shown[c], k, dups)
BY DEF AnswersBelong, Belongs

(* Only the entries before the k-th and the k-th matter.                   *)
LEMMA BelongsAlike ==
    ASSUME NEW s, NEW t, NEW k \in Nat \ {0}, NEW d, NEW e, \A i \in 1..k : s[i] = t[i],
           Belongs(s, k, d), e = 0 => d = 0
    PROVE  Belongs(t, k, e)
<1>1. s[k] = t[k] /\ \A i \in 1..k-1 : s[i] = t[i]
  OBVIOUS
<1> QED  BY <1>1 DEF Belongs

(* Every step keeps the answers shown those of the messages sent.          *)
LEMMA AnswersBelongNext == UdpTyped /\ UdpSent /\ UdpOnce /\ AnswersBelong /\ [UdpNext]_udpVars => AnswersBelong'
<1> SUFFICES ASSUME UdpTyped, UdpSent, UdpOnce, AnswersBelong, [UdpNext]_udpVars PROVE AnswersBelong'
  OBVIOUS
<1>0. \A m \in net : m[2] \in UdpClients /\ m[3] \in Nat \ {0}
  BY DEF UdpTyped, Datagrams
<1>a. dups' = 0 => dups = 0
  <2>1. dups \in Nat
    BY DEF UdpTyped
  <2>2. dups' = dups \/ dups' = dups + 1
    BY DEF UdpNext, UdpClientStep, UdpServerStep, UdpSend, UdpTimeout, UdpRecv, UdpServe, Serve,
       UdpServerError, Lose, Deliver, udpVars
  <2> QED  BY <2>1, <2>2
<1>b. \A d \in UdpClients : at[d] \in Nat \ {0} /\ shown[d] \in Seq(Nat)
  BY DEF UdpTyped
<1>c. \A c \in UdpClients : \A k \in 1..Len(shown[c]) : Belongs(shown[c], k, dups)
  BY AllBelong
<1>d. (\A c \in UdpClients : \A k \in 1..Len(shown'[c]) : Belongs(shown'[c], k, dups')) => AnswersBelong'
  BY DEF AnswersBelong, Belongs
<1>1. ASSUME shown' = shown PROVE AnswersBelong'
  <2>1. ASSUME NEW c \in UdpClients, NEW k \in 1..Len(shown[c]) PROVE Belongs(shown[c], k, dups')
    BY <1>a, <1>c DEF Belongs
  <2> QED  BY <1>1, <1>d, <2>1
<1>2. ASSUME NEW c \in UdpClients, NEW j \in Nat, NEW last, Proceed(c, j, last),
             j # 0 => /\ j <= at[c]
                      /\ dups' = 0 => \A k \in 1..Len(shown[c]) : shown[c][k] # j
      PROVE  AnswersBelong'
  <2>1. /\ Len(shown'[c]) = at[c] /\ shown'[c][at[c]] = j
        /\ \A k \in 1..(at[c] - 1) : shown'[c][k] = shown[c][k]
        /\ \A d \in UdpClients \ {c} : shown'[d] = shown[d]
        /\ at[c] \in Nat \ {0} /\ Len(shown[c]) = at[c] - 1
    BY <1>2, ProceedEffect
  <2>2. Belongs(shown'[c], at[c], dups')
    <3>1. ASSUME dups' = 0, j # 0, j # at[c] PROVE \E i \in 1..(at[c] - 1) : shown'[c][i] = 0
      <4>1. j \in 1..(at[c] - 1) /\ shown[c][j] # j /\ dups = 0
        BY <1>a, <1>2, <2>1, <3>1
      <4>2. Belongs(shown[c], j, dups) /\ shown[c][j] \in Nat
        BY <1>b, <1>c, <2>1, <4>1
      <4>3. PICK i \in 1..j : shown[c][i] = 0
        BY <4>1, <4>2 DEF Belongs
      <4>4. i \in 1..(at[c] - 1)
        BY <4>1, <4>3, <2>1
      <4>5. shown'[c][i] = shown[c][i]
        BY <2>1, <4>4
      <4> QED  BY <4>3, <4>4, <4>5
    <3>2. j # 0 => j <= at[c]
      BY <1>2
    <3>3. ASSUME dups' = 0, j # 0 PROVE \A i \in 1..(at[c] - 1) : shown'[c][i] # j
      BY <1>2, <2>1, <3>3
    <3> QED  BY <2>1, <3>1, <3>2, <3>3 DEF Belongs
  <2>3. ASSUME NEW k \in 1..(at[c] - 1) PROVE Belongs(shown'[c], k, dups')
    <3>1. \A i \in 1..k : shown[c][i] = shown'[c][i]
      BY <2>1
    <3>2. Belongs(shown[c], k, dups) /\ k \in Nat \ {0}
      BY <1>c, <2>1
    <3> QED  BY <1>a, <3>1, <3>2, BelongsAlike
  <2>4. ASSUME NEW d \in UdpClients \ {c}, NEW k \in 1..Len(shown[d]) PROVE Belongs(shown[d], k, dups')
    BY <1>a, <1>c DEF Belongs
  <2>5. ASSUME NEW d \in UdpClients, NEW k \in 1..Len(shown'[d]) PROVE Belongs(shown'[d], k, dups')
    <3>1. CASE d = c
      <4>1. k = at[c] \/ k \in 1..(at[c] - 1)
        BY <2>1, <3>1
      <4> QED  BY <2>2, <2>3, <3>1, <4>1
    <3>2. CASE d # c
      BY <2>1, <2>4, <3>2
    <3> QED  BY <3>1, <3>2
  <2> QED  BY <1>d, <2>5
<1>3. ASSUME NEW c \in UdpClients, UdpTimeout(c) PROVE AnswersBelong'
  BY <1>2, <1>3 DEF UdpTimeout, Answered
<1>4. ASSUME NEW c \in UdpClients, NEW m \in net, m[2] = c, UdpRecv(m[2], m[3]) PROVE AnswersBelong'
  <2>1. m[3] <= at[c] /\ at[c] \in Nat /\ m[3] \in Nat
    BY <1>0, <1>4, <1>b DEF UdpSent
  <2>2. dups' = 0 => \A k \in 1..Len(shown[c]) : shown[c][k] # m[3]
    BY <1>a, <1>4 DEF UdpOnce
  <2> QED  BY <1>2, <1>4, <2>1, <2>2 DEF UdpRecv, Answered
<1>5. CASE UdpServerStep \/ UdpServerError \/ (\E m \in net : Lose(m)) \/ (\E c \in UdpClients : UdpSend(c))
           \/ UNCHANGED udpVars
  BY <1>1, <1>5 DEF UdpServerStep, UdpServe, Serve, UdpServerError, Lose, UdpSend, clientSide, udpVars
<1> QED  BY <1>3, <1>4, <1>5 DEF UdpNext, UdpClientStep

(* What a datagram client prints as an answer answers a message it has     *)
(* sent, and unless a datagram was duplicated answers none a second time   *)
(* and an earlier message only after a time-out: udp_client.c, whatever    *)
(* the network loses, delays and reorders.                                 *)
THEOREM DatagramAnswers == UdpSpec => []AnswersBelong
<1>1. UdpInit => UdpInv
  <2> SUFFICES ASSUME UdpInit PROVE UdpInv
    OBVIOUS
  <2>1. UdpTyped
    <3>1. <<>> \in Seq(Nat)
      OBVIOUS
    <3>2. /\ messages \in [UdpClients -> UdpScripts] /\ net = {}
          /\ ucl = [c \in UdpClients |-> "send"] /\ at = [c \in UdpClients |-> 1]
          /\ shown = [c \in UdpClients |-> <<>>]
          /\ userver = "receive" /\ dups = 0 /\ lost = FALSE
      BY DEF UdpInit
    <3>3. shown \in [UdpClients -> Seq(Nat)]
      BY <3>1, <3>2
    <3>4. net \subseteq Datagrams
      BY <3>2
    <3>5. ucl \in [UdpClients -> {"send", "wait", "done"}]
      BY <3>2
    <3>6. at \in [UdpClients -> Nat \ {0}]
      BY <3>2
    <3>7. dups \in Nat /\ lost \in BOOLEAN /\ userver \in {"receive", "stopped", "error"}
      BY <3>2
    <3> QED  BY <3>2, <3>3, <3>4, <3>5, <3>6, <3>7 DEF UdpTyped
  <2>2. UdpSent /\ UdpOnce /\ AnswersBelong
    BY DEF UdpInit, UdpSent, UdpOnce, AnswersBelong
  <2> QED  BY <2>1, <2>2 DEF UdpInv
<1>2. UdpInv /\ [UdpNext]_udpVars => UdpInv'
  BY UdpTypedNext, UdpSentNext, UdpOnceNext, AnswersBelongNext DEF UdpInv
<1>3. UdpInv => AnswersBelong
  BY DEF UdpInv
<1> QED  BY <1>1, <1>2, <1>3, PTL DEF UdpSpec

-----------------------------------------------------------------------------
Stream == Seq(Nat \X Nat)

(* The client takes part in the exchange only while it has a message.      *)
TcpTyped ==
    /\ script \in TcpScripts
    /\ tcl \in {"start", "send", "recv", "done"} /\ msg \in Nat \ {0}
    /\ tcl # "done" => msg <= Len(script)
    /\ got \in Seq(Stream) /\ tserver \in {"accept", "recv", "stopped"}
    /\ toServer \in Stream /\ toClient \in Stream
    /\ served \in Nat /\ cut \in BOOLEAN

(* A message at the server, its answer at the client, or the end of the    *)
(* stream: all that can be under way while the client waits.               *)
AtServer == /\ toServer = Message(msg, script[msg].size) /\ toClient = <<>>
            /\ tserver # "stopped" /\ served = msg - 1
AtClient == /\ toServer = <<>> /\ toClient = Message(msg, AnswerSize)
            /\ tserver # "stopped" => served = msg
AtNeither == toServer = <<>> /\ toClient = <<>> /\ tserver = "stopped"

Exchange ==
    /\ tcl \in {"send", "recv"} => Len(got) = msg - 1
    /\ tcl = "start" => Len(got) = 0 /\ msg = 1
    /\ ~cut =>
        /\ tcl \in {"start", "send"} =>
              toServer = <<>> /\ toClient = <<>> /\ (tserver # "stopped" => served = msg - 1)
        /\ tcl = "recv" => AtServer \/ AtClient \/ AtNeither

TcpInv == TcpTyped /\ Exchange /\ InStep

(* A message is as many bytes as its size says, all of them its own.       *)
LEMMA MessageStream ==
    ASSUME NEW i \in Nat, NEW size \in Nat
    PROVE  /\ Message(i, size) \in Stream /\ Len(Message(i, size)) = size
           /\ size > 0 => Message(i, size)[1][1] = i
<1>1. \A p \in 1..size : <<i, p>> \in Nat \X Nat
  OBVIOUS
<1> QED  BY <1>1, IsASeq DEF Message, Stream

(* What is taken from a stream, and what remains.                          *)
LEMMA TakeRest ==
    ASSUME NEW s \in Stream, NEW k \in 1..Len(s)
    PROVE  /\ Take(s, k) \in Stream /\ Rest(s, k) \in Stream
           /\ Len(Take(s, k)) = k /\ (k = Len(s) => Rest(s, k) = <<>>)
           /\ s[1] \in Nat \X Nat
<1>1. Len(s) \in Nat
  BY DEF Stream
<1>2. Take(s, k) \in Stream /\ Len(Take(s, k)) = k
  BY <1>1, SubSeqProperties DEF Take, Stream
<1>3. Rest(s, k) \in Stream /\ Len(Rest(s, k)) = Len(s) - k
  BY <1>1, SubSeqProperties DEF Rest, Stream
<1>4. k = Len(s) => Rest(s, k) = <<>>
  BY <1>3, EmptySeq DEF Stream
<1>5. s[1] \in Nat \X Nat
  BY <1>1 DEF Stream
<1> QED  BY <1>2, <1>3, <1>4, <1>5

(* The sizes of the typed lines are numbers.                               *)
LEMMA ScriptSizes ==
    ASSUME TcpTyped, NEW i \in 1..Len(script)
    PROVE  Len(script) \in Nat /\ script[i].size \in Nat
<1>1. script \in Seq([size : Nat, exit : BOOLEAN])
  BY TcpAssumption DEF TcpTyped
<1>2. script[i] \in [size : Nat, exit : BOOLEAN]
  BY <1>1, ElementOfSeq
<1> QED  BY <1>1, <1>2, LenProperties

(* Every step keeps the types.                                             *)
LEMMA TcpTypedNext == TcpTyped /\ [TcpNext]_tcpVars => TcpTyped'
<1> SUFFICES ASSUME TcpTyped, [TcpNext]_tcpVars PROVE TcpTyped'
  OBVIOUS
<1>0. Len(script) \in Nat
  BY TcpAssumption DEF TcpTyped
<1>a. toServer \in Stream /\ toClient \in Stream /\ msg \in Nat \ {0}
  BY DEF TcpTyped
<1>1. CASE TcpConnect \/ TcpAccept \/ TcpServerEnd \/ UNCHANGED tcpVars
  BY <1>1 DEF TcpConnect, TcpAccept, TcpServerEnd, tcpVars, TcpTyped
<1>2. CASE TcpSend
  <2>0. msg \in 1..Len(script)
    BY <1>0, <1>2 DEF TcpTyped, TcpSend
  <2>1. Message(msg, script[msg].size) \in Stream
    BY <1>a, <2>0, ScriptSizes, MessageStream
  <2>2. toServer' \in Stream
    BY <1>2, <1>a, <2>1 DEF TcpSend, Stream
  <2> QED  BY <1>2, <2>2 DEF TcpTyped, TcpSend
<1>3. ASSUME NEW answer \in Stream, tcl = "recv", GoOn(answer)
      PROVE  /\ got' \in Seq(Stream) /\ msg' \in Nat \ {0} /\ tcl' \in {"send", "done"}
             /\ tcl' # "done" => msg' <= Len(script)
  BY <1>0, <1>3 DEF GoOn, TcpTyped
<1>4. ASSUME NEW k \in 1..Len(toClient), TcpRecv(k) PROVE TcpTyped'
  <2>1. Take(toClient, k) \in Stream /\ toClient' \in Stream
    BY <1>4, TakeRest DEF TcpTyped, TcpRecv
  <2> QED  BY <1>3, <1>4, <2>1 DEF TcpTyped, TcpRecv
<1>5. CASE TcpRecvEnd
  <2>1. <<>> \in Stream
    BY DEF Stream
  <2> QED  BY <1>3, <1>5, <2>1 DEF TcpTyped, TcpRecvEnd
<1>6. ASSUME NEW k \in 1..Len(toServer), TcpAnswer(k) PROVE TcpTyped'
  <2>1. toServer' \in Stream
    BY <1>6, TakeRest DEF TcpTyped, TcpAnswer, Answer
  <2>2. Reply \in Stream
    <3>1. served + 1 \in Nat /\ AnswerSize \in Nat
      BY TcpAssumption DEF TcpTyped
    <3> QED  BY <3>1, MessageStream DEF Reply
  <2>3. toClient' \in Stream
    BY <1>6, <2>2 DEF TcpTyped, TcpAnswer, Answer, Stream
  <2>4. tserver' \in {"stopped", "recv"} /\ served' \in Nat /\ cut' \in BOOLEAN
    BY <1>6 DEF TcpTyped, TcpAnswer, Answer, NextPlace
  <2> QED  BY <1>6, <2>1, <2>3, <2>4 DEF TcpTyped, TcpAnswer, Answer
<1> QED  BY <1>1, <1>2, <1>4, <1>5, <1>6 DEF TcpNext, TcpClientStep, TcpServerStep

(* Every step keeps one message under way at a time, and the answers in    *)
(* step.                                                                   *)
LEMMA ExchangeNext == TcpTyped /\ Exchange /\ InStep /\ [TcpNext]_tcpVars => Exchange' /\ InStep'
<1> SUFFICES ASSUME TcpTyped, Exchange, InStep, [TcpNext]_tcpVars PROVE Exchange' /\ InStep'
  OBVIOUS
<1>0. AnswerSize \in Nat \ {0} /\ msg \in Nat \ {0} /\ served \in Nat /\ toServer \in Stream /\ toClient \in Stream
      /\ got \in Seq(Stream) /\ cut \in BOOLEAN /\ tcl \in {"start", "send", "recv", "done"}
  BY TcpAssumption DEF TcpTyped
<1>1. CASE TcpConnect \/ TcpAccept \/ TcpServerEnd \/ UNCHANGED tcpVars
  BY <1>1 DEF TcpConnect, TcpAccept, TcpServerEnd, tcpVars, Exchange, InStep, AtServer, AtClient, AtNeither, Message
<1>2. CASE TcpSend
  <2>1. msg \in 1..Len(script)
    BY <1>0, <1>2, ScriptSizes DEF TcpTyped, TcpSend
  <2>2. Message(msg, script[msg].size) \in Stream
    BY <1>0, <2>1, ScriptSizes, MessageStream
  <2>3. ~cut => toServer' = IF tserver = "stopped" THEN <<>> ELSE Message(msg, script[msg].size)
    BY <1>2, <2>2 DEF TcpSend, Exchange, Stream
  <2> QED  BY <1>2, <2>3 DEF TcpSend, Exchange, InStep, AtServer, AtNeither, Message
<1>3. ASSUME NEW answer \in Stream, GoOn(answer), tcl = "recv",
             ~cut' => ~cut /\ answer \in {Message(msg, AnswerSize), <<>>}
      PROVE  /\ tcl' \in {"send", "recv"} => Len(got') = msg' - 1
             /\ tcl' # "recv" /\ tcl' # "start"
             /\ ~cut' => \A i \in 1..Len(got') : got'[i] \in {Message(i, AnswerSize), <<>>}
             /\ msg' = msg + 1
  <2>1. Len(got) = msg - 1 /\ got' = Append(got, answer) /\ msg' = msg + 1
    BY <1>3 DEF Exchange, GoOn
  <2>2. Len(got') = msg /\ got'[msg] = answer /\ \A i \in 1..(msg - 1) : got'[i] = got[i]
    BY <1>0, <2>1
  <2> QED  BY <1>0, <1>3, <2>1, <2>2 DEF GoOn, InStep
<1>4. ASSUME NEW k \in 1..Len(toClient), TcpRecv(k) PROVE Exchange' /\ InStep'
  <2>1. /\ Take(toClient, k) \in Stream /\ Len(Take(toClient, k)) = k /\ toClient # <<>>
        /\ k = Len(toClient) => Rest(toClient, k) = <<>>
    BY <1>0, TakeRest DEF Stream
  <2>2. ASSUME ~cut' PROVE /\ ~cut /\ AtClient /\ Take(toClient, k) = Message(msg, AnswerSize)
                           /\ toClient' = <<>>
    <3>1. ~cut /\ Take(toClient, k) = Message(toClient[1][1], AnswerSize)
      BY <1>4, <2>2 DEF TcpRecv, IsOne
    <3>2. AtClient
      BY <1>4, <2>1, <3>1 DEF Exchange, TcpRecv, AtServer, AtNeither
    <3>3. toClient[1][1] = msg /\ Len(toClient) = AnswerSize
      BY <1>0, <3>2, MessageStream DEF AtClient
    <3>4. k = AnswerSize
      BY <1>0, <2>1, <3>1, <3>3, MessageStream
    <3> QED  BY <1>4, <2>1, <3>1, <3>2, <3>3, <3>4 DEF TcpRecv
  <2>3. /\ tcl' \in {"send", "recv"} => Len(got') = msg' - 1
        /\ tcl' # "recv" /\ tcl' # "start" /\ msg' = msg + 1
        /\ ~cut' => \A i \in 1..Len(got') : got'[i] \in {Message(i, AnswerSize), <<>>}
    BY <1>3, <1>4, <2>1, <2>2 DEF TcpRecv
  <2>4. ~cut' => toServer' = <<>> /\ toClient' = <<>> /\ (tserver' # "stopped" => served' = msg' - 1)
    BY <1>0, <1>4, <2>2, <2>3 DEF AtClient, TcpRecv
  <2> QED  BY <2>3, <2>4 DEF Exchange, InStep, Message
<1>5. CASE TcpRecvEnd
  <2>1. <<>> \in Stream
    BY DEF Stream
  <2>2. ~cut => AtNeither /\ cut' = cut
    <3>1. Message(msg, AnswerSize) # <<>>
      BY <1>0, MessageStream
    <3> QED  BY <1>5, <3>1 DEF TcpRecvEnd, Exchange, AtServer, AtClient
  <2>3. CASE GoOn(<<>>)
    <3>1. /\ tcl' \in {"send", "recv"} => Len(got') = msg' - 1
          /\ tcl' # "recv" /\ tcl' # "start" /\ msg' = msg + 1
          /\ ~cut' => \A i \in 1..Len(got') : got'[i] \in {Message(i, AnswerSize), <<>>}
      BY <1>3, <1>5, <2>1, <2>3 DEF TcpRecvEnd
    <3> QED  BY <1>5, <2>2, <3>1 DEF TcpRecvEnd, Exchange, InStep, AtNeither, Message
  <2>4. CASE tcl' = "done" /\ UNCHANGED <<msg, got>>
    BY <1>5, <2>4 DEF TcpRecvEnd, Exchange, InStep, Message
  <2> QED  BY <1>5, <2>3, <2>4 DEF TcpRecvEnd
<1>6. ASSUME NEW k \in 1..Len(toServer), TcpAnswer(k) PROVE Exchange' /\ InStep'
  <2>1. /\ Len(Take(toServer, k)) = k /\ toServer # <<>>
        /\ k = Len(toServer) => Rest(toServer, k) = <<>>
    BY <1>0, TakeRest DEF Stream
  <2>2. Reply \in Stream
    BY <1>0, MessageStream DEF Reply
  <2>3. /\ UNCHANGED <<script, tcl, msg, got>> /\ served' = served + 1
        /\ toServer' = Rest(toServer, k) /\ (~cut' => ~cut)
    BY <1>6 DEF TcpAnswer, Answer
  <2>4. ASSUME ~cut', tcl # "done" PROVE tcl = "recv" /\ AtClient'
    <3>1. tcl = "recv" /\ AtServer
      BY <1>0, <2>1, <2>3, <2>4 DEF Exchange, AtClient, AtNeither
    <3>2. msg \in 1..Len(script) /\ script[msg].size \in Nat
      BY <1>0, <3>1, ScriptSizes DEF TcpTyped
    <3>3. Len(toServer) = script[msg].size /\ toServer[1][1] = msg
      <4>1. Len(toServer) = script[msg].size /\ toServer = Message(msg, script[msg].size)
        BY <1>0, <3>1, <3>2, MessageStream DEF AtServer
      <4>2. script[msg].size > 0
        BY <3>2, <4>1
      <4> QED  BY <1>0, <3>2, <4>1, <4>2, MessageStream
    <3>4. Take(toServer, k) = Message(msg, script[msg].size)
      BY <1>6, <2>4, <3>3 DEF TcpAnswer, Answer, IsOne
    <3>5. k = Len(toServer)
      BY <1>0, <2>1, <3>2, <3>3, <3>4, MessageStream
    <3>6. toClient' = Message(msg, AnswerSize)
      BY <1>0, <1>6, <2>2, <2>4, <3>1 DEF TcpAnswer, Answer, AtServer, Reply, Stream
    <3>7. toServer' = <<>> /\ served' = msg'
      BY <1>0, <2>1, <2>3, <3>1, <3>5 DEF AtServer
    <3> QED  BY <2>3, <3>1, <3>6, <3>7 DEF AtClient, Message
  <2>5. InStep'
    <3>1. ~cut' => \A i \in 1..Len(got) : got[i] \in {Message(i, AnswerSize), <<>>}
      BY <2>3 DEF InStep
    <3> QED  BY <2>3, <2>4, <3>1 DEF InStep
  <2> QED  BY <2>3, <2>4, <2>5 DEF Exchange
<1> QED  BY <1>1, <1>2, <1>4, <1>5, <1>6 DEF TcpNext, TcpClientStep, TcpServerStep

(* As long as each recv returns one whole message or answer, every answer  *)
(* the stream client prints is the answer to the message it has just sent, *)
(* or nothing once the server has stopped, for every script of messages:   *)
(* tcp_client.c and tcp_server.c.                                          *)
THEOREM StreamAnswers == TcpSpec => []InStep
<1>1. TcpInit => TcpInv
  <2> SUFFICES ASSUME TcpInit PROVE TcpInv
    OBVIOUS
  <2>1. script \in Seq([size : Nat, exit : BOOLEAN]) /\ script # <<>>
    BY TcpAssumption DEF TcpInit
  <2>2. TcpTyped
    <3>1. Len(script) \in Nat \ {0}
      BY <2>1, EmptySeq
    <3>2. <<>> \in Seq(Stream) /\ <<>> \in Stream
      BY DEF Stream
    <3>3. script \in TcpScripts /\ msg <= Len(script) /\ msg \in Nat \ {0}
      BY <3>1 DEF TcpInit
    <3>4. got \in Seq(Stream) /\ toServer \in Stream /\ toClient \in Stream
      BY <3>2 DEF TcpInit
    <3>5. served \in Nat /\ cut \in BOOLEAN /\ tcl = "start" /\ tserver = "accept"
      BY DEF TcpInit
    <3> QED  BY <3>3, <3>4, <3>5 DEF TcpTyped
  <2>3. Exchange /\ InStep
    BY DEF TcpInit, Exchange, InStep
  <2> QED  BY <2>2, <2>3 DEF TcpInv
<1>2. TcpInv /\ [TcpNext]_tcpVars => TcpInv'
  BY TcpTypedNext, ExchangeNext DEF TcpInv
<1>3. TcpInv => InStep
  BY DEF TcpInv
<1> QED  BY <1>1, <1>2, <1>3, PTL DEF TcpSpec

-----------------------------------------------------------------------------
Byte == Clients \X Nat

ReadTyped ==
    /\ stream \in [Clients -> Streams] /\ sent \in [Clients -> Nat] /\ exited \subseteq Clients
    /\ sock \in [Clients -> {"idle", "backlog", "served", "ended", "failed"}]
    /\ open \subseteq Clients /\ spc \in {"accept", "read", "copy", "dead"}
    /\ newSd \in Clients \cup {None} /\ (newSd # None <=> spc \in {"read", "copy"})
    /\ rcv_ptr \in Nat /\ n \in Int /\ rcv_msg \in Seq(Byte) /\ line \in Seq(Byte)
    /\ spc = "copy" \/ rcv_ptr > 0 => n = Len(rcv_msg) /\ rcv_ptr < n
    /\ taken \in [Clients -> Nat] /\ printed \in [Clients -> Seq(Seq(Byte))]

Failed == {c \in Clients : sock[c] = "failed"}

(* The open descriptors are that of the connection being served and those  *)
(* whose recv failed, never more than the process may have.                *)
Descriptors ==
    /\ open = Failed \cup ({newSd} \ {None}) /\ newSd \notin Failed
    /\ Cardinality(open) <= MaxOpen
    /\ spc = "dead" => Cardinality(open) = MaxOpen

(* The bytes of a stream from one place to another.                        *)
LEMMA BytesOf ==
    ASSUME NEW c \in Clients, NEW i \in Nat, NEW j \in Nat, i <= j
    PROVE  /\ Bytes(c, i + 1, j) \in Seq(Byte) /\ Len(Bytes(c, i + 1, j)) = j - i
           /\ \A k \in 1..(j - i) : Bytes(c, i + 1, j)[k] = <<c, i + k>>
<1> DEFINE m == j - i
<1>1. m \in Nat /\ j - (i + 1) + 1 = m /\ \A k \in 1..m : (i + 1) + k - 1 = i + k /\ i + k \in Nat
  OBVIOUS
<1>2. Bytes(c, i + 1, j) = [k \in 1..m |-> <<c, i + k>>]
  BY <1>1 DEF Bytes
<1>3. \A k \in 1..m : <<c, i + k>> \in Byte
  BY <1>1 DEF Byte
<1> HIDE DEF m
<1>4. [k \in 1..m |-> <<c, i + k>>] \in Seq(Byte) /\ Len([k \in 1..m |-> <<c, i + k>>]) = m
  BY <1>1, <1>3
<1> QED  BY <1>2, <1>4 DEF m

(* Every step keeps the types.                                             *)
LEMMA ReadTypedNext == ReadTyped /\ [ReadNext]_readVars => ReadTyped'
<1> SUFFICES ASSUME ReadTyped, [ReadNext]_readVars PROVE ReadTyped'
  OBVIOUS
<1> USE DEF ReadTyped
<1>0. None \notin Clients /\ \A c \in Clients : stream[c].ends \subseteq Nat
  BY StreamsAssumption
<1>1. ASSUME NEW c \in Clients, SendArgument(c) PROVE ReadTyped'
  BY <1>0, <1>1 DEF SendArgument, conns, buffer
<1>6. ASSUME NEW c \in Clients, Connect(c) \/ Exit(c) PROVE ReadTyped'
  BY <1>6 DEF Connect, Exit, conns, clientVars, buffer
<1>7. ASSUME NEW c \in Clients, Accept(c) PROVE ReadTyped'
  <2>1. <<>> \in Seq(Byte)
    OBVIOUS
  <2> QED  BY <1>0, <1>7, <2>1 DEF Accept, clientVars, buffer
<1>2. CASE AcceptFails \/ Resume \/ UNCHANGED readVars
  BY <1>2 DEF AcceptFails, Resume, conns, clientVars, buffer, readVars
<1>3. ASSUME NEW k \in 1..MAX_MSG, Recv(k) PROVE ReadTyped'
  <2>1. newSd \in Clients /\ taken[newSd] \in Nat /\ k \in Nat
    BY <1>3, StreamsAssumption DEF Recv
  <2>2. rcv_msg' \in Seq(Byte) /\ Len(rcv_msg') = n' /\ rcv_ptr' < n'
    <3> DEFINE i == taken[newSd]
               j == taken[newSd] + k
    <3>1. i \in Nat /\ j \in Nat /\ i <= j /\ j - i = k /\ 0 < k
      BY <2>1
    <3>2. rcv_msg' = Bytes(newSd, i + 1, j) /\ n' = k /\ rcv_ptr' = 0
      BY <1>3 DEF Recv
    <3> HIDE DEF i, j
    <3>3. Bytes(newSd, i + 1, j) \in Seq(Byte) /\ Len(Bytes(newSd, i + 1, j)) = j - i
      BY <2>1, <3>1, BytesOf
    <3> QED  BY <3>1, <3>2, <3>3
  <2> QED  BY <1>3, <2>1, <2>2 DEF Recv, conns, clientVars
<1>4. CASE RecvEnd \/ RecvError
  <2>1. newSd \in Clients /\ <<>> \in Seq(Byte)
    BY <1>4 DEF RecvEnd, RecvError, EndConnection
  <2>2. /\ sock' \in [Clients -> {"idle", "backlog", "served", "ended", "failed"}]
        /\ open' \subseteq Clients /\ n' \in Int /\ rcv_ptr = 0
    <3>1. CASE RecvEnd
      BY <2>1, <3>1 DEF RecvEnd, EndConnection
    <3>2. CASE RecvError
      BY <2>1, <3>2 DEF RecvError, EndConnection
    <3> QED  BY <1>4, <3>1, <3>2
  <2>3. rcv_msg' = <<>> /\ newSd' = None /\ spc' = "accept"
        /\ UNCHANGED <<clientVars, rcv_ptr, line, taken, printed>>
    BY <1>4 DEF RecvEnd, RecvError, EndConnection
  <2>4. /\ UNCHANGED <<stream, sent, exited>> /\ newSd' \in Clients \cup {None}
        /\ rcv_msg' \in Seq(Byte) /\ rcv_ptr' = 0 /\ spc' # "copy" /\ (newSd' # None <=> spc' \in {"read", "copy"})
    BY <2>1, <2>2, <2>3 DEF clientVars
  <2> QED  BY <2>2, <2>3, <2>4
<1>5. CASE Copy
  <2> PICK i \in 0..n : StopsAt(i) /\ (LastLine(i) \/ MoreLines(i) \/ Unfinished(i))
    BY <1>5 DEF Copy
  <2>0. rcv_ptr \in Nat /\ i \in Nat /\ i <= n /\ n \in Int /\ newSd \in Clients
    BY <1>5 DEF Copy
  <2>1. Copied(i) \in Seq(Byte)
    <3>1. SubSeq(rcv_msg, rcv_ptr + 1, i) \in Seq(Byte)
      <4>1. n = Len(rcv_msg) /\ rcv_msg \in Seq(Byte)
        BY <1>5 DEF Copy
      <4>2. \A j \in (rcv_ptr + 1)..i : rcv_msg[j] \in Byte
        BY <2>0, <4>1
      <4> QED  BY <2>0, <4>2, SubSeqProperties
    <3> QED  BY <3>1 DEF Copied
  <2>2. newSd \in Clients
    BY <2>0
  <2>3. line' \in Seq(Byte) /\ rcv_ptr' \in Nat /\ spc' = "read"
    <3>1. line' \in {<<>>, Copied(i)} /\ rcv_ptr' \in {0, i + 1} /\ spc' = "read"
      BY DEF LastLine, MoreLines, Unfinished, Return
    <3>2. <<>> \in Seq(Byte)
      OBVIOUS
    <3> HIDE DEF ReadTyped
    <3>3. line' \in Seq(Byte)
      BY <2>1, <3>1, <3>2
    <3>4. rcv_ptr' \in Nat
      BY <2>0, <3>1
    <3> QED  BY <3>1, <3>3, <3>4
  <2>5. rcv_ptr' > 0 => n = Len(rcv_msg) /\ rcv_ptr' < n
    BY <1>5, <2>0 DEF LastLine, MoreLines, Unfinished, Return, Copy
  <2>4. printed' \in [Clients -> Seq(Seq(Byte))]
    <3>1. Append(printed[newSd], Copied(i)) \in Seq(Seq(Byte))
      BY <2>0, <2>1
    <3>2. printed' = printed \/ printed' = [printed EXCEPT ![newSd] = Append(printed[newSd], Copied(i))]
      BY DEF LastLine, MoreLines, Unfinished, Return
    <3> QED  BY <2>0, <3>1, <3>2
  <2>6. UNCHANGED <<stream, sent, exited, sock, open, newSd, rcv_msg, n, taken>> /\ spc = "copy"
    BY <1>5 DEF Copy, conns, clientVars
  <2> QED  BY <2>0, <2>3, <2>4, <2>5, <2>6
<1> QED  BY <1>1, <1>2, <1>3, <1>4, <1>5, <1>6, <1>7 DEF ReadNext, ReadServerStep

(* Every step keeps the open descriptors those of failed connections and   *)
(* of the one served, and within the limit.                                *)
LEMMA DescriptorsNext == ReadTyped /\ Descriptors /\ [ReadNext]_readVars => Descriptors'
<1> SUFFICES ASSUME ReadTyped, Descriptors, [ReadNext]_readVars PROVE Descriptors'
  OBVIOUS
<1>0. /\ None \notin Clients /\ MaxOpen \in Nat /\ newSd \in Clients \cup {None}
      /\ sock \in [Clients -> {"idle", "backlog", "served", "ended", "failed"}]
      /\ newSd # None <=> spc \in {"read", "copy"}
      /\ IsFiniteSet(open) /\ Cardinality(open) \in Nat
  BY StreamsAssumption, FS_Subset, FS_CardinalityType DEF ReadTyped
<1>1. ASSUME NEW c \in Clients, Accept(c) PROVE Descriptors'
  <2>1. c \notin open /\ newSd = None /\ open' = open \cup {c} /\ Failed' = Failed /\ newSd' = c /\ spc' = "read"
    BY <1>0, <1>1 DEF Accept, Descriptors, Failed
  <2>2. Cardinality(open') <= MaxOpen
    <3>1. Cardinality(open) < MaxOpen
      BY <1>1 DEF Accept
    <3>2. Cardinality(open') = Cardinality(open) + 1
      BY <1>0, <2>1, FS_AddElement
    <3> QED  BY <1>0, <3>1, <3>2
  <2> QED  BY <1>0, <2>1, <2>2 DEF Descriptors
<1>2. CASE RecvEnd
  <2>1. newSd \in Clients /\ Failed' = Failed /\ newSd' = None /\ open' = open \ {newSd} /\ spc' = "accept"
    BY <1>0, <1>2 DEF RecvEnd, AtEnd, EndConnection, Failed, Descriptors
  <2>2. Cardinality(open') <= MaxOpen
    BY <1>0, <2>1, FS_RemoveElement DEF Descriptors
  <2> QED  BY <1>0, <2>1, <2>2 DEF Descriptors, Failed
<1>3. CASE RecvError
  <2>1. newSd \in Clients /\ Failed' = Failed \cup {newSd} /\ newSd' = None /\ open' = open /\ spc' = "accept"
    BY <1>0, <1>3 DEF RecvError, EndConnection, Failed
  <2> QED  BY <1>0, <2>1 DEF Descriptors, Failed
<1>4. CASE AcceptFails
  BY <1>0, <1>4 DEF AcceptFails, Descriptors, Failed, conns
<1>5. ASSUME NEW c \in Clients, Connect(c) PROVE Descriptors'
  <2>1. Failed' = Failed
    BY <1>0, <1>5 DEF Connect, Failed
  <2> QED  BY <1>5, <2>1 DEF Connect, Descriptors
<1>6. ASSUME UNCHANGED conns, UNCHANGED newSd, spc' # "dead" PROVE Descriptors'
  BY <1>6 DEF conns, Descriptors, Failed
<1>7. CASE (\E c \in Clients : SendArgument(c) \/ Exit(c)) \/ UNCHANGED readVars
  BY <1>7 DEF SendArgument, Exit, readVars, conns, Descriptors, Failed
<1>8. CASE (\E k \in 1..MAX_MSG : Recv(k)) \/ Resume
  BY <1>6, <1>8 DEF Recv, Resume
<1>9. CASE Copy
  <2>1. spc' = "read" /\ UNCHANGED conns /\ UNCHANGED newSd
    BY <1>9 DEF Copy, LastLine, MoreLines, Unfinished, Return
  <2> QED  BY <1>6, <2>1
<1> QED  BY <1>1, <1>2, <1>3, <1>4, <1>5, <1>7, <1>8, <1>9 DEF ReadNext, ReadServerStep

(* At the start every variable is of its type and no descriptor is open.   *)
LEMMA ReadTypedInit == ReadInit => ReadTyped /\ Descriptors
<1> SUFFICES ASSUME ReadInit PROVE ReadTyped /\ Descriptors
  OBVIOUS
<1>1. <<>> \in Seq(Byte) /\ <<>> \in Seq(Seq(Byte))
  OBVIOUS
<1>2. /\ stream \in [Clients -> Streams] /\ sent \in [Clients -> Nat] /\ exited \subseteq Clients
      /\ sock \in [Clients -> {"idle", "backlog", "served", "ended", "failed"}]
      /\ taken \in [Clients -> Nat] /\ open = {} /\ spc = "accept" /\ newSd = None
  BY DEF ReadInit
<1>3. printed \in [Clients -> Seq(Seq(Byte))] /\ rcv_msg \in Seq(Byte) /\ line \in Seq(Byte)
  BY <1>1 DEF ReadInit
<1>4. ReadTyped
  BY <1>2, <1>3 DEF ReadInit, ReadTyped
<1>5. Failed = {}
  BY DEF ReadInit, Failed
<1> QED  BY <1>2, <1>4, <1>5, StreamsAssumption, FS_EmptySet DEF Descriptors

(* Only a failed recv leaves a descriptor open, and the server's accept    *)
(* fails only when such descriptors are all the process may have: main and *)
(* read_line of tcpServer.c, for any number of clients and lines.          *)
THEOREM LeaksCorrect == ReadSpec => []OnlyFailuresLeak
<1>1. ReadInit => ReadTyped /\ Descriptors
  BY ReadTypedInit
<1>2. ReadTyped /\ Descriptors /\ [ReadNext]_readVars => ReadTyped' /\ Descriptors'
  BY ReadTypedNext, DescriptorsNext
<1>3. ReadTyped /\ Descriptors => OnlyFailuresLeak
  BY DEF Descriptors, OnlyFailuresLeak, Failed, ReadTyped
<1> QED  BY <1>1, <1>2, <1>3, PTL DEF ReadSpec

-----------------------------------------------------------------------------
(* The buffer holds the bytes taken last, of the connection being served.  *)
Buffered ==
    /\ \A c \in Clients : taken[c] <= sent[c] /\ sent[c] <= stream[c].len
    /\ \A c \in Clients : sock[c] \in {"idle", "backlog"} => taken[c] = 0 /\ printed[c] = <<>>
    /\ IF newSd = None THEN rcv_ptr = 0 ELSE sock[newSd] = "served"
    /\ newSd # None /\ (spc = "copy" \/ rcv_ptr > 0) =>
          n <= taken[newSd] /\ rcv_msg = Bytes(newSd, taken[newSd] - n + 1, taken[newSd])

(* bytes are those of c from the end of a line on, up to p.                *)
Partial(c, bytes, p) ==
    LET start == p - Len(bytes) IN
    /\ start \in {0} \cup stream[c].ends /\ start <= p
    /\ bytes = Bytes(c, start + 1, p)
    /\ stream[c].ends \cap (start + 1)..p = {}
Reading == newSd # None => Partial(newSd, line, Consumed(newSd))

(* LinesExact of one connection, of which p bytes have left the buffer.    *)
Exact(c, lines, p) ==
    LET complete == stream[c].ends \cap 1..p IN
    /\ Len(lines) = Cardinality(complete)
    /\ \A e \in complete : lines[Cardinality(complete \cap 1..e)] = LineEndingAt(c, e)

LinesInv == Buffered /\ Reading /\ LinesExact

(* The lines of a stream do not change.                                    *)
LEMMA SameLines ==
    ASSUME stream' = stream, NEW c, NEW e
    PROVE  LineEndingAt(c, e)' = LineEndingAt(c, e)
BY DEF LineEndingAt, Bytes

(* The last byte of a stream ends a line, and no line with its zero byte   *)
(* is longer than MAX_MSG.                                                 *)
LEMMA StreamEnds ==
    ASSUME ReadTyped, NEW c \in Clients
    PROVE  /\ stream[c].len \in Nat \ {0} /\ stream[c].ends \subseteq 1..stream[c].len
           /\ \A i \in 0..stream[c].len - MAX_MSG : \E e \in stream[c].ends : e \in i+1..i+MAX_MSG
<1>1. stream[c] \in Streams
  BY DEF ReadTyped
<1>2. /\ stream[c].len \in stream[c].ends /\ stream[c].ends \subseteq 1..stream[c].len
      /\ \A i \in 0..stream[c].len - MAX_MSG : \E e \in stream[c].ends : e \in i+1..i+MAX_MSG
  BY <1>1, StreamsAssumption
<1>3. stream[c].len \in 1..stream[c].len
  BY <1>2
<1> QED  BY <1>2, <1>3

(* The line that ends at a zero byte starts behind the one before.         *)
LEMMA LineFrom ==
    ASSUME ReadTyped, NEW c \in Clients, NEW s \in Nat, NEW e \in Nat, s < e,
           s \in {0} \cup stream[c].ends, stream[c].ends \cap (s + 1)..(e - 1) = {}
    PROVE  LineEndingAt(c, e) = Bytes(c, s + 1, e - 1)
<1> DEFINE Start(t) == t \in {0} \cup stream[c].ends /\ stream[c].ends \cap t+1..e-1 = {}
<1>1. s \in 0..e-1 /\ Start(s)
  OBVIOUS
<1>2. ASSUME NEW t \in 0..e-1, Start(t) PROVE t = s
  <2>1. CASE t < s
    <3>1. s \in stream[c].ends /\ s \in t+1..e-1
      BY <2>1
    <3> QED  BY <1>2, <3>1
  <2>2. CASE t > s
    <3>1. t \in stream[c].ends /\ t \in s+1..e-1
      BY <1>2, <2>2
    <3> QED  BY <3>1
  <2> QED  BY <2>1, <2>2
<1> HIDE DEF Start
<1>3. (CHOOSE t \in 0..e-1 : Start(t)) = s
  BY <1>1, <1>2
<1> QED  BY <1>3 DEF LineEndingAt, Start

(* Bytes without a line end among them leave the printed lines exact.      *)
LEMMA ExactStill ==
    ASSUME ReadTyped, NEW c \in Clients, NEW lines, NEW p \in Nat, NEW q \in Nat, p <= q,
           stream[c].ends \cap (p + 1)..q = {}, Exact(c, lines, p)
    PROVE  Exact(c, lines, q)
<1>1. stream[c].ends \cap 1..q = stream[c].ends \cap 1..p
  BY StreamEnds
<1> QED  BY <1>1 DEF Exact

(* Bytes up to the next line end, and that line printed, leave the printed *)
(* lines exact.                                                            *)
LEMMA ExactNext ==
    ASSUME ReadTyped, NEW c \in Clients, NEW lines \in Seq(Seq(Byte)), NEW text \in Seq(Byte),
           NEW p \in Nat, NEW e \in Nat, p < e, e \in stream[c].ends,
           stream[c].ends \cap (p + 1)..(e - 1) = {}, Exact(c, lines, p), text = LineEndingAt(c, e)
    PROVE  Exact(c, Append(lines, text), e)
<1> DEFINE old == stream[c].ends \cap 1..p
           new == stream[c].ends \cap 1..e
<1>0. stream[c].ends \subseteq Nat \ {0}
  BY StreamEnds
<1>1. new = old \cup {e} /\ e \notin old /\ \A f \in old : f \in Nat /\ f < e
  BY <1>0
<1>7. Len(lines) = Cardinality(old) /\ \A i \in 1..Len(lines) : Append(lines, text)[i] = lines[i]
  BY AppendProperties DEF Exact
<1>8. Append(lines, text)[Len(lines) + 1] = text /\ Len(Append(lines, text)) = Len(lines) + 1
  BY AppendProperties
<1>2. IsFiniteSet(old) /\ Cardinality(old) \in Nat
  <2>1. IsFiniteSet(1..p) /\ old \subseteq 1..p
    BY FS_Interval
  <2> QED  BY <2>1, FS_Subset, FS_CardinalityType
<1>3. Cardinality(new) = Cardinality(old) + 1
  BY <1>1, <1>2, FS_AddElement
<1>4. Len(Append(lines, text)) = Cardinality(new)
  BY <1>3, <1>7, <1>8
<1>5. ASSUME NEW f \in old
      PROVE  Append(lines, text)[Cardinality(new \cap 1..f)] = LineEndingAt(c, f)
  <2>1. new \cap 1..f = old \cap 1..f
    BY <1>1
  <2>2. f \in old \cap 1..f
    BY StreamEnds
  <2>3. IsFiniteSet(old \cap 1..f) /\ Cardinality(old \cap 1..f) \in Nat
        /\ Cardinality(old \cap 1..f) <= Cardinality(old) /\ Cardinality(old \cap 1..f) # 0
    BY <1>2, <2>2, FS_Subset, FS_CardinalityType, FS_EmptySet
  <2>4. Cardinality(old \cap 1..f) \in 1..Len(lines)
    BY <1>2, <1>7, <2>3
  <2>5. lines[Cardinality(old \cap 1..f)] = LineEndingAt(c, f)
    BY DEF Exact
  <2> QED  BY <1>7, <2>1, <2>4, <2>5
<1>6. Append(lines, text)[Cardinality(new \cap 1..e)] = LineEndingAt(c, e)
  <2>1. new \cap 1..e = new
    BY <1>0
  <2> QED  BY <1>4, <1>8, <2>1
<1> QED  BY <1>1, <1>4, <1>5, <1>6 DEF Exact

(* Consecutive pieces of a stream join.                                    *)
LEMMA BytesJoin ==
    ASSUME NEW c \in Clients, NEW s \in Nat, NEW p \in Nat, NEW q \in Nat, s <= p, p <= q
    PROVE  Bytes(c, s + 1, p) \o Bytes(c, p + 1, q) = Bytes(c, s + 1, q)
<1> DEFINE a == Bytes(c, s + 1, p)
           b == Bytes(c, p + 1, q)
           d == Bytes(c, s + 1, q)
<1>1. a \in Seq(Byte) /\ Len(a) = p - s /\ \A k \in 1..(p - s) : a[k] = <<c, s + k>>
  BY BytesOf
<1>2. b \in Seq(Byte) /\ Len(b) = q - p /\ \A k \in 1..(q - p) : b[k] = <<c, p + k>>
  BY BytesOf
<1>3. d \in Seq(Byte) /\ Len(d) = q - s /\ \A k \in 1..(q - s) : d[k] = <<c, s + k>>
  BY BytesOf
<1> HIDE DEF a, b, d
<1>7. /\ a \o b \in Seq(Byte) /\ Len(a \o b) = Len(a) + Len(b)
      /\ \A k \in 1..Len(a) + Len(b) : (a \o b)[k] = IF k <= Len(a) THEN a[k] ELSE b[k - Len(a)]
  BY <1>1, <1>2, ConcatProperties
<1>4. Len(a \o b) = Len(d)
  BY <1>1, <1>2, <1>3, <1>7
<1>5. ASSUME NEW k \in 1..Len(d) PROVE (a \o b)[k] = d[k]
  <2>1. CASE k <= p - s
    <3>1. (a \o b)[k] = a[k] /\ k \in 1..(p - s)
      BY <1>1, <1>2, <1>3, <1>7, <2>1
    <3> QED  BY <1>1, <1>3, <3>1
  <2>2. CASE k > p - s
    <3>1. (a \o b)[k] = b[k - (p - s)] /\ k - (p - s) \in 1..(q - p)
      BY <1>1, <1>2, <1>3, <1>7, <2>2
    <3>2. b[k - (p - s)] = <<c, p + (k - (p - s))>> /\ p + (k - (p - s)) = s + k
      BY <1>2, <3>1
    <3>3. k \in 1..(q - s)
      BY <1>3
    <3> QED  BY <1>3, <3>1, <3>2, <3>3
  <2>3. k <= p - s \/ k > p - s
    BY <1>3
  <2> QED  BY <2>1, <2>2, <2>3
<1>6. a \o b = d
  BY <1>3, <1>4, <1>5, <1>7, SeqEqual
<1> QED  BY <1>6 DEF a, b, d

(* Part is SubSeq, under a name the provers do not rewrite.                *)
Part(s, i, j) == SubSeq(s, i, j)

(* A part of a piece of a stream is a piece of it.                         *)
LEMMA PartOfBytes ==
    ASSUME NEW c \in Clients, NEW first \in Nat \ {0}, NEW end \in Nat, NEW from \in Nat \ {0}, NEW i \in Nat,
           from <= i + 1, first + i - 1 <= end
    PROVE  Part(Bytes(c, first, end), from, i) = Bytes(c, first + from - 1, first + i - 1)
<1> DEFINE b == first - 1
           s == first + from - 2
           j == first + i - 1
           w == Bytes(c, b + 1, end)
           d == Bytes(c, s + 1, j)
<1>0. /\ b \in Nat /\ b <= end /\ b + 1 = first
      /\ s \in Nat /\ j \in Nat /\ s <= j /\ s + 1 = first + from - 1 /\ j - s = i - from + 1
  OBVIOUS
<1> HIDE DEF b, s, j
<1>1. w \in Seq(Byte) /\ Len(w) = end - b /\ \A k \in 1..(end - b) : w[k] = <<c, b + k>>
  BY <1>0, BytesOf
<1>2. d \in Seq(Byte) /\ Len(d) = j - s /\ \A k \in 1..(j - s) : d[k] = <<c, s + k>>
  BY <1>0, BytesOf
<1> HIDE DEF w, d
<1>3. /\ SubSeq(w, from, i) \in Seq(Byte) /\ Len(SubSeq(w, from, i)) = i - from + 1
      /\ \A k \in 1..(i - from + 1) : SubSeq(w, from, i)[k] = w[from + k - 1]
  <2>1. \A k \in from..i : w[k] \in Byte
    <3>1. \A k \in from..i : k \in 1..(end - b)
      BY DEF b
    <3> QED  BY <1>1, <3>1
  <2> QED  BY <2>1, SubSeqProperties
<1>4. ASSUME NEW k \in 1..(i - from + 1) PROVE SubSeq(w, from, i)[k] = d[k]
  <2>1. from + k - 1 \in 1..(end - b) /\ b + (from + k - 1) = s + k
    BY DEF b, s
  <2>2. w[from + k - 1] = <<c, s + k>>
    BY <1>1, <2>1
  <2> QED  BY <1>0, <1>2, <1>3, <2>2
<1>5. SubSeq(w, from, i) = d
  BY <1>0, <1>2, <1>3, <1>4, SeqEqual
<1> QED  BY <1>0, <1>5 DEF w, d, j, Part

(* What has left the buffer, within what recv has returned.                *)
LEMMA ConsumedOf ==
    ASSUME ReadTyped, Buffered, NEW c \in Clients
    PROVE  /\ Consumed(c) \in Nat /\ taken[c] \in Nat /\ Consumed(c) <= taken[c]
           /\ ~InBuffer(c) => Consumed(c) = taken[c]
           /\ InBuffer(c) => Consumed(c) = taken[c] - n + rcv_ptr /\ n \in Nat /\ n <= taken[c]
<1>1. taken[c] \in Nat /\ rcv_ptr \in Nat /\ n \in Int /\ None \notin Clients
  BY StreamsAssumption DEF ReadTyped
<1>2. CASE ~InBuffer(c)
  BY <1>1, <1>2 DEF Consumed
<1>3. CASE InBuffer(c)
  <2>1. n = Len(rcv_msg) /\ rcv_msg \in Seq(Byte) /\ rcv_ptr < n /\ n <= taken[c]
    BY <1>1, <1>3 DEF InBuffer, ReadTyped, Buffered
  <2> QED  BY <1>1, <1>3, <2>1 DEF Consumed
<1> QED  BY <1>2, <1>3

(* The loop of read_line copies the bytes from the one after the last that *)
(* left the buffer up to where it stops, and nothing before ends a line.   *)
LEMMA CopyEffect ==
    ASSUME ReadTyped, Buffered, Reading, spc = "copy", NEW i \in 0..n, StopsAt(i)
    PROVE  LET c == newSd  p == Consumed(newSd)  base == taken[newSd] - n  start == p - Len(line) IN
           /\ c \in Clients /\ base \in Nat /\ p = base + rcv_ptr /\ start \in Nat /\ start <= p
           /\ rcv_ptr \in Nat /\ n \in Nat /\ i \in Nat /\ rcv_ptr <= i /\ rcv_ptr < n
           /\ start \in {0} \cup stream[c].ends
           /\ Copied(i) = Bytes(c, start + 1, base + i)
           /\ stream[c].ends \cap (start + 1)..(base + i) = {}
           /\ i < n => base + i + 1 \in stream[c].ends
<1> DEFINE c == newSd
           p == Consumed(newSd)
           base == taken[newSd] - n
           start == p - Len(line)
<1>1. c \in Clients /\ InBuffer(c) /\ c # None
  BY StreamsAssumption DEF ReadTyped, InBuffer
<1>2. /\ rcv_ptr \in Nat /\ n \in Nat /\ n <= taken[c] /\ taken[c] \in Nat /\ p = base + rcv_ptr /\ p \in Nat
      /\ line \in Seq(Byte) /\ n = Len(rcv_msg) /\ rcv_ptr < n
  BY <1>1, ConsumedOf DEF ReadTyped
<1>3. i \in Nat /\ i <= n /\ rcv_ptr <= i /\ base \in Nat /\ base + n = taken[c]
  BY <1>2 DEF StopsAt
<1>4. rcv_msg = Bytes(c, base + 1, base + n)
  BY <1>1, <1>2, <1>3 DEF Buffered
<1>5. /\ start \in {0} \cup stream[c].ends /\ start <= p /\ line = Bytes(c, start + 1, p)
      /\ stream[c].ends \cap (start + 1)..p = {}
  BY <1>1 DEF Reading, Partial
<1>6. start \in Nat
  BY <1>1, <1>5, StreamEnds
<1> HIDE DEF c, p, base, start
<1>7. \A k \in 1..n : rcv_msg[k] = <<c, base + k>>
  <2> DEFINE j == base + n
  <2>1. j \in Nat /\ base <= j /\ j - base = n
    BY <1>2, <1>3
  <2> HIDE DEF j
  <2>2. \A k \in 1..(j - base) : Bytes(c, base + 1, j)[k] = <<c, base + k>>
    BY <1>1, <1>3, <2>1, BytesOf
  <2> QED  BY <1>4, <2>1, <2>2 DEF j
<1>8. SubSeq(rcv_msg, rcv_ptr + 1, i) = Bytes(c, p + 1, base + i)
  <2>1. Part(Bytes(c, base + 1, base + n), rcv_ptr + 1, i) = Bytes(c, (base + rcv_ptr) + 1, base + i)
    <3>1. /\ c \in Clients /\ base \in Nat /\ n \in Nat /\ rcv_ptr \in Nat /\ i \in Nat
          /\ rcv_ptr <= i /\ i <= n
      BY <1>1, <1>2, <1>3
    <3> DEFINE first == base + 1
               end == base + n
               from == rcv_ptr + 1
    <3>2. /\ first \in Nat \ {0} /\ end \in Nat /\ from \in Nat \ {0} /\ from <= i + 1 /\ first + i - 1 <= end
          /\ first + from - 1 = (base + rcv_ptr) + 1 /\ first + i - 1 = base + i
      BY <3>1
    <3> HIDE DEF first, end, from
    <3>3. Part(Bytes(c, first, end), from, i) = Bytes(c, first + from - 1, first + i - 1)
      BY <3>1, <3>2, PartOfBytes
    <3> QED  BY <3>2, <3>3 DEF first, end, from
  <2> QED  BY <1>2, <1>4, <2>1 DEF Part
<1>9. Copied(i) = Bytes(c, start + 1, base + i)
  <2> DEFINE q == base + i
  <2>1. q \in Nat /\ p <= q
    BY <1>2, <1>3
  <2> HIDE DEF q
  <2>2. Bytes(c, start + 1, p) \o Bytes(c, p + 1, q) = Bytes(c, start + 1, q)
    <3>1. c \in Clients /\ start \in Nat /\ p \in Nat /\ start <= p
      BY <1>1, <1>2, <1>5, <1>6
    <3> QED  BY <2>1, <3>1, BytesJoin
  <2> QED  BY <1>5, <1>8, <2>2 DEF Copied, q
<1>10. stream[c].ends \cap (start + 1)..(base + i) = {}
  <2> SUFFICES ASSUME NEW e \in stream[c].ends, e \in (p + 1)..(base + i) PROVE FALSE
    BY <1>1, <1>2, <1>3, <1>5, <1>6, StreamEnds
  <2> DEFINE j == e - base - 1
  <2>3. e \in Int /\ p + 1 <= e /\ e <= base + i
    BY <1>2, <1>3
  <2>1. j \in rcv_ptr..i-1 /\ j + 1 \in 1..n /\ base + (j + 1) = e
    <3>1. j \in Int /\ rcv_ptr <= j /\ j <= i - 1 /\ base + (j + 1) = e
      BY <1>2, <1>3, <2>3
    <3>2. rcv_ptr \in Nat /\ n \in Nat /\ i \in Nat /\ i <= n
      BY <1>2, <1>3
    <3> HIDE DEF j
    <3> QED  BY <3>1, <3>2
  <2>2. rcv_msg[j + 1] = <<c, e>>
    BY <1>7, <2>1
  <2> QED  BY <2>1, <2>2 DEF StopsAt, IsEnd
<1>11. i < n => base + i + 1 \in stream[c].ends
  <2> SUFFICES ASSUME i < n PROVE base + (i + 1) \in stream[c].ends
    BY <1>3
  <2>1. rcv_msg[i + 1] = <<c, base + (i + 1)>>
    <3>1. i + 1 \in 1..n
      BY <1>2, <1>3
    <3> QED  BY <1>7, <3>1
  <2> QED  BY <2>1 DEF StopsAt, IsEnd
<1> QED  BY <1>1, <1>2, <1>3, <1>5, <1>6, <1>9, <1>10, <1>11 DEF c, p, base, start

(* Only Copy takes bytes out of the buffer and prints.                     *)
LEMMA ConsumedStays ==
    ASSUME ReadTyped, Buffered, NEW c \in Clients, [ReadNext]_readVars, ~Copy
    PROVE  Consumed(c)' = Consumed(c) /\ printed'[c] = printed[c] /\ stream' = stream
<1>1. CASE \E k \in 1..MAX_MSG : Recv(k)
  <2> PICK k \in 1..MAX_MSG : Recv(k)
    BY <1>1
  <2>1. /\ newSd \in Clients /\ n' = k /\ k \in Nat /\ k > 0 /\ rcv_ptr = 0 /\ rcv_ptr' = 0 /\ spc = "read"
        /\ spc' = "copy" /\ newSd' = newSd /\ taken' = [taken EXCEPT ![newSd] = @ + k]
        /\ taken \in [Clients -> Nat] /\ printed' = printed /\ stream' = stream
    BY StreamsAssumption DEF Recv, ReadTyped, conns, clientVars
  <2>2. CASE c = newSd
    BY <2>1, <2>2 DEF Consumed, InBuffer
  <2>3. CASE c # newSd
    BY <2>1, <2>3 DEF Consumed, InBuffer
  <2> QED  BY <2>1, <2>2, <2>3
<1>2. CASE RecvEnd \/ RecvError \/ (\E d \in Clients : Accept(d)) \/ AcceptFails
  <2>1. /\ UNCHANGED <<taken, printed, rcv_ptr, stream>> /\ rcv_ptr = 0 /\ spc # "copy" /\ spc' # "copy"
    BY <1>2 DEF RecvEnd, RecvError, EndConnection, AtEnd, Accept, AcceptFails, clientVars, buffer, Buffered, ReadTyped
  <2> QED  BY <2>1 DEF Consumed, InBuffer
<1>3. CASE Resume
  <2>1. /\ UNCHANGED <<taken, printed, rcv_ptr, n, newSd, stream>> /\ rcv_ptr > 0
    BY <1>3 DEF Resume, clientVars, buffer
  <2> QED  BY <2>1 DEF Consumed, InBuffer
<1>4. CASE (\E d \in Clients : Connect(d) \/ SendArgument(d) \/ Exit(d)) \/ UNCHANGED readVars
  <2>1. UNCHANGED <<taken, printed, rcv_ptr, n, newSd, spc, stream>>
    BY <1>4 DEF Connect, SendArgument, Exit, readVars, clientVars, buffer
  <2> QED  BY <2>1 DEF Consumed, InBuffer
<1> QED  BY <1>1, <1>2, <1>3, <1>4 DEF ReadNext, ReadServerStep

(* Every step keeps the static buffer what recv returned last.             *)
LEMMA BufferedNext == ReadTyped /\ Buffered /\ [ReadNext]_readVars => Buffered'
<1> SUFFICES ASSUME ReadTyped, Buffered, [ReadNext]_readVars PROVE Buffered'
  OBVIOUS
<1>0. /\ \A c \in Clients : sent[c] \in Nat /\ taken[c] \in Nat /\ taken[c] <= sent[c] /\ sent[c] <= stream[c].len
      /\ sent \in [Clients -> Nat] /\ taken \in [Clients -> Nat] /\ newSd \in Clients \cup {None}
      /\ None \notin Clients /\ (newSd # None <=> spc \in {"read", "copy"})
      /\ sock \in [Clients -> {"idle", "backlog", "served", "ended", "failed"}] /\ n \in Int
  BY StreamsAssumption DEF ReadTyped, Buffered
<1>1. ASSUME NEW c \in Clients, SendArgument(c) PROVE Buffered'
  <2> PICK e \in stream[c].ends : e > sent[c] /\ sent' = [sent EXCEPT ![c] = e]
    BY <1>1 DEF SendArgument
  <2>1. e \in Nat /\ e <= stream[c].len /\ stream[c].len \in Nat
    BY StreamEnds
  <2>2. \A d \in Clients : taken[d] <= sent'[d] /\ sent'[d] <= stream[d].len
    BY <1>0, <2>1
  <2> QED  BY <1>1, <2>2 DEF SendArgument, Buffered, conns, buffer, Bytes
<1>2. ASSUME NEW c \in Clients, Connect(c) PROVE Buffered'
  BY <1>0, <1>2 DEF Connect, Buffered, clientVars, buffer, Bytes
<1>3. ASSUME NEW c \in Clients, Accept(c) PROVE Buffered'
  <2>1. newSd = None /\ rcv_ptr = 0 /\ spc' = "read"
    BY <1>0, <1>3 DEF Accept, Buffered
  <2> QED  BY <1>0, <1>3, <2>1 DEF Accept, Buffered, clientVars, buffer
<1>4. ASSUME NEW k \in 1..MAX_MSG, Recv(k) PROVE Buffered'
  <2>1. /\ newSd \in Clients /\ k \in Nat /\ k <= sent[newSd] - taken[newSd]
        /\ taken' = [taken EXCEPT ![newSd] = @ + k]
    BY <1>0, <1>4, StreamsAssumption DEF Recv
  <2>2. \A c \in Clients : taken'[c] <= sent[c] /\ taken'[c] >= taken[c] /\ taken'[c] \in Nat
    BY <1>0, <2>1
  <2>3. sock[newSd] = "served"
    BY <1>0, <2>1 DEF Buffered
  <2> QED  BY <1>0, <1>4, <2>1, <2>2, <2>3 DEF Recv, Buffered, clientVars, conns, Bytes
<1>5. CASE RecvEnd \/ RecvError
  <2>1. /\ newSd \in Clients /\ rcv_ptr = 0 /\ rcv_ptr' = 0 /\ newSd' = None
        /\ UNCHANGED <<stream, sent, taken, printed>>
        /\ \A c \in Clients : sock'[c] \in {"idle", "backlog"} => sock[c] \in {"idle", "backlog"}
    BY <1>0, <1>5 DEF RecvEnd, RecvError, EndConnection, AtEnd, clientVars
  <2> QED  BY <2>1 DEF Buffered
<1>6. CASE AcceptFails \/ Resume
  BY <1>0, <1>6 DEF AcceptFails, Resume, Buffered, clientVars, conns, buffer, Bytes
<1>7. CASE (\E c \in Clients : Exit(c)) \/ UNCHANGED readVars
  BY <1>7 DEF Exit, readVars, Buffered, clientVars, conns, buffer, Bytes
<1>8. CASE Copy
  <2>1. /\ newSd \in Clients /\ UNCHANGED <<stream, sent, taken, sock, newSd, rcv_msg, n>>
        /\ spc = "copy" /\ \A c \in Clients : c # newSd => printed'[c] = printed[c]
    BY <1>0, <1>8 DEF Copy, LastLine, MoreLines, Unfinished, Return, clientVars, conns, ReadTyped
  <2> QED  BY <1>0, <2>1 DEF Buffered, Bytes
<1> QED  BY <1>1, <1>2, <1>3, <1>4, <1>5, <1>6, <1>7, <1>8 DEF ReadNext, ReadServerStep

(* An unfinished line is shorter than the buffer.                          *)
LEMMA ShortLine ==
    ASSUME ReadTyped, NEW c \in Clients, NEW bytes \in Seq(Byte), NEW p \in Nat, p <= stream[c].len,
           Partial(c, bytes, p)
    PROVE  Len(bytes) < MAX_MSG
<1> DEFINE start == p - Len(bytes)
<1>1. /\ start \in Int /\ start <= p /\ start \in {0} \cup stream[c].ends /\ stream[c].ends \cap (start + 1)..p = {}
      /\ MAX_MSG \in Nat \ {0} /\ stream[c].len \in Nat
  BY StreamsAssumption, StreamEnds DEF Partial
<1>2. start \in Nat
  BY <1>1, StreamEnds
<1>3. ASSUME Len(bytes) >= MAX_MSG PROVE FALSE
  <2>1. start \in 0..stream[c].len - MAX_MSG /\ start + MAX_MSG <= p
    BY <1>1, <1>2, <1>3
  <2>2. PICK e \in stream[c].ends : e \in start + 1..start + MAX_MSG
    BY <2>1, StreamEnds
  <2>3. e \in (start + 1)..p
    BY <1>1, <1>2, <2>1, <2>2
  <2> QED  BY <1>1, <2>3
<1> QED  BY <1>1, <1>3

(* After read_line's loop a whole line has been printed, or the bytes to   *)
(* the end of the buffer have joined the line.                             *)
LEMMA CopyExact ==
    ASSUME ReadTyped, LinesInv, Copy
    PROVE  Reading' /\ LinesExact'
<1>1. PICK i \in 0..n : StopsAt(i) /\ (LastLine(i) \/ MoreLines(i) \/ Unfinished(i))
  BY DEF Copy
<1> DEFINE c == newSd
           p == Consumed(newSd)
           base == taken[newSd] - n
           start == p - Len(line)
           q == Consumed(newSd)'
<1>2. /\ c \in Clients /\ base \in Nat /\ p = base + rcv_ptr /\ start \in Nat /\ start <= p
      /\ rcv_ptr \in Nat /\ n \in Nat /\ i \in Nat /\ rcv_ptr <= i /\ rcv_ptr < n
      /\ start \in {0} \cup stream[c].ends
      /\ Copied(i) = Bytes(c, start + 1, base + i)
      /\ stream[c].ends \cap (start + 1)..(base + i) = {}
      /\ i < n => base + i + 1 \in stream[c].ends
  BY <1>1, CopyEffect DEF LinesInv, Copy
<1>3. /\ UNCHANGED <<stream, taken, newSd, n>> /\ spc' = "read" /\ spc = "copy"
      /\ taken \in [Clients -> Nat] /\ printed \in [Clients -> Seq(Seq(Byte))]
  BY <1>1 DEF Copy, LastLine, MoreLines, Unfinished, Return, clientVars, conns, ReadTyped
<1>4. /\ taken[c] \in Nat /\ taken[c] <= stream[c].len /\ base + n = taken[c]
  <2>1. taken[c] <= sent[c] /\ sent[c] <= stream[c].len /\ sent[c] \in Nat /\ stream[c].len \in Nat
    BY <1>2, StreamEnds DEF LinesInv, Buffered, ReadTyped
  <2>2. taken[c] \in Nat /\ n \in Nat /\ (taken[c] - n) + n = taken[c]
    BY <1>2, <1>3
  <2> HIDE DEF p, start, q
  <2> QED  BY <2>1, <2>2
<1>5. /\ Exact(c, printed[c], p) /\ \A d \in Clients : Exact(d, printed[d], Consumed(d))
      /\ Len(line) < MAX_MSG
  BY <1>2 DEF LinesInv, LinesExact, Exact
<1>6. \A d \in Clients : d # c => Consumed(d)' = Consumed(d) /\ printed'[d] = printed[d]
  BY <1>1, <1>3 DEF Consumed, InBuffer, LastLine, MoreLines, Unfinished, Return
<1>7. ASSUME Exact(c, printed'[c], q), Partial(c, line', q), Len(line') < MAX_MSG
      PROVE  Reading' /\ LinesExact'
  <2>1. \A d \in Clients : Exact(d, printed'[d], Consumed(d)')
    <3> SUFFICES ASSUME NEW d \in Clients PROVE Exact(d, printed'[d], Consumed(d)')
      OBVIOUS
    <3>1. CASE d = c
      <4>1. q = Consumed(d)'
        BY <1>3, <3>1 DEF Consumed, InBuffer
      <4> HIDE DEF q
      <4> QED  BY <1>7, <3>1, <4>1
    <3>2. CASE d # c
      BY <1>5, <1>6, <3>2
    <3> QED  BY <3>1, <3>2
  <2>2. LinesExact'
    <3>1. \A d \in Clients : \A e : LineEndingAt(d, e)' = LineEndingAt(d, e)
      BY <1>3, SameLines
    <3> QED  BY <1>3, <1>7, <2>1, <3>1 DEF LinesExact, Exact
  <2>3. Reading'
    BY <1>3, <1>7 DEF Reading, Partial, Bytes
  <2> QED  BY <2>2, <2>3
<1>8. CASE LastLine(i) \/ MoreLines(i)
  <2>1. q = base + i + 1 /\ i < n /\ Return(i)
    <3>1. CASE LastLine(i)
      BY <1>2, <1>3, <1>4, <3>1 DEF LastLine, Consumed, InBuffer
    <3>2. CASE MoreLines(i)
      BY <1>2, <1>3, <1>4, <3>2 DEF MoreLines, Consumed, InBuffer
    <3> QED  BY <1>8, <3>1, <3>2
  <2>2. printed' = [printed EXCEPT ![c] = Append(@, Copied(i))] /\ line' = <<>>
    BY <2>1 DEF Return
  <2> HIDE DEF p, q, start, base
  <2>3. q \in stream[c].ends /\ q \in Nat /\ p < q /\ start < q /\ q - 1 = base + i /\ p \in Nat
    BY <1>2, <2>1
  <2>4. Copied(i) = LineEndingAt(c, q)
    BY <1>2, <2>3, LineFrom
  <2>5. Copied(i) \in Seq(Byte)
    <3>1. q - 1 \in Nat /\ start <= q - 1
      BY <2>3, <1>2
    <3> DEFINE j == q - 1
    <3> HIDE DEF j
    <3>2. Bytes(c, start + 1, j) \in Seq(Byte)
      BY <1>2, <3>1, BytesOf DEF j
    <3> QED  BY <1>2, <2>3, <3>2 DEF j
  <2>6. stream[c].ends \cap (p + 1)..(q - 1) = {}
    BY <1>2, <2>3
  <2>7. Exact(c, Append(printed[c], Copied(i)), q)
    BY <1>2, <1>3, <1>5, <2>3, <2>4, <2>5, <2>6, ExactNext
  <2>8. Partial(c, <<>>, q)
    <3>1. Len(<<>>) = 0 /\ q - 0 = q /\ (q + 1)..q = {} /\ Bytes(c, q + 1, q) = <<>>
      BY <2>3 DEF Bytes
    <3> QED  BY <2>3, <3>1 DEF Partial
  <2>9. printed'[c] = Append(printed[c], Copied(i)) /\ Len(line') < MAX_MSG
    BY <1>2, <1>3, <2>2, StreamsAssumption
  <2> QED  BY <1>7, <2>2, <2>7, <2>8, <2>9
<1>9. CASE Unfinished(i)
  <2>1. q = base + i /\ i = n /\ line' = Copied(i) /\ printed' = printed
    BY <1>2, <1>3, <1>4, <1>9 DEF Unfinished, Consumed, InBuffer
  <2> HIDE DEF p, q, start, base
  <2>2. q \in Nat /\ p \in Nat /\ p <= q /\ start <= q /\ q <= stream[c].len
    BY <1>2, <1>4, <2>1
  <2>8. line' = Bytes(c, start + 1, q)
    BY <1>2, <2>1
  <2>9. c \in Clients /\ start \in Nat
    BY <1>2
  <2>3. line' = Bytes(c, start + 1, q) /\ line' \in Seq(Byte) /\ Len(line') = q - start
    BY <2>2, <2>8, <2>9, BytesOf
  <2>4. stream[c].ends \cap (p + 1)..q = {}
    BY <1>2, <2>1, <2>2
  <2>5. Exact(c, printed[c], q)
    BY <1>2, <1>5, <2>2, <2>4, ExactStill
  <2>6. Partial(c, line', q)
    <3>1. q - Len(line') = start
      BY <1>2, <2>2, <2>3
    <3> QED  BY <1>2, <2>1, <2>2, <2>3, <3>1 DEF Partial
  <2>7. Len(line') < MAX_MSG
    BY <1>2, <2>2, <2>3, <2>6, ShortLine
  <2> QED  BY <1>7, <2>1, <2>5, <2>6, <2>7
<1> QED  BY <1>1, <1>8, <1>9

(* Every step keeps the lines exact.                                       *)
LEMMA LinesInvNext == ReadTyped /\ LinesInv /\ [ReadNext]_readVars => LinesInv'
<1> SUFFICES ASSUME ReadTyped, LinesInv, [ReadNext]_readVars PROVE LinesInv'
  OBVIOUS
<1>1. Buffered'
  BY BufferedNext DEF LinesInv
<1>2. ReadTyped'
  BY ReadTypedNext
<1>3. CASE Copy
  BY <1>1, <1>3, CopyExact DEF LinesInv
<1>4. CASE ~Copy
  <2>1. /\ \A c \in Clients : Consumed(c)' = Consumed(c) /\ printed'[c] = printed[c]
        /\ stream' = stream
    <3>1. CASE Clients = {}
      BY <1>4, <3>1 DEF ReadNext, ReadServerStep, Recv, RecvEnd, RecvError, EndConnection, AtEnd, AcceptFails, Resume,
         clientVars, readVars
    <3>2. CASE Clients # {}
      BY <1>4, <3>2, ConsumedStays DEF LinesInv
    <3> QED  BY <3>1, <3>2
  <2>2. \A c \in Clients : Exact(c, printed'[c], Consumed(c)')
    BY <2>1 DEF LinesInv, LinesExact, Exact
  <2>3. Len(line') < MAX_MSG /\ Reading'
    <3>1. ASSUME NEW c \in Clients, Accept(c) PROVE Len(line') < MAX_MSG /\ Reading'
      <4>1. line' = <<>> /\ newSd' = c /\ Consumed(c) = 0 /\ Len(<<>>) = 0
        <5>1. rcv_ptr = 0 /\ taken[c] = 0 /\ spc # "copy"
          BY <3>1 DEF Accept, LinesInv, Buffered, ReadTyped
        <5> QED  BY <3>1, <5>1 DEF Accept, Consumed, InBuffer
      <4>2. Consumed(newSd)' = 0
        BY <2>1, <4>1 DEF Consumed, InBuffer
      <4>3. Bytes(c, 1, 0) = <<>>
        BY DEF Bytes
      <4>4. Consumed(newSd)' - Len(line') = 0 /\ line' = Bytes(c, 0 + 1, 0) /\ (stream'[c].ends \cap (0 + 1)..0) = {}
        <5>1. 0 + 1 = 1 /\ (stream'[c].ends \cap (0 + 1)..0) = {}
          OBVIOUS
        <5>2. Len(line') = 0
          BY <4>1
        <5>3. Consumed(newSd)' - Len(line') = 0
          BY <4>2, <5>2
        <5>4. line' = Bytes(c, 0 + 1, 0)
          BY <4>1, <4>3, <5>1
        <5> QED  BY <5>1, <5>3, <5>4
      <4>5. Partial(newSd, line, Consumed(newSd))'
        BY <4>1, <4>2, <4>4 DEF Partial
      <4> QED  BY <4>1, <4>5, StreamsAssumption DEF Reading
    <3>2. ASSUME line' = line, newSd' = None PROVE Len(line') < MAX_MSG /\ Reading'
      BY <3>2 DEF Reading, LinesInv, LinesExact
    <3>3. ASSUME line' = line, newSd' = newSd PROVE Len(line') < MAX_MSG /\ Reading'
      <4>1. CASE newSd \in Clients
        <5>1. Consumed(newSd)' = Consumed(newSd)
          BY <2>1, <3>3, <4>1 DEF Consumed, InBuffer
        <5> QED  BY <2>1, <3>3, <5>1 DEF Reading, Partial, Bytes, LinesInv, LinesExact
      <4>2. CASE newSd = None
        BY <3>3, <4>2 DEF Reading, LinesInv, LinesExact
      <4> QED  BY <4>1, <4>2 DEF ReadTyped
    <3>4. \/ \E c \in Clients : Accept(c)
          \/ line' = line /\ (newSd' = None \/ newSd' = newSd)
      BY <1>4 DEF ReadNext, ReadServerStep, Recv, RecvEnd, RecvError, EndConnection, AcceptFails, Resume,
         Connect, SendArgument, Exit, readVars
    <3> QED  BY <3>1, <3>2, <3>3, <3>4
  <2>4. spc' = "accept" => rcv_ptr' = 0
    BY <1>1, <1>2 DEF Buffered, ReadTyped
  <2>5. \A d \in Clients : \A e : LineEndingAt(d, e)' = LineEndingAt(d, e)
    BY <2>1, SameLines
  <2>6. LinesExact'
    BY <2>1, <2>2, <2>3, <2>4, <2>5 DEF LinesExact, Exact
  <2> QED  BY <1>1, <2>3, <2>6 DEF LinesInv
<1> QED  BY <1>3, <1>4

(* However TCP cuts the stream, main of tcpServer.c prints exactly the     *)
(* lines a client has sent and read_line has taken, in order, none cut,    *)
(* joined, lost, repeated or mixed with another connection's, and its line *)
(* is not overrun by lines shorter than MAX_MSG.                           *)
THEOREM LinesCorrect == ReadSpec => []LinesExact
<1>1. ReadInit => ReadTyped /\ LinesInv
  <2> SUFFICES ASSUME ReadInit PROVE ReadTyped /\ LinesInv
    OBVIOUS
  <2>1. ReadTyped
    BY ReadTypedInit
  <2>2. Buffered /\ Reading
    BY <2>1, StreamEnds DEF ReadInit, Buffered, Reading
  <2>3. ASSUME NEW c \in Clients PROVE Consumed(c) = 0 /\ printed[c] = <<>>
    BY DEF ReadInit, Consumed, InBuffer
  <2>4. \A c \in Clients : stream[c].ends \cap 1..0 = {}
    OBVIOUS
  <2>5. ASSUME NEW c \in Clients PROVE Exact(c, printed[c], Consumed(c))
    <3>1. stream[c].ends \cap 1..Consumed(c) = {} /\ Len(printed[c]) = 0
      BY <2>3, <2>4
    <3> QED  BY <3>1, FS_EmptySet DEF Exact
  <2>6. rcv_ptr = 0 /\ Len(line) < MAX_MSG
    BY StreamsAssumption DEF ReadInit
  <2>7. LinesExact
    BY <2>5, <2>6 DEF LinesExact, Exact
  <2> QED  BY <2>1, <2>2, <2>7 DEF LinesInv
<1>2. ReadTyped /\ LinesInv /\ [ReadNext]_readVars => ReadTyped' /\ LinesInv'
  BY ReadTypedNext, LinesInvNext
<1>3. LinesInv => LinesExact
  BY DEF LinesInv
<1> QED  BY <1>1, <1>2, <1>3, PTL DEF ReadSpec
=============================================================================
