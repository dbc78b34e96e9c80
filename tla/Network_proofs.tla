--------------------------- MODULE Network_proofs ----------------------------
(***************************************************************************)
(* Proofs about the laboratory programs of Exp01 and Exp06.  For every     *)
(* payload, bit and byte stuffing give back what they framed.  In every    *)
(* network, the tables of distance vector and in the end the routes of     *)
(* Dijkstra's search cost what a shortest path does.                       *)
(***************************************************************************)
EXTENDS Coding, Routing, SequenceTheorems, DataLemmas, TLAPS

-----------------------------------------------------------------------------
(* bit_stuffing.c and byte_stuffing.c.                                     *)

(* What a scan of a payload has written so far, and its counters.          *)
Scans(A) == [out : Seq(A), count : 0..4, skip : BOOLEAN]

(* The states of a scan from its start to its result.                      *)
Scan(acc, data, result) == acc[0] = Unset /\ acc[Len(data)].out = result

(* Every symbol read leaves such a state.                                  *)
LEMMA ScansKept ==
    /\ \A s \in Scans({0, 1}), b \in {0, 1} : Stuffed(s, b) \in Scans({0, 1}) /\ Unstuffed(s, b, 5) \in Scans({0, 1})
    /\ \A A : \A s \in Scans(A), c \in A : Unescaped(s, c) \in Scans(A)
<1>1. ASSUME NEW A, NEW s \in Scans(A), NEW c \in A, NEW k \in 0..4 PROVE Put(s, c, k) \in Scans(A)
  <2>1. s.out \in Seq(A)
    BY DEF Scans
  <2>2. Append(s.out, c) \in Seq(A)
    BY <2>1, AppendProperties
  <2> QED  BY <2>2 DEF Put, Scans
<1>2. ASSUME NEW A, NEW s \in Scans(A)
      PROVE  Skip(s, TRUE) \in Scans(A) /\ Skip(s, FALSE) \in Scans(A)
  BY DEF Scans, Skip
<1>3. \A A : \A s \in Scans(A) : s.count \in 0..4
  BY DEF Scans
<1>4. ASSUME NEW s \in Scans({0, 1}), NEW b \in {0, 1}
      PROVE  Stuffed(s, b) \in Scans({0, 1}) /\ Unstuffed(s, b, 5) \in Scans({0, 1})
  <2>1. /\ Put(s, 0, 0) \in Scans({0, 1}) /\ Put(s, 1, 0) \in Scans({0, 1})
        /\ Put(Put(s, 1, 0), 0, 0) \in Scans({0, 1})
        /\ s.count < 4 => Put(s, 1, s.count + 1) \in Scans({0, 1})
    <3>1. Put(s, 0, 0) \in Scans({0, 1}) /\ Put(s, 1, 0) \in Scans({0, 1})
      BY <1>1
    <3>2. Put(Put(s, 1, 0), 0, 0) \in Scans({0, 1})
      BY <1>1, <3>1
    <3>3. ASSUME s.count < 4 PROVE Put(s, 1, s.count + 1) \in Scans({0, 1})
      <4>1. s.count + 1 \in 0..4
        BY <1>3, <3>3
      <4> QED  BY <1>1, <4>1
    <3> QED  BY <3>1, <3>2, <3>3
  <2>2. Stuffed(s, b) \in Scans({0, 1})
    BY <2>1 DEF Stuffed
  <2>3. Unstuffed(s, b, 5) \in Scans({0, 1})
    <3>1. /\ Skip(s, FALSE) \in Scans({0, 1})
          /\ Skip(Put(s, 1, 0), TRUE) \in Scans({0, 1})
      BY <1>2, <2>1
    <3>2. s.count < 5 - 1 <=> s.count < 4
      OBVIOUS
    <3> QED  BY <2>1, <3>1, <3>2 DEF Unstuffed
  <2> QED  BY <2>2, <2>3
<1>5. ASSUME NEW A, NEW s \in Scans(A), NEW c \in A PROVE Unescaped(s, c) \in Scans(A)
  <2>1. Put(s, c, 0) \in Scans(A)
    <3>1. 0 \in 0..4
      OBVIOUS
    <3> QED  BY <1>1, <3>1
  <2>2. Skip(s, TRUE) \in Scans(A)
    BY <1>2
  <2> QED  BY <2>1, <2>2 DEF Unescaped
<1> QED  BY <1>4, <1>5

(* The states of the scan in bit_stuff.                                    *)
LEMMA StuffSteps ==
    ASSUME NEW data \in Seq({0, 1})
    PROVE  \E acc \in [0..Len(data) -> Scans({0, 1})] :
              /\ Scan(acc, data, bit_stuff(data))
              /\ \A k \in 1..Len(data) : acc[k] = Stuffed(acc[k - 1], data[k])
<1> DEFINE n == Len(data)
           V == Scans({0, 1})
           next == [q \in V \X (1..n) |-> Stuffed(q[1], data[q[2]])]
           Eq(it) == it = [s \in SUBSET (1..n) |-> IF s = {} THEN Unset
                           ELSE LET x == Max(s) IN Stuffed(it[s \ {x}], data[x])]
<1>1. n \in Nat /\ Unset \in V /\ \A k \in 1..n : data[k] \in {0, 1}
  BY SeqTypes, EmptySeq DEF Unset, Scans
<1>2. ASSUME NEW v \in V, NEW k \in 1..n
      PROVE  Stuffed(v, data[k]) \in V /\ next[<<v, k>>] = Stuffed(v, data[k])
  <2>1. Stuffed(v, data[k]) \in V
    <3> HIDE DEF n
    <3> QED  BY <1>1, ScansKept
  <2>2. <<v, k>> \in V \X (1..n)
    OBVIOUS
  <2> HIDE DEF n, V
  <2> QED  BY <2>1, <2>2
<1>3. next \in [V \X (1..n) -> V]
  <2>1. \A q \in V \X (1..n) : Stuffed(q[1], data[q[2]]) \in V
    BY <1>2
  <2> HIDE DEF n, V
  <2> QED  BY <2>1
<1>4. bit_stuff(data) = ((CHOOSE it : Eq(it))[1..n]).out
  <2>1. DOMAIN data = 1..n
    OBVIOUS
  <2> HIDE DEF n
  <2>2. bit_stuff(data) = ((CHOOSE it : it = [s \in SUBSET (DOMAIN data) |->
            IF s = {} THEN Unset
            ELSE LET x == Max(s) IN Stuffed(it[s \ {x}], data[x])])[DOMAIN data]).out
    BY DEF bit_stuff, FoldLeft, MapThenFoldSet
  <2> QED  BY <2>1, <2>2
<1> HIDE DEF n, V, next
<1>5. \A s \in SUBSET (1..n) : s # {} => Max(s) \in s
  BY <1>1, MaxIn
<1>6. \E it : Eq(it)
  <2>1. PICK it \in [SUBSET (1..n) -> V] : IsFold(it, n, Unset, next)
    BY <1>1, <1>3, FoldExists
  <2> DEFINE one(s) == IF s = {} THEN Unset ELSE LET x == Max(s) IN next[<<it[s \ {x}], x>>]
             two(s) == IF s = {} THEN Unset ELSE LET x == Max(s) IN Stuffed(it[s \ {x}], data[x])
  <2>2. ASSUME NEW s \in SUBSET (1..n) PROVE one(s) = two(s)
    <3>1. CASE s # {}
      <4>1. Max(s) \in 1..n /\ it[s \ {Max(s)}] \in V
        BY <1>5, <2>1, <3>1
      <4> QED  BY <1>2, <3>1, <4>1
    <3> QED  BY <3>1
  <2>3. it = [s \in SUBSET (1..n) |-> one(s)]
    BY <2>1 DEF IsFold
  <2> HIDE DEF one, two
  <2>4. it = [s \in SUBSET (1..n) |-> two(s)]
    BY <2>2, <2>3
  <2> QED  BY <2>4 DEF two
<1> DEFINE it == CHOOSE it : Eq(it)
<1>7. Eq(it)
  <2> HIDE DEF Eq
  <2> QED  BY <1>6
<1>8. \A s \in SUBSET (1..n) : it[s] = IF s = {} THEN Unset ELSE Stuffed(it[s \ {Max(s)}], data[Max(s)])
  <2> HIDE DEF it
  <2> QED  BY <1>7
<1>9. bit_stuff(data) = (it[1..n]).out
  BY <1>4
<1> HIDE DEF it, Eq
<1>10. Folds(it, n, V, Unset, next)
  <2>1. it[{}] = Unset
    BY <1>8
  <2>2. ASSUME NEW k \in 1..n, it[1..(k - 1)] \in V PROVE it[1..k] = next[<<it[1..(k - 1)], k>>]
    <3>1. Max(1..k) = k /\ (1..k) \ {k} = 1..(k - 1) /\ 1..k \in SUBSET (1..n) /\ 1..k # {}
      BY <1>1, MaxUpto
    <3>2. it[1..k] = Stuffed(it[1..(k - 1)], data[k])
      BY <1>8, <3>1
    <3> QED  BY <1>2, <2>2, <3>2
  <2> QED  BY <1>1, <1>3, <2>1, <2>2 DEF Folds
<1>11. PICK acc : AreSteps(acc, n, V, Unset, next) /\ acc[n] = it[1..n]
  BY <1>1, <1>10, FoldSteps
<1>12. ASSUME NEW k \in 1..n PROVE acc[k] = Stuffed(acc[k - 1], data[k])
  <2>1. k - 1 \in 0..n
    BY <1>1
  <2>2. acc[k - 1] \in V /\ acc[k] = next[<<acc[k - 1], k>>]
    BY <1>11, <2>1 DEF AreSteps
  <2> QED  BY <1>2, <2>2
<1> QED  BY <1>9, <1>11, <1>12 DEF AreSteps, Scan, n, V

(* The states of the scan in bit_unstuff.                                  *)
LEMMA UnstuffSteps ==
    ASSUME NEW data \in Seq({0, 1})
    PROVE  \E acc \in [0..Len(data) -> Scans({0, 1})] :
              /\ Scan(acc, data, bit_unstuff(data))
              /\ \A k \in 1..Len(data) : acc[k] = Unstuffed(acc[k - 1], data[k], 5)
<1> DEFINE n == Len(data)
           V == Scans({0, 1})
           next == [q \in V \X (1..n) |-> Unstuffed(q[1], data[q[2]], 5)]
           Eq(it) == it = [s \in SUBSET (1..n) |-> IF s = {} THEN Unset
                           ELSE LET x == Max(s) IN Unstuffed(it[s \ {x}], data[x], 5)]
<1>1. n \in Nat /\ Unset \in V /\ \A k \in 1..n : data[k] \in {0, 1}
  BY SeqTypes, EmptySeq DEF Unset, Scans
<1>2. ASSUME NEW v \in V, NEW k \in 1..n
      PROVE  Unstuffed(v, data[k], 5) \in V /\ next[<<v, k>>] = Unstuffed(v, data[k], 5)
  <2>1. Unstuffed(v, data[k], 5) \in V
    <3> HIDE DEF n
    <3> QED  BY <1>1, ScansKept
  <2>2. <<v, k>> \in V \X (1..n)
    OBVIOUS
  <2> HIDE DEF n, V
  <2> QED  BY <2>1, <2>2
<1>3. next \in [V \X (1..n) -> V]
  <2>1. \A q \in V \X (1..n) : Unstuffed(q[1], data[q[2]], 5) \in V
    BY <1>2
  <2> HIDE DEF n, V
  <2> QED  BY <2>1
<1>4. bit_unstuff(data) = ((CHOOSE it : Eq(it))[1..n]).out
  <2>1. DOMAIN data = 1..n
    OBVIOUS
  <2> HIDE DEF n
  <2>2. bit_unstuff(data) = ((CHOOSE it : it = [s \in SUBSET (DOMAIN data) |->
            IF s = {} THEN Unset
            ELSE LET x == Max(s) IN Unstuffed(it[s \ {x}], data[x], 5)])[DOMAIN data]).out
    BY DEF bit_unstuff, FoldLeft, MapThenFoldSet
  <2> QED  BY <2>1, <2>2
<1> HIDE DEF n, V, next
<1>5. \A s \in SUBSET (1..n) : s # {} => Max(s) \in s
  BY <1>1, MaxIn
<1>6. \E it : Eq(it)
  <2>1. PICK it \in [SUBSET (1..n) -> V] : IsFold(it, n, Unset, next)
    BY <1>1, <1>3, FoldExists
  <2> DEFINE one(s) == IF s = {} THEN Unset ELSE LET x == Max(s) IN next[<<it[s \ {x}], x>>]
             two(s) == IF s = {} THEN Unset ELSE LET x == Max(s) IN Unstuffed(it[s \ {x}], data[x], 5)
  <2>2. ASSUME NEW s \in SUBSET (1..n) PROVE one(s) = two(s)
    <3>1. CASE s # {}
      <4>1. Max(s) \in 1..n /\ it[s \ {Max(s)}] \in V
        BY <1>5, <2>1, <3>1
      <4> QED  BY <1>2, <3>1, <4>1
    <3> QED  BY <3>1
  <2>3. it = [s \in SUBSET (1..n) |-> one(s)]
    BY <2>1 DEF IsFold
  <2> HIDE DEF one, two
  <2>4. it = [s \in SUBSET (1..n) |-> two(s)]
    BY <2>2, <2>3
  <2> QED  BY <2>4 DEF two
<1> DEFINE it == CHOOSE it : Eq(it)
<1>7. Eq(it)
  <2> HIDE DEF Eq
  <2> QED  BY <1>6
<1>8. \A s \in SUBSET (1..n) : it[s] = IF s = {} THEN Unset ELSE Unstuffed(it[s \ {Max(s)}], data[Max(s)], 5)
  <2> HIDE DEF it
  <2> QED  BY <1>7
<1>9. bit_unstuff(data) = (it[1..n]).out
  BY <1>4
<1> HIDE DEF it, Eq
<1>10. Folds(it, n, V, Unset, next)
  <2>1. it[{}] = Unset
    BY <1>8
  <2>2. ASSUME NEW k \in 1..n, it[1..(k - 1)] \in V PROVE it[1..k] = next[<<it[1..(k - 1)], k>>]
    <3>1. Max(1..k) = k /\ (1..k) \ {k} = 1..(k - 1) /\ 1..k \in SUBSET (1..n) /\ 1..k # {}
      BY <1>1, MaxUpto
    <3>2. it[1..k] = Unstuffed(it[1..(k - 1)], data[k], 5)
      BY <1>8, <3>1
    <3> QED  BY <1>2, <2>2, <3>2
  <2> QED  BY <1>1, <1>3, <2>1, <2>2 DEF Folds
<1>11. PICK acc : AreSteps(acc, n, V, Unset, next) /\ acc[n] = it[1..n]
  BY <1>1, <1>10, FoldSteps
<1>12. ASSUME NEW k \in 1..n PROVE acc[k] = Unstuffed(acc[k - 1], data[k], 5)
  <2>1. k - 1 \in 0..n
    BY <1>1
  <2>2. acc[k - 1] \in V /\ acc[k] = next[<<acc[k - 1], k>>]
    BY <1>11, <2>1 DEF AreSteps
  <2> QED  BY <1>2, <2>2
<1> QED  BY <1>9, <1>11, <1>12 DEF AreSteps, Scan, n, V

(* The states of the scan in byte_unstuff.                                 *)
LEMMA UnescapeSteps ==
    ASSUME NEW A, NEW data \in Seq(A)
    PROVE  \E acc \in [0..Len(data) -> Scans(A)] :
              /\ Scan(acc, data, byte_unstuff(data))
              /\ \A k \in 1..Len(data) : acc[k] = Unescaped(acc[k - 1], data[k])
<1> DEFINE n == Len(data)
           V == Scans(A)
           next == [q \in V \X (1..n) |-> Unescaped(q[1], data[q[2]])]
           Eq(it) == it = [s \in SUBSET (1..n) |-> IF s = {} THEN Unset
                           ELSE LET x == Max(s) IN Unescaped(it[s \ {x}], data[x])]
<1>1. n \in Nat /\ Unset \in V /\ \A k \in 1..n : data[k] \in A
  BY SeqTypes, EmptySeq DEF Unset, Scans
<1>2. ASSUME NEW v \in V, NEW k \in 1..n
      PROVE  Unescaped(v, data[k]) \in V /\ next[<<v, k>>] = Unescaped(v, data[k])
  <2>1. Unescaped(v, data[k]) \in V
    <3> HIDE DEF n
    <3> QED  BY <1>1, ScansKept
  <2>2. <<v, k>> \in V \X (1..n)
    OBVIOUS
  <2> HIDE DEF n, V
  <2> QED  BY <2>1, <2>2
<1>3. next \in [V \X (1..n) -> V]
  <2>1. \A q \in V \X (1..n) : Unescaped(q[1], data[q[2]]) \in V
    BY <1>2
  <2> HIDE DEF n, V
  <2> QED  BY <2>1
<1>4. byte_unstuff(data) = ((CHOOSE it : Eq(it))[1..n]).out
  <2>1. DOMAIN data = 1..n
    OBVIOUS
  <2> HIDE DEF n
  <2>2. byte_unstuff(data) = ((CHOOSE it : it = [s \in SUBSET (DOMAIN data) |->
            IF s = {} THEN Unset
            ELSE LET x == Max(s) IN Unescaped(it[s \ {x}], data[x])])[DOMAIN data]).out
    BY DEF byte_unstuff, FoldLeft, MapThenFoldSet
  <2> QED  BY <2>1, <2>2
<1> HIDE DEF n, V, next
<1>5. \A s \in SUBSET (1..n) : s # {} => Max(s) \in s
  BY <1>1, MaxIn
<1>6. \E it : Eq(it)
  <2>1. PICK it \in [SUBSET (1..n) -> V] : IsFold(it, n, Unset, next)
    BY <1>1, <1>3, FoldExists
  <2> DEFINE one(s) == IF s = {} THEN Unset ELSE LET x == Max(s) IN next[<<it[s \ {x}], x>>]
             two(s) == IF s = {} THEN Unset ELSE LET x == Max(s) IN Unescaped(it[s \ {x}], data[x])
  <2>2. ASSUME NEW s \in SUBSET (1..n) PROVE one(s) = two(s)
    <3>1. CASE s # {}
      <4>1. Max(s) \in 1..n /\ it[s \ {Max(s)}] \in V
        BY <1>5, <2>1, <3>1
      <4> QED  BY <1>2, <3>1, <4>1
    <3> QED  BY <3>1
  <2>3. it = [s \in SUBSET (1..n) |-> one(s)]
    BY <2>1 DEF IsFold
  <2> HIDE DEF one, two
  <2>4. it = [s \in SUBSET (1..n) |-> two(s)]
    BY <2>2, <2>3
  <2> QED  BY <2>4 DEF two
<1> DEFINE it == CHOOSE it : Eq(it)
<1>7. Eq(it)
  <2> HIDE DEF Eq
  <2> QED  BY <1>6
<1>8. \A s \in SUBSET (1..n) : it[s] = IF s = {} THEN Unset ELSE Unescaped(it[s \ {Max(s)}], data[Max(s)])
  <2> HIDE DEF it
  <2> QED  BY <1>7
<1>9. byte_unstuff(data) = (it[1..n]).out
  BY <1>4
<1> HIDE DEF it, Eq
<1>10. Folds(it, n, V, Unset, next)
  <2>1. it[{}] = Unset
    BY <1>8
  <2>2. ASSUME NEW k \in 1..n, it[1..(k - 1)] \in V PROVE it[1..k] = next[<<it[1..(k - 1)], k>>]
    <3>1. Max(1..k) = k /\ (1..k) \ {k} = 1..(k - 1) /\ 1..k \in SUBSET (1..n) /\ 1..k # {}
      BY <1>1, MaxUpto
    <3>2. it[1..k] = Unescaped(it[1..(k - 1)], data[k])
      BY <1>8, <3>1
    <3> QED  BY <1>2, <2>2, <3>2
  <2> QED  BY <1>1, <1>3, <2>1, <2>2 DEF Folds
<1>11. PICK acc : AreSteps(acc, n, V, Unset, next) /\ acc[n] = it[1..n]
  BY <1>1, <1>10, FoldSteps
<1>12. ASSUME NEW k \in 1..n PROVE acc[k] = Unescaped(acc[k - 1], data[k])
  <2>1. k - 1 \in 0..n
    BY <1>1
  <2>2. acc[k - 1] \in V /\ acc[k] = next[<<acc[k - 1], k>>]
    BY <1>11, <2>1 DEF AreSteps
  <2> QED  BY <1>2, <2>2
<1> QED  BY <1>9, <1>11, <1>12 DEF AreSteps, Scan, n, V

(* b goes on from where a ends.                                            *)
Extends(b, a) == Len(a) <= Len(b) /\ \A p \in 1..Len(a) : b[p] = a[p]

(* Of sequences that grow, the last goes on from each.                     *)
LEMMA ExtendsAll ==
    ASSUME NEW A, NEW n \in Nat, NEW pre \in [0..n -> Seq(A)], \A k \in 1..n : Extends(pre[k], pre[k - 1])
    PROVE  \A k \in 0..n : Extends(pre[n], pre[k])
<1> DEFINE S == {j \in Nat : j <= n => Extends(pre[n], pre[n - j])}
<1>1. 0 \in S
  <2>1. n - 0 = n /\ n \in 0..n /\ Len(pre[n]) \in Nat
    OBVIOUS
  <2> QED  BY <2>1 DEF Extends
<1>2. ASSUME NEW j \in Nat, j \in S PROVE j + 1 \in S
  <2> SUFFICES ASSUME j + 1 <= n PROVE Extends(pre[n], pre[n - (j + 1)])
    OBVIOUS
  <2> DEFINE k == n - j
  <2>1. k \in 1..n /\ k - 1 = n - (j + 1) /\ k \in 0..n /\ k - 1 \in 0..n
    OBVIOUS
  <2>2. Extends(pre[n], pre[k])
    BY <1>2
  <2> HIDE DEF k, S
  <2>3. Extends(pre[k], pre[k - 1])
    BY <2>1
  <2>4. Len(pre[k - 1]) \in Nat /\ Len(pre[k]) \in Nat /\ Len(pre[n]) \in Nat
    BY <2>1
  <2>5. Extends(pre[n], pre[k - 1])
    BY <2>2, <2>3, <2>4 DEF Extends
  <2> QED  BY <2>1, <2>5
<1>3. S = Nat
  <2>1. S \in SUBSET Nat
    OBVIOUS
  <2> HIDE DEF S
  <2> QED  BY <1>1, <1>2, <2>1, NatInduct
<1>4. ASSUME NEW k \in 0..n PROVE Extends(pre[n], pre[k])
  <2>1. n - k \in Nat /\ n - k <= n /\ n - (n - k) = k
    OBVIOUS
  <2>2. n - k \in S
    <3> HIDE DEF S
    <3> QED  BY <1>3, <2>1
  <2> QED  BY <2>1, <2>2
<1> QED  BY <1>4

(* One more symbol.                                                        *)
LEMMA Appended ==
    ASSUME NEW A, NEW o \in Seq(A), NEW b \in A
    PROVE  /\ Append(o, b) \in Seq(A) /\ Len(Append(o, b)) = Len(o) + 1 /\ Len(o) \in Nat
           /\ Append(o, b)[Len(o) + 1] = b /\ Extends(Append(o, b), o)
<1>1. /\ Append(o, b) \in Seq(A) /\ Len(Append(o, b)) = Len(o) + 1 /\ Len(o) \in Nat
      /\ Append(o, b)[Len(o) + 1] = b /\ \A p \in 1..Len(o) : Append(o, b)[p] = o[p]
  BY AppendProperties, LenProperties
<1> QED  BY <1>1 DEF Extends

(* The part of a sequence up to k, and up to k + 1.                        *)
LEMMA UptoNext ==
    ASSUME NEW A, NEW data \in Seq(A), NEW k \in Nat, k + 1 <= Len(data)
    PROVE  SubSeq(data, 1, k + 1) = Append(SubSeq(data, 1, k), data[k + 1])
<1>1. Len(data) \in Nat /\ k + 1 \in 1..Len(data) /\ (k + 1) - 1 = k
  BY LenProperties
<1>2. SubSeq(data, 1, k + 1) = SubSeq(data, 1, k) \o <<data[k + 1]>>
  <2>1. 1 \in 1..Len(data)
    BY <1>1
  <2> QED  BY <1>1, <2>1, SubSeqRecursiveSecond
<1>3. SubSeq(data, 1, k) \in Seq(A) /\ data[k + 1] \in A
  <2>1. \A i \in 1..(k + 1) : data[i] \in A
    BY <1>1, ElementOfSeq
  <2> QED  BY <1>1, <2>1, SubSeqProperties
<1>4. Append(SubSeq(data, 1, k), data[k + 1]) = SubSeq(data, 1, k) \o <<data[k + 1]>>
  BY <1>3, AppendIsConcat
<1> QED  BY <1>2, <1>4

-----------------------------------------------------------------------------
(* Bits.  There are never six ones in a row, and o ends with exactly c.    *)
ShortRuns(o, c) ==
    /\ \A p \in 1..(Len(o) - 5) : \E q \in p..(p + 5) : o[q] = 0
    /\ c <= Len(o) /\ (c < Len(o) => o[Len(o) - c] = 0)

(* A one after fewer than five ones makes no run of six.                   *)
LEMMA OneMore ==
    ASSUME NEW o \in Seq({0, 1}), NEW c \in 0..4, ShortRuns(o, c)
    PROVE  ShortRuns(Append(o, 1), c + 1)
<1> DEFINE w == Append(o, 1)
           L == Len(o)
<1>1. L \in Nat /\ Len(w) = L + 1 /\ \A q \in 1..L : w[q] = o[q]
  BY Appended DEF Extends
<1>2. /\ \A p \in 1..(L - 5) : \E q \in p..(p + 5) : o[q] = 0
      /\ c <= L /\ (c < L => o[L - c] = 0)
  BY DEF ShortRuns
<1> HIDE DEF w, L
<1>3. ASSUME NEW p \in 1..((L + 1) - 5) PROVE \E q \in p..(p + 5) : w[q] = 0
  <2>1. CASE p <= L - 5
    <3>0. p \in 1..(L - 5)
      BY <1>1, <2>1
    <3>1. PICK q \in p..(p + 5) : o[q] = 0
      BY <1>2, <3>0
    <3>2. q \in 1..L
      BY <1>1, <2>1
    <3> QED  BY <1>1, <3>1, <3>2
  <2>2. CASE p > L - 5
    <3>1. c < L /\ L - c \in p..(p + 5) /\ L - c \in 1..L
      BY <1>1, <2>2
    <3> QED  BY <1>1, <1>2, <3>1
  <2> QED  BY <1>1, <2>1, <2>2
<1>4. c + 1 < L + 1 => w[(L + 1) - (c + 1)] = 0
  <2> SUFFICES ASSUME c + 1 < L + 1 PROVE w[(L + 1) - (c + 1)] = 0
    OBVIOUS
  <2>1. (L + 1) - (c + 1) = L - c /\ L - c \in 1..L /\ c < L
    BY <1>1
  <2> QED  BY <1>1, <1>2, <2>1
<1>5. c + 1 <= L + 1
  BY <1>1, <1>2
<1>6. ShortRuns(w, c + 1)
  BY <1>1, <1>3, <1>4, <1>5 DEF ShortRuns
<1> QED  BY <1>6 DEF w

(* A zero ends every run.                                                  *)
LEMMA ZeroMore ==
    ASSUME NEW o \in Seq({0, 1}), NEW c \in 0..5, ShortRuns(o, c)
    PROVE  ShortRuns(Append(o, 0), 0)
<1> DEFINE w == Append(o, 0)
           L == Len(o)
<1>1. L \in Nat /\ Len(w) = L + 1 /\ w[L + 1] = 0 /\ \A q \in 1..L : w[q] = o[q]
  BY Appended DEF Extends
<1>2. \A p \in 1..(L - 5) : \E q \in p..(p + 5) : o[q] = 0
  BY DEF ShortRuns
<1> HIDE DEF w, L
<1>3. ASSUME NEW p \in 1..((L + 1) - 5) PROVE \E q \in p..(p + 5) : w[q] = 0
  <2>1. CASE p <= L - 5
    <3>0. p \in 1..(L - 5)
      BY <1>1, <2>1
    <3>1. PICK q \in p..(p + 5) : o[q] = 0
      BY <1>2, <3>0
    <3>2. q \in 1..L
      BY <1>1, <2>1
    <3> QED  BY <1>1, <3>1, <3>2
  <2>2. CASE p > L - 5
    <3>1. L + 1 \in p..(p + 5)
      BY <1>1, <2>2
    <3> QED  BY <1>1, <3>1
  <2> QED  BY <1>1, <2>1, <2>2
<1>4. 0 <= L + 1 /\ (L + 1) - 0 = L + 1
  BY <1>1
<1>5. ShortRuns(w, 0)
  BY <1>1, <1>3, <1>4 DEF ShortRuns
<1> QED  BY <1>5 DEF w

(* bit_stuff's next bit, and how its output grows.                         *)
LEMMA StuffedShort ==
    ASSUME NEW s \in Scans({0, 1}), NEW b \in {0, 1}, ShortRuns(s.out, s.count)
    PROVE  LET r == Stuffed(s, b) IN ShortRuns(r.out, r.count) /\ Extends(r.out, s.out)
<1>1. s.out \in Seq({0, 1}) /\ s.count \in 0..4
  BY DEF Scans
<1>2. CASE b = 0
  <2>1. Stuffed(s, b) = [out |-> Append(s.out, 0), count |-> 0, skip |-> FALSE]
    BY <1>2 DEF Stuffed, Put
  <2>2. ShortRuns(Append(s.out, 0), 0)
    <3>1. s.count \in 0..5
      BY <1>1
    <3> QED  BY <1>1, <3>1, ZeroMore
  <2>3. Extends(Append(s.out, 0), s.out)
    BY <1>1, Appended
  <2> QED  BY <2>1, <2>2, <2>3
<1>3. CASE b # 0 /\ s.count < 4
  <2>1. Stuffed(s, b) = [out |-> Append(s.out, 1), count |-> s.count + 1, skip |-> FALSE]
    BY <1>3 DEF Stuffed, Put
  <2> QED  BY <1>1, <2>1, OneMore, Appended
<1>4. CASE b # 0 /\ ~(s.count < 4)
  <2> DEFINE one == Append(s.out, 1)
             two == Append(one, 0)
  <2>1. Stuffed(s, b) = [out |-> two, count |-> 0, skip |-> FALSE]
    BY <1>4 DEF Stuffed, Put
  <2>2. ShortRuns(one, s.count + 1) /\ one \in Seq({0, 1}) /\ Extends(one, s.out) /\ Len(s.out) \in Nat
    BY <1>1, OneMore, Appended
  <2> HIDE DEF one
  <2>3. ShortRuns(two, 0)
    <3>1. s.count + 1 \in 0..5
      BY <1>1
    <3> QED  BY <2>2, <3>1, ZeroMore
  <2>4. Extends(two, one) /\ Len(one) \in Nat /\ Len(two) \in Nat
    BY <2>2, Appended
  <2> HIDE DEF two
  <2>5. Extends(two, s.out)
    BY <2>2, <2>4 DEF Extends
  <2> QED  BY <2>1, <2>3, <2>5
<1> QED  BY <1>2, <1>3, <1>4

(* The eight bits of FLAG.                                                 *)
LEMMA FlagBits ==
    /\ FLAG \in Seq({0, 1}) /\ Len(FLAG) = 8 /\ FLAG[1] = 0 /\ FLAG[8] = 0
    /\ \A j \in 2..7 : FLAG[j] = 1
  BY DEF FLAG

(* Two sequences one after the other.                                      *)
LEMMA Joined ==
    ASSUME NEW A, NEW s \in Seq(A), NEW t \in Seq(A)
    PROVE  /\ s \o t \in Seq(A) /\ Len(s \o t) = Len(s) + Len(t) /\ Len(s) \in Nat /\ Len(t) \in Nat
           /\ \A i \in 1..Len(s) : (s \o t)[i] = s[i]
           /\ \A i \in 1..Len(t) : (s \o t)[Len(s) + i] = t[i]
<1>1. Len(s) \in Nat /\ Len(t) \in Nat
  BY LenProperties
<1>2. /\ s \o t \in Seq(A) /\ Len(s \o t) = Len(s) + Len(t)
      /\ \A i \in 1..Len(s) + Len(t) : (s \o t)[i] = IF i <= Len(s) THEN s[i] ELSE t[i - Len(s)]
  BY ConcatProperties
<1>3. ASSUME NEW i \in 1..Len(s) PROVE (s \o t)[i] = s[i]
  <2>1. i \in 1..(Len(s) + Len(t)) /\ i <= Len(s)
    BY <1>1
  <2> QED  BY <1>2, <2>1
<1>4. ASSUME NEW i \in 1..Len(t) PROVE (s \o t)[Len(s) + i] = t[i]
  <2>1. Len(s) + i \in 1..(Len(s) + Len(t)) /\ ~(Len(s) + i <= Len(s)) /\ (Len(s) + i) - Len(s) = i
    BY <1>1
  <2> QED  BY <1>2, <2>1
<1> QED  BY <1>1, <1>2, <1>3, <1>4

(* The receiver about to drop what comes next, and having dropped it.      *)
LEMMA SkipOn ==
    \A x, y, z : Skip([out |-> x, count |-> 0, skip |-> y], z) = [out |-> x, count |-> 0, skip |-> z]
BY DEF Skip

(* What bit_unstuff makes of one bit, and of a stuffed one.                *)
LEMMA UnstuffedBit ==
    ASSUME NEW o, NEW c \in 0..4
    PROVE  LET r == [out |-> o, count |-> c, skip |-> FALSE]
           IN  /\ Unstuffed(r, 0, 5) = [out |-> Append(o, 0), count |-> 0, skip |-> FALSE]
               /\ c < 4 => Unstuffed(r, 1, 5) = [out |-> Append(o, 1), count |-> c + 1, skip |-> FALSE]
               /\ ~(c < 4) => /\ Unstuffed(r, 1, 5) = [out |-> Append(o, 1), count |-> 0, skip |-> TRUE]
                              /\ Unstuffed(Unstuffed(r, 1, 5), 0, 5) = [out |-> Append(o, 1), count |-> 0, skip |-> FALSE]
<1> DEFINE r == [out |-> o, count |-> c, skip |-> FALSE]
<1>1. 5 - 1 = 4 /\ r.out = o /\ r.count = c /\ r.skip = FALSE
  OBVIOUS
<1>2. Put(r, 0, 0) = [out |-> Append(o, 0), count |-> 0, skip |-> FALSE]
  BY <1>1 DEF Put
<1>3. \A x : Put(r, 1, x) = [out |-> Append(o, 1), count |-> x, skip |-> FALSE]
  BY <1>1 DEF Put
<1> HIDE DEF r
<1>4. Unstuffed(r, 0, 5) = Put(r, 0, 0)
  BY <1>1 DEF Unstuffed
<1>5. c < 4 => Unstuffed(r, 1, 5) = Put(r, 1, c + 1)
  BY <1>1 DEF Unstuffed
<1>6. ASSUME ~(c < 4)
      PROVE  /\ Unstuffed(r, 1, 5) = [out |-> Append(o, 1), count |-> 0, skip |-> TRUE]
             /\ Unstuffed(Unstuffed(r, 1, 5), 0, 5) = [out |-> Append(o, 1), count |-> 0, skip |-> FALSE]
  <2> DEFINE one == [out |-> Append(o, 1), count |-> 0, skip |-> TRUE]
  <2>1. Unstuffed(r, 1, 5) = Skip(Put(r, 1, 0), TRUE)
    BY <1>1, <1>6 DEF Unstuffed
  <2>2. Skip(Put(r, 1, 0), TRUE) = one
    <3>1. Put(r, 1, 0) = [out |-> Append(o, 1), count |-> 0, skip |-> FALSE]
      BY <1>3
    <3> QED  BY <3>1, SkipOn
  <2>3. Unstuffed(one, 0, 5) = Skip(one, FALSE)
    BY DEF Unstuffed
  <2>4. Skip(one, FALSE) = [out |-> Append(o, 1), count |-> 0, skip |-> FALSE]
    BY SkipOn
  <2> QED  BY <2>1, <2>2, <2>3, <2>4
<1> QED  BY <1>2, <1>3, <1>4, <1>5, <1>6 DEF r

(* Between two flags a payload without six ones in a row shows none.       *)
LEMMA FlagsApart ==
    ASSUME NEW w \in Seq({0, 1}), NEW c \in 0..5, ShortRuns(w, c)
    PROVE  LET framed == Enclose(FLAG, w)
           IN  \A i \in 1..(Len(framed) - 7) : SubSeq(framed, i, i + 7) = FLAG => i \in {1, Len(framed) - 7}
<1> DEFINE f == Enclose(FLAG, w)
           L == Len(w)
<1>1. L \in Nat /\ \A p \in 1..(L - 5) : \E q \in p..(p + 5) : w[q] = 0
  BY LenProperties DEF ShortRuns
<1>2. /\ f \in Seq({0, 1}) /\ Len(f) = L + 16 /\ f[1] = 0 /\ f[8] = 0 /\ f[L + 9] = 0 /\ f[L + 16] = 0
      /\ \A q \in 1..L : f[8 + q] = w[q]
  <2> DEFINE g == FLAG \o w
  <2>1. /\ g \in Seq({0, 1}) /\ Len(g) = 8 + L
        /\ \A i \in 1..8 : g[i] = FLAG[i]
        /\ \A q \in 1..L : g[8 + q] = w[q]
    <3>1. /\ FLAG \o w \in Seq({0, 1}) /\ Len(FLAG \o w) = Len(FLAG) + Len(w)
          /\ \A i \in 1..Len(FLAG) : (FLAG \o w)[i] = FLAG[i]
          /\ \A i \in 1..Len(w) : (FLAG \o w)[Len(FLAG) + i] = w[i]
      <4>1. FLAG \in Seq({0, 1})
        BY FlagBits
      <4> QED  BY <4>1, Joined
    <3>2. g = FLAG \o w
      OBVIOUS
    <3> HIDE DEF g
    <3> QED  BY <3>1, <3>2, FlagBits
  <2>2. f = g \o FLAG
    BY DEF Enclose
  <2> HIDE DEF g, f
  <2>3. /\ f \in Seq({0, 1}) /\ Len(f) = (8 + L) + 8
        /\ \A i \in 1..(8 + L) : f[i] = g[i]
        /\ \A i \in 1..8 : f[(8 + L) + i] = FLAG[i]
    <3>1. /\ g \o FLAG \in Seq({0, 1}) /\ Len(g \o FLAG) = Len(g) + Len(FLAG)
          /\ \A i \in 1..Len(g) : (g \o FLAG)[i] = g[i]
          /\ \A i \in 1..Len(FLAG) : (g \o FLAG)[Len(g) + i] = FLAG[i]
      <4>1. FLAG \in Seq({0, 1}) /\ g \in Seq({0, 1})
        BY <2>1, FlagBits
      <4> QED  BY <4>1, Joined
    <3> QED  BY <2>1, <2>2, <3>1, FlagBits
  <2> HIDE DEF L
  <2>4. /\ 1 \in 1..(8 + L) /\ 8 \in 1..(8 + L) /\ (8 + L) + 1 = L + 9 /\ (8 + L) + 8 = L + 16
        /\ \A q \in 1..L : 8 + q \in 1..(8 + L)
    BY <1>1
  <2>5. f[L + 9] = 0 /\ f[L + 16] = 0
    BY <2>3, <2>4, FlagBits
  <2>6. f[1] = 0 /\ f[8] = 0
    BY <2>1, <2>3, <2>4, FlagBits
  <2>7. \A q \in 1..L : f[8 + q] = w[q]
    BY <2>1, <2>3, <2>4
  <2> QED  BY <2>3, <2>4, <2>5, <2>6, <2>7
<1> HIDE DEF f, L
<1>3. ASSUME NEW i \in 1..(Len(f) - 7), SubSeq(f, i, i + 7) = FLAG PROVE i \in {1, Len(f) - 7}
  <2>1. i \in 1..(L + 9) /\ Len(f) - 7 = L + 9
    BY <1>1, <1>2
  <2>2. \A j \in 1..8 : f[i + j - 1] = FLAG[j]
    <3>1. \A k \in i..(i + 7) : f[k] \in {0, 1}
      BY <1>1, <1>2, <2>1, ElementOfSeq
    <3>2. \A j \in 1..((i + 7) - i + 1) : SubSeq(f, i, i + 7)[j] = f[i + j - 1]
      BY <2>1, <3>1, SubSeqProperties
    <3>3. (i + 7) - i + 1 = 8
      BY <2>1
    <3> QED  BY <1>3, <3>2, <3>3
  <2>3. \A k \in (i + 1)..(i + 6) : f[k] = 1
    <3>1. ASSUME NEW k \in (i + 1)..(i + 6) PROVE f[k] = 1
      <4>1. (k - i) + 1 \in 2..7 /\ i + ((k - i) + 1) - 1 = k /\ (k - i) + 1 \in 1..8
        BY <2>1
      <4> QED  BY <2>2, <4>1, FlagBits
    <3> QED  BY <3>1
  <2>4. 8 \notin (i + 1)..(i + 6) /\ L + 9 \notin (i + 1)..(i + 6)
    BY <1>2, <2>3
  <2>5. i = 1 \/ i = L + 9 \/ (i >= 8 /\ i + 6 < L + 9)
    BY <1>1, <2>1, <2>4
  <2>6. ~(i >= 8 /\ i + 6 < L + 9)
    <3> SUFFICES ASSUME i >= 8, i + 6 < L + 9 PROVE FALSE
      OBVIOUS
    <3>1. i - 7 \in 1..(L - 5)
      BY <1>1, <2>1
    <3>2. PICK q \in (i - 7)..((i - 7) + 5) : w[q] = 0
      BY <1>1, <3>1
    <3>3. q \in 1..L /\ 8 + q \in (i + 1)..(i + 6)
      BY <1>1, <2>1, <3>1
    <3> QED  BY <1>2, <2>3, <3>2, <3>3
  <2> QED  BY <2>1, <2>5, <2>6
<1> QED  BY <1>3 DEF f

(* bit_unstuff gives back what bit_stuff was given.                        *)
LEMMA BitsBack ==
    ASSUME NEW data \in Seq({0, 1})
    PROVE  /\ bit_unstuff(bit_stuff(data)) = data /\ bit_stuff(data) \in Seq({0, 1})
           /\ \E c \in 0..5 : ShortRuns(bit_stuff(data), c)
<1> DEFINE A == {0, 1}
           n == Len(data)
           w == bit_stuff(data)
<1>0. n \in Nat /\ \A k \in 1..n : data[k] \in A
  BY SeqTypes
<1>1. PICK acc \in [0..n -> Scans(A)] : Scan(acc, data, w) /\ \A k \in 1..n : acc[k] = Stuffed(acc[k - 1], data[k])
  BY StuffSteps
<1> HIDE DEF w, n
<1>2. acc[0] = Unset /\ acc[n].out = w
  BY <1>1 DEF Scan, n
<1>3. \A k \in 0..n : acc[k].out \in Seq(A) /\ acc[k].count \in 0..4
  BY <1>1 DEF Scans
<1> DEFINE R == {k \in Nat : k <= n => ShortRuns(acc[k].out, acc[k].count)}
<1>4. R = Nat
  <2>1. 0 \in R
    BY <1>2 DEF Unset, ShortRuns
  <2>2. ASSUME NEW k \in Nat, k \in R PROVE k + 1 \in R
    <3> SUFFICES ASSUME k + 1 <= n PROVE ShortRuns(acc[k + 1].out, acc[k + 1].count)
      OBVIOUS
    <3>1. k + 1 \in 1..n /\ (k + 1) - 1 = k /\ k \in 0..n
      BY <1>0
    <3>2. acc[k] \in Scans(A) /\ ShortRuns(acc[k].out, acc[k].count) /\ data[k + 1] \in A
      BY <1>0, <1>1, <2>2, <3>1
    <3>3. acc[k + 1] = Stuffed(acc[k], data[k + 1])
      BY <1>1, <3>1
    <3> QED  BY <3>2, <3>3, StuffedShort
  <2>3. R \in SUBSET Nat
    OBVIOUS
  <2> HIDE DEF R
  <2> QED  BY <2>1, <2>2, <2>3, NatInduct
<1>5. \A k \in 0..n : ShortRuns(acc[k].out, acc[k].count)
  BY <1>0, <1>4
<1> HIDE DEF R
<1>6. \A k \in 0..n : Extends(w, acc[k].out)
  <2> DEFINE pre == [k \in 0..n |-> acc[k].out]
  <2>1. pre \in [0..n -> Seq(A)]
    BY <1>3
  <2>2. \A k \in 0..n : pre[k] = acc[k].out
    OBVIOUS
  <2>3. ASSUME NEW k \in 1..n PROVE Extends(pre[k], pre[k - 1])
    <3>1. k \in 0..n /\ k - 1 \in 0..n
      BY <1>0
    <3>2. acc[k - 1] \in Scans(A) /\ data[k] \in A /\ ShortRuns(acc[k - 1].out, acc[k - 1].count)
      BY <1>0, <1>1, <1>5, <3>1
    <3>3. Extends(acc[k].out, acc[k - 1].out)
      BY <1>1, <3>2, StuffedShort
    <3> HIDE DEF pre
    <3> QED  BY <2>2, <3>1, <3>3
  <2> HIDE DEF pre
  <2>4. \A k \in 0..n : Extends(pre[n], pre[k])
    BY <1>0, <2>1, <2>3, ExtendsAll
  <2>5. n \in 0..n
    BY <1>0
  <2> QED  BY <1>2, <2>2, <2>4, <2>5
<1>7. w \in Seq(A) /\ Len(w) \in Nat /\ n \in 0..n
  BY <1>0, <1>2, <1>3, LenProperties
<1>8. PICK u \in [0..Len(w) -> Scans(A)] :
          Scan(u, w, bit_unstuff(w)) /\ \A m \in 1..Len(w) : u[m] = Unstuffed(u[m - 1], w[m], 5)
  BY <1>7, UnstuffSteps
<1> DEFINE Got(k) == [out |-> SubSeq(data, 1, k), count |-> acc[k].count, skip |-> FALSE]
           S == {k \in Nat : k <= n => u[Len(acc[k].out)] = Got(k)}
<1>9. 0 \in S
  <2>1. SubSeq(data, 1, 0) = <<>>
    BY SubSeqEmpty
  <2>2. u[0] = Unset /\ Len(acc[0].out) = 0 /\ acc[0].count = 0
    BY <1>2, <1>8 DEF Scan, Unset
  <2>3. u[Len(acc[0].out)] = Got(0)
    BY <2>1, <2>2 DEF Unset
  <2> QED  BY <2>3
<1>10. ASSUME NEW k \in Nat, k \in S PROVE k + 1 \in S
  <2> SUFFICES ASSUME k + 1 <= n PROVE u[Len(acc[k + 1].out)] = Got(k + 1)
    OBVIOUS
  <2> DEFINE s == acc[k]
             o == acc[k].out
             m == Len(acc[k].out)
             b == data[k + 1]
  <2>1. k + 1 \in 1..n /\ (k + 1) - 1 = k /\ k \in 0..n /\ k + 1 \in 0..n
    BY <1>0
  <2>2. /\ acc[k + 1] = Stuffed(s, b) /\ b \in A /\ o \in Seq(A) /\ s.count \in 0..4 /\ m \in Nat
        /\ Extends(w, acc[k + 1].out)
    <3>1. Len(o) \in Nat
      BY <1>3, <2>1, LenProperties
    <3> QED  BY <1>0, <1>1, <1>3, <1>6, <2>1, <3>1
  <2>3. u[m] = Got(k)
    BY <1>10, <2>1
  <2>4. SubSeq(data, 1, k + 1) = Append(SubSeq(data, 1, k), b)
    BY UptoNext DEF n
  <2> HIDE DEF s, S, m, b, Got
  <2>5. CASE b = 0 \/ s.count < 4
    <3> DEFINE c == IF b = 0 THEN 0 ELSE s.count + 1
    <3>1. acc[k + 1] = [out |-> Append(o, b), count |-> c, skip |-> FALSE]
      BY <2>2, <2>5 DEF Stuffed, Put, s
    <3>2. Len(acc[k + 1].out) = m + 1 /\ acc[k + 1].out[m + 1] = b
      BY <2>2, <3>1, Appended DEF m
    <3>3. w[m + 1] = b /\ m + 1 \in 1..Len(w) /\ (m + 1) - 1 = m
      BY <1>7, <2>2, <3>2 DEF Extends
    <3>4. u[m + 1] = Unstuffed(Got(k), b, 5)
      BY <1>8, <2>3, <3>3
    <3>5. Unstuffed(Got(k), b, 5) = [out |-> Append(SubSeq(data, 1, k), b), count |-> c, skip |-> FALSE]
      BY <2>2, <2>5, UnstuffedBit DEF Got, s
    <3>6. acc[k + 1].count = c
      BY <3>1
    <3> HIDE DEF c
    <3> QED  BY <2>4, <3>2, <3>4, <3>5, <3>6 DEF Got
  <2>6. CASE ~(b = 0 \/ s.count < 4)
    <3> DEFINE one == Append(o, 1)
               two == Append(one, 0)
    <3>0. b = 1
      BY <2>2, <2>6
    <3>1. acc[k + 1] = [out |-> two, count |-> 0, skip |-> FALSE]
      BY <2>6 , <2>2 DEF Stuffed, Put, s
    <3>2. one \in Seq(A) /\ Len(one) = m + 1 /\ one[m + 1] = 1
      BY <2>2, Appended DEF m
    <3> HIDE DEF one
    <3>3. Len(two) = m + 2 /\ two[m + 2] = 0 /\ two[m + 1] = 1
      <4>1. Len(two) = Len(one) + 1 /\ two[Len(one) + 1] = 0 /\ Extends(two, one)
        BY <3>2, Appended
      <4>2. (m + 1) + 1 = m + 2 /\ m + 1 \in 1..(m + 1)
        BY <2>2
      <4> HIDE DEF two
      <4> QED  BY <3>2, <4>1, <4>2 DEF Extends
    <3> HIDE DEF two
    <3>4. /\ w[m + 1] = 1 /\ m + 1 \in 1..Len(w) /\ (m + 1) - 1 = m
          /\ w[m + 2] = 0 /\ m + 2 \in 1..Len(w) /\ (m + 2) - 1 = m + 1
      BY <1>7, <2>2, <3>1, <3>3 DEF Extends
    <3>5. u[m + 1] = Unstuffed(Got(k), 1, 5) /\ u[m + 2] = Unstuffed(u[m + 1], 0, 5)
      BY <1>8, <2>3, <3>4
    <3>6. Unstuffed(Got(k), 1, 5) = [out |-> Append(SubSeq(data, 1, k), 1), count |-> 0, skip |-> TRUE]
      BY <2>2, <2>6, UnstuffedBit DEF Got, s
    <3>7. u[m + 2] = [out |-> Append(SubSeq(data, 1, k), 1), count |-> 0, skip |-> FALSE]
      BY <2>2, <2>6, <3>5, UnstuffedBit DEF Got, s
    <3>8. Len(acc[k + 1].out) = m + 2 /\ acc[k + 1].count = 0
      BY <3>1, <3>3
    <3> QED  BY <2>4, <3>0, <3>7, <3>8 DEF Got
  <2> QED  BY <2>5, <2>6
<1>11. S = Nat
  <2>1. S \in SUBSET Nat
    OBVIOUS
  <2> HIDE DEF S
  <2> QED  BY <1>9, <1>10, <2>1, NatInduct
<1>12. u[Len(w)] = Got(n)
  BY <1>0, <1>2, <1>11
<1>13. bit_unstuff(w) = SubSeq(data, 1, n)
  BY <1>8, <1>12 DEF Scan
<1>14. SubSeq(data, 1, n) = data
  BY SubSeqFull DEF n
<1>15. acc[n].count \in 0..5 /\ ShortRuns(w, acc[n].count)
  <2>1. acc[n].count \in 0..4
    BY <1>3, <1>7
  <2> QED  BY <1>2, <1>5, <1>7, <2>1
<1> QED  BY <1>7, <1>13, <1>14, <1>15 DEF w

-----------------------------------------------------------------------------
(* Bytes.  byte_stuff's output after each character.                       *)
LEMMA EscapeSteps ==
    ASSUME NEW A, "ESC" \in A, NEW data \in Seq(A)
    PROVE  \E pre \in [0..Len(data) -> Seq(A)] :
              /\ pre[0] = <<>> /\ pre[Len(data)] = byte_stuff(data)
              /\ \A k \in 1..Len(data) : pre[k] = pre[k - 1] \o Escaped(data[k])
<1> DEFINE n == Len(data)
           ch == [i \in DOMAIN data |-> Escaped(data[i])]
           V == Seq(A)
           D == 1..n
<1>1. /\ n \in Nat /\ Len(ch) = n /\ ch \in [D -> V] /\ DOMAIN data = D
      /\ \A i \in D : ch[i] = Escaped(data[i])
  <2>1. n \in Nat /\ DOMAIN data = D /\ \A i \in D : data[i] \in A
    BY LenProperties, ElementOfSeq
  <2>2. ASSUME NEW c \in A PROVE Escaped(c) \in Seq(A)
    BY DEF Escaped
  <2>3. \A i \in D : Escaped(data[i]) \in V
    BY <2>1, <2>2
  <2> HIDE DEF n, V
  <2>4. ch = [i \in 1..n |-> Escaped(data[i])]
    BY <2>1
  <2> QED  BY <2>1, <2>3, <2>4
<1>2. byte_stuff(data) = FlattenSeq(ch)
  BY DEF byte_stuff
<1>3. CASE n = 0
  <2> DEFINE pre == [k \in 0..n |-> <<>>]
  <2>1. ch = <<>>
    <3>1. ch \in Seq(V) /\ Len(ch) = 0
      BY <1>1, <1>3
    <3> HIDE DEF ch
    <3> QED  BY <3>1
  <2>2. byte_stuff(data) = <<>>
    BY <1>1, <1>2, <1>3, <2>1 DEF FlattenSeq
  <2>3. pre \in [0..n -> V] /\ pre[0] = <<>> /\ pre[n] = <<>>
    BY <1>3, EmptySeq
  <2>4. 1..n = {}
    BY <1>3
  <2> HIDE DEF pre, n
  <2> QED  BY <2>2, <2>3, <2>4 DEF n
<1>4. CASE n # 0
  <2> DEFINE Eq(fl) == fl = [i \in D |-> IF i = 1 THEN ch[i] ELSE fl[i - 1] \o ch[i]]
             m == [i \in D |-> i]
             val(i, g) == IF i = 1 THEN ch[i] ELSE g[i - 1] \o ch[i]
             step == [p \in D \X [D -> V] |-> val(p[1], p[2])]
  <2>1. FlattenSeq(ch) = (CHOOSE fl : Eq(fl))[n]
    <3> HIDE DEF n, ch
    <3>1. FlattenSeq(ch) = (CHOOSE fl : fl = [i \in 1..Len(ch) |-> IF i = 1 THEN ch[i] ELSE fl[i - 1] \o ch[i]])[Len(ch)]
      BY <1>1, <1>4 DEF FlattenSeq
    <3> QED  BY <1>1, <3>1
  <2> HIDE DEF ch, n
  <2>2. ASSUME NEW i \in D, NEW g \in [D -> V] PROVE val(i, g) \in V /\ step[<<i, g>>] = val(i, g)
    <3>1. ASSUME i # 1 PROVE i - 1 \in D
      BY <1>1, <3>1
    <3>2. ch[i] \in V
      BY <1>1
    <3>3. val(i, g) \in V
      <4>1. ASSUME i # 1 PROVE g[i - 1] \o ch[i] \in V
        <5>1. g[i - 1] \in V
          <6> HIDE DEF V, D
          <6> QED  BY <3>1, <4>1
        <5> QED  BY <3>2, <5>1, Joined
      <4> QED  BY <3>2, <4>1
    <3> HIDE DEF val, D, V
    <3> QED  BY <3>3
  <2>3. step \in [D \X [D -> V] -> V]
    <3>1. \A p \in D \X [D -> V] : val(p[1], p[2]) \in V
      BY <2>2
    <3> HIDE DEF val, D, V
    <3> QED  BY <3>1
  <2>4. IsRecursion(D, m, V, step)
    <3>1. ASSUME NEW i \in D, NEW g \in [D -> V], NEW h \in [D -> V], \A j \in D : m[j] < m[i] => g[j] = h[j]
          PROVE  step[<<i, g>>] = step[<<i, h>>]
      <4>1. i # 1 => i - 1 \in D /\ m[i - 1] < m[i]
        BY <1>1
      <4>2. val(i, g) = val(i, h)
        BY <3>1, <4>1
      <4> HIDE DEF val, step
      <4> QED  BY <2>2, <4>2
    <3>2. V # {} /\ m \in [D -> Nat]
      BY <1>1, EmptySeq
    <3> HIDE DEF D, V, m, step
    <3> QED  BY <2>3, <3>1, <3>2 DEF IsRecursion
  <2>5. \E fl : Eq(fl)
    <3>1. PICK fl : Solves(fl, D, V, step)
      <4> HIDE DEF D, V, m, step
      <4> QED  BY <2>4, Recursion
    <3>2. fl \in [D -> V] /\ \A i \in D : fl[i] = val(i, fl)
      <4> HIDE DEF D, V, step, val
      <4> QED  BY <2>2, <3>1 DEF Solves
    <3>3. fl = [i \in D |-> val(i, fl)]
      <4> HIDE DEF D, V, val
      <4> QED  BY <3>2
    <3> QED  BY <3>3
  <2> DEFINE fl == CHOOSE fl : Eq(fl)
  <2>6. Eq(fl)
    <3> HIDE DEF Eq
    <3> QED  BY <2>5
  <2>7. \A i \in D : fl[i] = IF i = 1 THEN ch[i] ELSE fl[i - 1] \o ch[i]
    <3> HIDE DEF fl
    <3> QED  BY <2>6
  <2>8. byte_stuff(data) = fl[n]
    BY <1>2, <2>1
  <2> HIDE DEF fl, Eq
  <2> DEFINE pre == [k \in 0..n |-> IF k = 0 THEN <<>> ELSE fl[k]]
  <2>9. \A k \in 0..n : pre[k] = IF k = 0 THEN <<>> ELSE fl[k]
    OBVIOUS
  <2>10. 0 \in 0..n /\ n \in 0..n /\ 1 \in D /\ \A k \in D : k \in 0..n /\ k - 1 \in 0..n /\ k # 0
    BY <1>1, <1>4
  <2>11. pre[0] = <<>> /\ pre[n] = byte_stuff(data)
    BY <1>4, <2>8, <2>9, <2>10
  <2> HIDE DEF pre
  <2> DEFINE Good(k) == pre[k] \in V /\ (k # 0 => pre[k] = pre[k - 1] \o ch[k])
             S == {k \in Nat : k <= n => Good(k)}
  <2>12. 0 \in S
    BY <2>11, EmptySeq
  <2> HIDE DEF Good
  <2>13. ASSUME NEW k \in Nat, k \in S PROVE k + 1 \in S
    <3> SUFFICES ASSUME k + 1 <= n PROVE Good(k + 1)
      OBVIOUS
    <3>1. k + 1 \in D /\ (k + 1) - 1 = k /\ k \in 0..n /\ k + 1 \in 0..n /\ k + 1 # 0 /\ pre[k] \in V
      <4>1. k + 1 \in D /\ (k + 1) - 1 = k /\ k \in 0..n /\ k + 1 \in 0..n /\ k + 1 # 0 /\ k <= n
        BY <1>1
      <4>2. Good(k)
        BY <2>13, <4>1
      <4> QED  BY <4>1, <4>2 DEF Good
    <3>2. ch[k + 1] \in V
      <4> HIDE DEF V, D
      <4> QED  BY <1>1, <3>1
    <3>3. pre[k + 1] = pre[k] \o ch[k + 1]
      <4>1. CASE k = 0
        <5>1. pre[k + 1] = ch[k + 1] /\ pre[k] = <<>>
          BY <2>7, <2>9, <2>10, <3>1, <4>1
        <5> QED  BY <3>2, <5>1, ConcatEmptySeq
      <4>2. CASE k # 0
        <5>1. pre[k + 1] = fl[k + 1] /\ pre[k] = fl[k] /\ k + 1 # 1
          BY <2>9, <3>1, <4>2
        <5> HIDE DEF D
        <5> QED  BY <2>7, <3>1, <5>1
      <4> QED  BY <4>1, <4>2
    <3>4. pre[k] \o ch[k + 1] \in V
      BY <3>1, <3>2, Joined
    <3> QED  BY <3>1, <3>3, <3>4 DEF Good
  <2>14. S = Nat
    <3>1. S \in SUBSET Nat
      OBVIOUS
    <3> HIDE DEF S
    <3> QED  BY <2>12, <2>13, <3>1, NatInduct
  <2>15. \A k \in 0..n : pre[k] \in V
    <3>1. ASSUME NEW k \in 0..n PROVE Good(k)
      <4>1. k \in Nat /\ k <= n
        BY <1>1
      <4>2. k \in S
        <5> HIDE DEF S
        <5> QED  BY <2>14, <4>1
      <4> QED  BY <4>1, <4>2
    <3> QED  BY <3>1 DEF Good
  <2>16. \A k \in D : pre[k] = pre[k - 1] \o Escaped(data[k])
    <3>1. ASSUME NEW k \in D PROVE pre[k] = pre[k - 1] \o ch[k]
      <4>1. k \in Nat /\ k <= n /\ k # 0
        BY <1>1
      <4>2. k \in S
        <5> HIDE DEF S
        <5> QED  BY <2>14, <4>1
      <4> QED  BY <4>1, <4>2 DEF Good
    <3> QED  BY <1>1, <3>1
  <2>17. pre \in [0..n -> V]
    <3>1. pre = [k \in 0..n |-> pre[k]]
      BY DEF pre
    <3> HIDE DEF V
    <3> QED  BY <2>15, <3>1
  <2> QED  BY <2>11, <2>16, <2>17 DEF n
<1> QED  BY <1>3, <1>4

(* Where each character of the data ends in what byte_stuff makes of them, *)
(* and what stands there.                                                  *)
LEMMA EscapeUnits ==
    ASSUME NEW A, "ESC" \in A, NEW data \in Seq(A)
    PROVE  LET w == byte_stuff(data)
           IN  /\ w \in Seq(A) /\ Len(w) \in Nat
               /\ \E end \in [0..Len(data) -> Nat] :
                    /\ end[0] = 0 /\ end[Len(data)] = Len(w)
                    /\ \A k \in 1..Len(data) :
                        LET e == Escaped(data[k])
                        IN  /\ Len(e) \in Nat /\ end[k] = end[k - 1] + Len(e) /\ end[k] <= Len(w)
                            /\ \A i \in 1..Len(e) : w[end[k - 1] + i] = e[i]
<1> DEFINE n == Len(data)
           w == byte_stuff(data)
<1>0. n \in Nat /\ \A k \in 1..n : data[k] \in A
  BY SeqTypes
<1>1. PICK pre \in [0..n -> Seq(A)] :
          /\ pre[0] = <<>> /\ pre[n] = w
          /\ \A k \in 1..n : pre[k] = pre[k - 1] \o Escaped(data[k])
  BY EscapeSteps
<1> HIDE DEF w, n
<1>2. ASSUME NEW c \in A PROVE Escaped(c) \in Seq(A)
  BY DEF Escaped
<1>3. ASSUME NEW k \in 1..n
      PROVE  LET s == pre[k - 1]
                 e == Escaped(data[k])
             IN  /\ s \in Seq(A) /\ Len(s) \in Nat /\ Len(e) \in Nat /\ Len(pre[k]) = Len(s) + Len(e)
                 /\ \A i \in 1..Len(e) : pre[k][Len(s) + i] = e[i]
                 /\ Extends(pre[k], s)
  <2> DEFINE s == pre[k - 1]
             e == Escaped(data[k])
  <2>1. s \in Seq(A) /\ e \in Seq(A) /\ pre[k] = s \o e
    <3>1. k - 1 \in 0..n
      BY <1>0
    <3> QED  BY <1>0, <1>1, <1>2, <3>1
  <2> HIDE DEF s, e
  <2>2. /\ Len(s) \in Nat /\ Len(e) \in Nat /\ Len(pre[k]) = Len(s) + Len(e)
        /\ \A i \in 1..Len(s) : pre[k][i] = s[i]
        /\ \A i \in 1..Len(e) : pre[k][Len(s) + i] = e[i]
    BY <2>1, Joined
  <2>3. Extends(pre[k], s)
    BY <2>2 DEF Extends
  <2> QED  BY <2>1, <2>2, <2>3 DEF s, e
<1>4. \A k \in 0..n : Extends(w, pre[k])
  <2>1. \A k \in 1..n : Extends(pre[k], pre[k - 1])
    BY <1>3
  <2> QED  BY <1>0, <1>1, <2>1, ExtendsAll
<1>5. w \in Seq(A) /\ Len(w) \in Nat
  <2>1. n \in 0..n
    BY <1>0
  <2>2. w \in Seq(A)
    BY <1>1, <2>1
  <2> QED  BY <2>2, LenProperties
<1> DEFINE end == [k \in 0..n |-> Len(pre[k])]
<1>6. end \in [0..n -> Nat] /\ end[0] = 0 /\ end[n] = Len(w) /\ \A k \in 0..n : end[k] = Len(pre[k])
  <2>1. \A k \in 0..n : Len(pre[k]) \in Nat
    BY LenProperties
  <2>2. 0 \in 0..n /\ n \in 0..n /\ Len(pre[0]) = 0
    BY <1>0, <1>1
  <2> QED  BY <1>1, <2>1, <2>2
<1> HIDE DEF end
<1>7. ASSUME NEW k \in 1..n
      PROVE  LET e == Escaped(data[k])
             IN  /\ Len(e) \in Nat /\ end[k] = end[k - 1] + Len(e) /\ end[k] <= Len(w)
                 /\ \A i \in 1..Len(e) : w[end[k - 1] + i] = e[i]
  <2> DEFINE e == Escaped(data[k])
  <2>1. k \in 0..n /\ k - 1 \in 0..n
    BY <1>0
  <2>2. /\ end[k] = Len(pre[k]) /\ end[k - 1] = Len(pre[k - 1]) /\ end[k - 1] \in Nat /\ Len(e) \in Nat
        /\ end[k] = end[k - 1] + Len(e) /\ \A i \in 1..Len(e) : pre[k][end[k - 1] + i] = e[i]
    BY <1>3, <1>6, <2>1
  <2>3. end[k] <= Len(w) /\ \A p \in 1..end[k] : w[p] = pre[k][p]
    BY <1>4, <2>1, <2>2 DEF Extends
  <2> HIDE DEF e
  <2>4. ASSUME NEW i \in 1..Len(e) PROVE end[k - 1] + i \in 1..end[k]
    BY <2>2
  <2> QED  BY <2>2, <2>3, <2>4 DEF e
<1> QED  BY <1>5, <1>6, <1>7 DEF w, n

(* byte_unstuff gives back what byte_stuff was given.                      *)
LEMMA BytesBack ==
    ASSUME NEW A, "ESC" \in A, NEW data \in Seq(A)
    PROVE  byte_unstuff(byte_stuff(data)) = data /\ byte_stuff(data) \in Seq(A)
<1> DEFINE n == Len(data)
           w == byte_stuff(data)
<1>0. n \in Nat /\ \A k \in 1..n : data[k] \in A
  BY SeqTypes
<1>1. PICK end \in [0..n -> Nat] :
          /\ end[0] = 0 /\ end[n] = Len(w)
          /\ \A k \in 1..n :
              LET e == Escaped(data[k])
              IN  /\ Len(e) \in Nat /\ end[k] = end[k - 1] + Len(e) /\ end[k] <= Len(w)
                  /\ \A i \in 1..Len(e) : w[end[k - 1] + i] = e[i]
  BY EscapeUnits
<1>2. w \in Seq(A) /\ Len(w) \in Nat
  BY EscapeUnits
<1> HIDE DEF w, n
<1>3. PICK u \in [0..Len(w) -> Scans(A)] :
          Scan(u, w, byte_unstuff(w)) /\ \A m \in 1..Len(w) : u[m] = Unescaped(u[m - 1], w[m])
  BY <1>2, UnescapeSteps
<1> DEFINE Got(k) == [out |-> SubSeq(data, 1, k), count |-> 0, skip |-> FALSE]
           S == {k \in Nat : k <= n => u[end[k]] = Got(k)}
<1>4. 0 \in S
  <2>1. SubSeq(data, 1, 0) = <<>>
    BY SubSeqEmpty
  <2>2. u[0] = Unset /\ end[0] = 0
    BY <1>1, <1>3 DEF Scan
  <2>3. u[end[0]] = Got(0)
    BY <2>1, <2>2 DEF Unset
  <2> QED  BY <2>3
<1>5. ASSUME NEW k \in Nat, k \in S PROVE k + 1 \in S
  <2> SUFFICES ASSUME k + 1 <= n PROVE u[end[k + 1]] = Got(k + 1)
    OBVIOUS
  <2> DEFINE m == end[k]
             c == data[k + 1]
  <2>1. k + 1 \in 1..n /\ (k + 1) - 1 = k /\ k + 1 \in 0..n
    BY <1>0
  <2>2. u[m] = Got(k)
    <3>1. k <= n
      BY <1>0
    <3> HIDE DEF Got
    <3> QED  BY <1>5, <3>1
  <2>3. /\ c \in A /\ m \in Nat /\ Len(Escaped(c)) \in Nat /\ end[k + 1] = m + Len(Escaped(c))
        /\ \A i \in 1..Len(Escaped(c)) : w[m + i] = Escaped(c)[i]
        /\ end[k + 1] <= Len(w)
    <3>1. k \in 0..n
      BY <1>0
    <3> QED  BY <1>0, <1>1, <2>1, <3>1
  <2>4. SubSeq(data, 1, k + 1) = Append(SubSeq(data, 1, k), c)
    BY UptoNext DEF n
  <2>5. Put(Got(k), c, 0) = Got(k + 1)
    BY <2>4 DEF Put
  <2> HIDE DEF S, m, c
  <2>6. CASE c \in {"FLAG", "ESC"}
    <3>1. Len(Escaped(c)) = 2 /\ Escaped(c)[1] = "ESC" /\ Escaped(c)[2] = c
      BY <2>6 DEF Escaped
    <3>2. /\ w[m + 1] = "ESC" /\ m + 1 \in 1..Len(w) /\ (m + 1) - 1 = m
          /\ w[m + 2] = c /\ m + 2 \in 1..Len(w) /\ (m + 2) - 1 = m + 1
          /\ end[k + 1] = m + 2
      BY <1>2, <2>3, <3>1
    <3>3. u[m + 1] = Unescaped(Got(k), "ESC") /\ u[m + 2] = Unescaped(u[m + 1], c)
      BY <1>3, <2>2, <3>2
    <3> DEFINE on == [out |-> SubSeq(data, 1, k), count |-> 0, skip |-> TRUE]
    <3>4. Unescaped(Got(k), "ESC") = on
      <4>1. Unescaped(Got(k), "ESC") = Skip(Got(k), TRUE)
        BY DEF Unescaped
      <4> QED  BY <4>1, SkipOn
    <3>5. Unescaped(on, c) = Put(on, c, 0)
      BY DEF Unescaped
    <3>6. Put(on, c, 0) = Put(Got(k), c, 0)
      BY DEF Put
    <3> HIDE DEF on, Got
    <3> QED  BY <2>5, <3>2, <3>3, <3>4, <3>5, <3>6
  <2>7. CASE c \notin {"FLAG", "ESC"}
    <3>1. Len(Escaped(c)) = 1 /\ Escaped(c)[1] = c
      BY <2>7 DEF Escaped
    <3>2. w[m + 1] = c /\ m + 1 \in 1..Len(w) /\ (m + 1) - 1 = m /\ end[k + 1] = m + 1
      BY <1>2, <2>3, <3>1
    <3>3. u[m + 1] = Unescaped(Got(k), c)
      BY <1>3, <2>2, <3>2
    <3>4. Unescaped(Got(k), c) = Put(Got(k), c, 0)
      BY <2>7 DEF Unescaped
    <3> HIDE DEF Got
    <3> QED  BY <2>5, <3>2, <3>3, <3>4
  <2> QED  BY <2>6, <2>7
<1>6. S = Nat
  <2>1. S \in SUBSET Nat
    OBVIOUS
  <2> HIDE DEF S
  <2> QED  BY <1>4, <1>5, <2>1, NatInduct
<1>7. u[Len(w)] = Got(n)
  <2>1. n \in S /\ n <= n
    <3> HIDE DEF S
    <3> QED  BY <1>0, <1>6
  <2> HIDE DEF Got
  <2> QED  BY <1>1, <2>1
<1>8. byte_unstuff(w) = SubSeq(data, 1, n)
  BY <1>3, <1>7 DEF Scan
<1>9. SubSeq(data, 1, n) = data
  BY SubSeqFull DEF n
<1> QED  BY <1>2, <1>8, <1>9 DEF w

-----------------------------------------------------------------------------
(* What is on the line and what is heard, of the two framing programs; the *)
(* channel spares them.                                                    *)
FramingInv ==
    /\ task \in Tasks /\ FramingSound
    /\ stage \in {"channel", "decode"} /\ task.code = "bits" => onLine = bit_stuff(task.data)
    /\ stage \in {"channel", "decode"} /\ task.code = "bytes" =>
        onLine = Enclose(<<"FLAG">>, byte_stuff(task.data))

(* The frame of byte_stuffing.c, with its flags and without them.          *)
LEMMA Unframes ==
    ASSUME NEW A, "FLAG" \in A, NEW p \in Seq(A)
    PROVE  LET f == Enclose(<<"FLAG">>, p)
           IN  /\ f \in Seq(A) /\ WellFramed(f) /\ Unframed(f) = p
               /\ Len(p) \in Nat /\ Len(f) = Len(p) + 2 /\ f[1] = "FLAG" /\ f[Len(p) + 2] = "FLAG"
               /\ \A i \in 1..Len(p) : f[1 + i] = p[i]
<1> DEFINE flag == <<"FLAG">>
           g == flag \o p
           f == g \o flag
           L == Len(p)
<1>1. flag \in Seq(A) /\ Len(flag) = 1 /\ flag[1] = "FLAG" /\ L \in Nat
  BY LenProperties
<1>2. /\ g \in Seq(A) /\ Len(g) = 1 + L /\ g[1] = "FLAG" /\ \A i \in 1..L : g[1 + i] = p[i]
  <2>1. /\ g \in Seq(A) /\ Len(g) = Len(flag) + L /\ \A i \in 1..Len(flag) : g[i] = flag[i]
        /\ \A i \in 1..L : g[Len(flag) + i] = p[i]
    <3> HIDE DEF flag
    <3> QED  BY <1>1, Joined
  <2> HIDE DEF g, flag, L
  <2> QED  BY <1>1, <2>1
<1>3. /\ f \in Seq(A) /\ Len(f) = (1 + L) + 1 /\ f[(1 + L) + 1] = "FLAG" /\ \A i \in 1..(1 + L) : f[i] = g[i]
  <2>1. /\ f \in Seq(A) /\ Len(f) = Len(g) + Len(flag) /\ \A i \in 1..Len(g) : f[i] = g[i]
        /\ \A i \in 1..Len(flag) : f[Len(g) + i] = flag[i]
    <3>1. g \in Seq(A) /\ flag \in Seq(A)
      BY <1>1, <1>2
    <3> HIDE DEF flag, g
    <3> QED  BY <3>1, Joined
  <2> HIDE DEF g, flag, L, f
  <2> QED  BY <1>1, <1>2, <2>1
<1>4. f = Enclose(<<"FLAG">>, p)
  BY DEF Enclose
<1> HIDE DEF f, g, flag, L
<1>5. f[1] = "FLAG" /\ \A i \in 1..L : f[1 + i] = p[i]
  <2>1. 1 \in 1..(1 + L) /\ \A i \in 1..L : 1 + i \in 1..(1 + L)
    BY <1>1
  <2> QED  BY <1>2, <1>3, <2>1
<1>6. WellFramed(f)
  <2>1. Head(f) = f[1]
    OBVIOUS
  <2> QED  BY <1>3, <1>5, <2>1 DEF WellFramed, Last
<1>7. Unframed(f) = p
  <2>1. Unframed(f) = SubSeq(f, 2, 1 + L)
    <3>1. Len(f) - 1 = 1 + L
      BY <1>1, <1>3
    <3> QED  BY <3>1 DEF Unframed
  <2>2. \A i \in 2..(1 + L) : f[i] \in A
    BY <1>1, <1>3, ElementOfSeq
  <2>3. /\ SubSeq(f, 2, 1 + L) \in Seq(A)
        /\ Len(SubSeq(f, 2, 1 + L)) = (IF 2 <= 1 + L THEN (1 + L) - 2 + 1 ELSE 0)
        /\ \A i \in 1..((1 + L) - 2 + 1) : SubSeq(f, 2, 1 + L)[i] = f[2 + i - 1]
    BY <1>1, <2>2, SubSeqProperties
  <2>4. Len(SubSeq(f, 2, 1 + L)) = L
    BY <1>1, <2>3
  <2>5. ASSUME NEW i \in 1..L PROVE SubSeq(f, 2, 1 + L)[i] = p[i]
    <3>1. i \in 1..((1 + L) - 2 + 1) /\ 2 + i - 1 = 1 + i
      BY <1>1
    <3> QED  BY <1>5, <2>3, <3>1
  <2> QED  BY <2>1, <2>3, <2>4, <2>5, SeqEqual DEF L
<1>8. /\ L \in Nat /\ Len(f) = L + 2 /\ f[L + 2] = "FLAG"
  <2>1. (1 + L) + 1 = L + 2
    BY <1>1
  <2> QED  BY <1>1, <1>3, <2>1
<1> QED  BY <1>3, <1>4, <1>5, <1>6, <1>7, <1>8 DEF L

(* What EscapedAt computes.                                                *)
LEMMA EscapedIs ==
    ASSUME NEW A, NEW f \in Seq(A)
    PROVE  \A i \in 1..Len(f) :
              /\ EscapedAt(f)[i] \in BOOLEAN
              /\ EscapedAt(f)[i] <=> i # 1 /\ f[i - 1] = "ESC" /\ ~EscapedAt(f)[i - 1]
<1> DEFINE D == 1..Len(f)
           V == BOOLEAN
           m == [i \in D |-> i]
           val(i, g) == i # 1 /\ f[i - 1] = "ESC" /\ ~g[i - 1]
           step == [q \in D \X [D -> V] |-> val(q[1], q[2])]
           Eq(g) == g = [i \in D |-> val(i, g)]
<1>1. EscapedAt(f) = CHOOSE g : Eq(g)
  BY DEF EscapedAt
<1>2. ASSUME NEW i \in D, NEW g \in [D -> V] PROVE val(i, g) \in V /\ step[<<i, g>>] = val(i, g)
  <2>1. <<i, g>> \in D \X [D -> V]
    OBVIOUS
  <2>2. val(i, g) \in V
    OBVIOUS
  <2> HIDE DEF val, D, V
  <2> QED  BY <2>1, <2>2
<1>3. step \in [D \X [D -> V] -> V]
  <2>1. \A q \in D \X [D -> V] : val(q[1], q[2]) \in V
    BY <1>2
  <2> HIDE DEF val, D, V
  <2> QED  BY <2>1
<1>4. IsRecursion(D, m, V, step)
  <2>1. ASSUME NEW i \in D, NEW g \in [D -> V], NEW h \in [D -> V], \A j \in D : m[j] < m[i] => g[j] = h[j]
        PROVE  step[<<i, g>>] = step[<<i, h>>]
    <3>1. i # 1 => i - 1 \in D /\ m[i - 1] < m[i]
      BY LenProperties
    <3>2. val(i, g) = val(i, h)
      BY <2>1, <3>1
    <3> HIDE DEF val, step
    <3> QED  BY <1>2, <3>2
  <2>2. \A i \in D : i \in Nat
    BY LenProperties
  <2>3. V # {} /\ m \in [D -> Nat]
    <3> HIDE DEF D
    <3> QED  BY <2>2
  <2> HIDE DEF D, V, m, step
  <2> QED  BY <1>3, <2>1, <2>3 DEF IsRecursion
<1>5. \E g : Eq(g)
  <2>1. PICK g : Solves(g, D, V, step)
    <3> HIDE DEF D, V, m, step
    <3> QED  BY <1>4, Recursion
  <2>2. g \in [D -> V] /\ \A i \in D : g[i] = val(i, g)
    <3> HIDE DEF D, V, step, val
    <3> QED  BY <1>2, <2>1 DEF Solves
  <2>3. g = [i \in D |-> val(i, g)]
    <3> HIDE DEF D, V, val
    <3> QED  BY <2>2
  <2> QED  BY <2>3
<1> DEFINE esc == EscapedAt(f)
<1>6. Eq(esc)
  <2> HIDE DEF Eq
  <2> QED  BY <1>1, <1>5
<1> HIDE DEF esc
<1>7. \A i \in D : esc[i] = val(i, esc)
  BY <1>6
<1>8. \A i \in D : val(i, esc) \in BOOLEAN
  OBVIOUS
<1> QED  BY <1>7, <1>8 DEF esc

(* No ESC makes data of the two ends of a frame of byte_stuffing.c, and    *)
(* one does of every other flag: the place after each escaped character of *)
(* the data is unescaped again.                                            *)
LEMMA FlagsEscaped ==
    ASSUME NEW A, "FLAG" \in A, "ESC" \in A, NEW data \in Seq(A)
    PROVE  LET f == Enclose(<<"FLAG">>, byte_stuff(data))
           IN  {i \in DOMAIN f : f[i] = "FLAG" /\ ~EscapedAt(f)[i]} = {1, Len(f)}
<1> DEFINE n == Len(data)
           w == byte_stuff(data)
           f == Enclose(<<"FLAG">>, w)
           L == Len(w)
           esc == EscapedAt(f)
<1>0. n \in Nat /\ \A k \in 1..n : data[k] \in A
  BY SeqTypes
<1>1. PICK end \in [0..n -> Nat] :
          /\ end[0] = 0 /\ end[n] = L
          /\ \A k \in 1..n :
              LET e == Escaped(data[k])
              IN  /\ Len(e) \in Nat /\ end[k] = end[k - 1] + Len(e) /\ end[k] <= L
                  /\ \A i \in 1..Len(e) : w[end[k - 1] + i] = e[i]
  BY EscapeUnits
<1>2. w \in Seq(A) /\ L \in Nat
  BY EscapeUnits
<1> HIDE DEF w, n
<1>3. /\ f \in Seq(A) /\ Len(f) = L + 2 /\ f[1] = "FLAG" /\ f[L + 2] = "FLAG"
      /\ \A i \in 1..L : f[1 + i] = w[i]
  BY <1>2, Unframes
<1>4. \A i \in 1..(L + 2) :
          esc[i] \in BOOLEAN /\ (esc[i] <=> i # 1 /\ f[i - 1] = "ESC" /\ ~esc[i - 1])
  BY <1>3, EscapedIs
<1>5. DOMAIN f = 1..(L + 2)
  BY <1>3, LenProperties
<1> HIDE DEF f, L, esc
<1> DEFINE Clear(e) == ~esc[e + 2] /\ \A i \in 2..(e + 1) : f[i] = "FLAG" => esc[i]
           S == {k \in Nat : k <= n => Clear(end[k])}
<1>6. 0 \in S
  <2>1. 2 \in 1..(L + 2) /\ 2 - 1 = 1 /\ 2..(0 + 1) = {} /\ 0 + 2 = 2
    BY <1>2
  <2>2. ~esc[2]
    BY <1>3, <1>4, <2>1
  <2> QED  BY <1>1, <2>1, <2>2
<1>7. ASSUME NEW k \in Nat, k \in S PROVE k + 1 \in S
  <2> SUFFICES ASSUME k + 1 <= n PROVE Clear(end[k + 1])
    OBVIOUS
  <2> DEFINE m == end[k]
             c == data[k + 1]
             e == Escaped(c)
  <2>1. k + 1 \in 1..n /\ (k + 1) - 1 = k /\ k \in 0..n /\ k <= n
    BY <1>0
  <2>2. Clear(m)
    <3> HIDE DEF Clear
    <3> QED  BY <1>7, <2>1
  <2>3. /\ m \in Nat /\ Len(e) \in Nat /\ end[k + 1] = m + Len(e) /\ m + Len(e) <= L
        /\ \A i \in 1..Len(e) : w[m + i] = e[i]
    BY <1>1, <2>1
  <2>4. \A i \in 1..Len(e) : f[(m + 1) + i] = e[i]
    <3> SUFFICES ASSUME NEW i \in 1..Len(e) PROVE f[(m + 1) + i] = e[i]
      OBVIOUS
    <3> HIDE DEF m, e
    <3>1. m + i \in 1..L /\ 1 + (m + i) = (m + 1) + i
      BY <1>2, <2>3
    <3> QED  BY <1>3, <2>3, <3>1
  <2> HIDE DEF m, c, S
  <2>5. CASE c \in {"FLAG", "ESC"}
    <3>1. Len(e) = 2 /\ e[1] = "ESC" /\ e[2] = c
      BY <2>5 DEF Escaped
    <3>2. /\ f[m + 2] = "ESC" /\ f[m + 3] = c /\ end[k + 1] = m + 2
          /\ m + 2 \in 1..(L + 2) /\ m + 3 \in 1..(L + 2) /\ m + 4 \in 1..(L + 2)
      <4>1. 1 \in 1..Len(e) /\ 2 \in 1..Len(e) /\ (m + 1) + 1 = m + 2 /\ (m + 1) + 2 = m + 3
        BY <2>3, <3>1
      <4>2. m + 2 <= L /\ end[k + 1] = m + 2
        BY <2>3, <3>1
      <4> QED  BY <1>2, <2>3, <2>4, <3>1, <4>1, <4>2
    <3> HIDE DEF e
    <3>3. (m + 3) - 1 = m + 2 /\ (m + 4) - 1 = m + 3 /\ m + 3 # 1
      BY <2>3
    <3>4. esc[m + 3] /\ ~esc[m + 2]
      BY <1>4, <2>2, <3>2, <3>3
    <3>5. ~esc[m + 4]
      BY <1>4, <3>2, <3>3, <3>4
    <3>6. ASSUME NEW i \in 2..((m + 2) + 1), f[i] = "FLAG" PROVE esc[i]
      <4>1. i \in 2..(m + 1) \/ i = m + 2 \/ i = m + 3
        BY <2>3
      <4> QED  BY <2>2, <3>2, <3>4, <3>6, <4>1
    <3>7. (m + 2) + 2 = m + 4
      BY <2>3
    <3> QED  BY <3>2, <3>5, <3>6, <3>7
  <2>6. CASE c \notin {"FLAG", "ESC"}
    <3>1. Len(e) = 1 /\ e[1] = c
      BY <2>6 DEF Escaped
    <3>2. /\ f[m + 2] = c /\ end[k + 1] = m + 1 /\ m + 2 \in 1..(L + 2) /\ m + 3 \in 1..(L + 2)
      <4>1. 1 \in 1..Len(e) /\ (m + 1) + 1 = m + 2
        BY <2>3, <3>1
      <4>2. m + 1 <= L /\ end[k + 1] = m + 1
        BY <2>3, <3>1
      <4> QED  BY <1>2, <2>3, <2>4, <3>1, <4>1, <4>2
    <3> HIDE DEF e
    <3>3. (m + 3) - 1 = m + 2 /\ (m + 1) + 2 = m + 3
      BY <2>3
    <3>4. ~esc[m + 3]
      BY <1>4, <2>6, <3>2, <3>3
    <3>5. ASSUME NEW i \in 2..((m + 1) + 1), f[i] = "FLAG" PROVE esc[i]
      <4>1. i \in 2..(m + 1) \/ i = m + 2
        BY <2>3
      <4> QED  BY <2>2, <2>6, <3>2, <3>5, <4>1
    <3> QED  BY <3>2, <3>3, <3>4, <3>5
  <2> QED  BY <2>5, <2>6
<1>8. S = Nat
  <2>1. S \in SUBSET Nat
    OBVIOUS
  <2> HIDE DEF S
  <2> QED  BY <1>6, <1>7, <2>1, NatInduct
<1>9. Clear(L)
  <2>1. n \in S /\ n <= n
    <3> HIDE DEF S
    <3> QED  BY <1>0, <1>8
  <2> HIDE DEF Clear
  <2> QED  BY <1>1, <2>1
<1>10. ASSUME NEW i \in 1..(L + 2) PROVE f[i] = "FLAG" /\ ~esc[i] <=> i \in {1, L + 2}
  <2>1. i = 1 \/ i \in 2..(L + 1) \/ i = L + 2
    BY <1>2
  <2>2. CASE i = 1
    <3>1. 1 \in 1..(L + 2)
      BY <1>2
    <3> QED  BY <1>3, <1>4, <2>2, <3>1
  <2>3. CASE i \in 2..(L + 1)
    <3>1. i # 1 /\ i # L + 2
      BY <1>2, <2>3
    <3> QED  BY <1>9, <2>3, <3>1
  <2>4. CASE i = L + 2
    BY <1>3, <1>9, <2>4
  <2> QED  BY <2>1, <2>2, <2>3, <2>4
<1>11. 1 \in 1..(L + 2) /\ L + 2 \in 1..(L + 2)
  BY <1>2
<1>12. {i \in DOMAIN f : f[i] = "FLAG" /\ ~esc[i]} = {1, Len(f)}
  BY <1>3, <1>5, <1>10, <1>11
<1> QED  BY <1>12 DEF f, w, esc

(* Nothing is on the line at the start.                                    *)
LEMMA FramingStarts == CodingInit => FramingInv
BY DEF CodingInit, FramingInv, FramingSound

(* Neither the programs nor the channel break the frames.                  *)
LEMMA FramingKept == FramingInv /\ [CodingNext]_codingVars => FramingInv'
<1> SUFFICES ASSUME FramingInv, [CodingNext]_codingVars PROVE FramingInv'
  OBVIOUS
<1>1. task \in Tasks /\ FramingSound
  BY DEF FramingInv
<1>2. CASE EncodeFrame
  <2>1. /\ task' = task /\ stage' = "channel"
        /\ task.code = "bits" => onLine' = bit_stuff(task.data)
        /\ task.code = "bytes" => onLine' = Enclose(<<"FLAG">>, byte_stuff(task.data))
    BY <1>2 DEF EncodeFrame, SendBits, SendBytes, SendParity, SendMatrix, SendChecksum, SendCrc, SendHamming, Sends, Send
  <2>2. ASSUME task.code = "bits"
        PROVE  LET framed == Enclose(FLAG, onLine')
               IN  \A i \in 1..(Len(framed) - 7) : SubSeq(framed, i, i + 7) = FLAG => i \in {1, Len(framed) - 7}
    <3>1. task.data \in Seq({0, 1})
      BY <1>1, <2>2, CodingAssumption
    <3>2. bit_stuff(task.data) \in Seq({0, 1}) /\ \E c \in 0..5 : ShortRuns(bit_stuff(task.data), c)
      BY <3>1, BitsBack
    <3>3. onLine' = bit_stuff(task.data)
      BY <2>1, <2>2
    <3> QED  BY <3>2, <3>3, FlagsApart
  <2>3. ASSUME task.code = "bytes"
        PROVE  {i \in DOMAIN onLine' : onLine'[i] = "FLAG" /\ ~EscapedAt(onLine')[i]} = {1, Len(onLine')}
    <3>1. task.data \in Seq(Characters) /\ "ESC" \in Characters /\ "FLAG" \in Characters
      BY <1>1, <2>3, CodingAssumption
    <3>2. onLine' = Enclose(<<"FLAG">>, byte_stuff(task.data))
      BY <2>1, <2>3
    <3> QED  BY <3>1, <3>2, FlagsEscaped
  <2>4. FramingSound'
    BY <2>1, <2>2, <2>3 DEF FramingSound
  <2> QED  BY <1>1, <2>1, <2>4 DEF FramingInv
<1>3. CASE Channel
  <2>1. stage = "channel" /\ stage' = "decode" /\ task' = task
    BY <1>3 DEF Channel
  <2>2. ASSUME task.code \in {"bits", "bytes"} PROVE onLine' = onLine
    <3>1. Noise = {{}}
      <4>1. Places = {}
        BY <2>2 DEF Places
      <4>2. task.code # "parity2d"
        BY <2>2
      <4> QED  BY <4>1, <4>2 DEF Noise
    <3>2. onLine' = [i \in DOMAIN onLine |-> Corrupted(i, {})]
      BY <1>3, <3>1 DEF Channel
    <3>3. \A i \in DOMAIN onLine : Corrupted(i, {}) = onLine[i]
      BY <2>2 DEF Corrupted
    <3>4. \E A : onLine \in Seq(A)
      <4>1. CASE task.code = "bits"
        <5>1. task.data \in Seq({0, 1})
          BY <1>1, <4>1, CodingAssumption
        <5> QED  BY <2>1, <4>1, <5>1, BitsBack DEF FramingInv
      <4>2. CASE task.code = "bytes"
        <5>1. task.data \in Seq(Characters) /\ "ESC" \in Characters /\ "FLAG" \in Characters
          BY <1>1, <4>2, CodingAssumption
        <5>2. byte_stuff(task.data) \in Seq(Characters)
          BY <5>1, BytesBack
        <5> QED  BY <2>1, <4>2, <5>1, <5>2, Unframes DEF FramingInv
      <4> QED  BY <2>2, <4>1, <4>2
    <3>5. onLine = [i \in DOMAIN onLine |-> onLine[i]]
      BY <3>4
    <3> QED  BY <3>2, <3>3, <3>5
  <2>3. FramingSound'
    BY <2>1 DEF FramingSound
  <2> QED  BY <1>1, <2>1, <2>2, <2>3 DEF FramingInv
<1>4. CASE DecodeFrame
  <2>1. stage = "decode" /\ stage' = "done" /\ task' = task
    BY <1>4 DEF DecodeFrame, HearBits, HearBytes, HearParity, HearChecksum, HearCrc, HearHamming, Hears, Hear
  <2>2. CASE task.code = "bits"
    <3>1. heard' = [ok |-> TRUE, data |-> bit_unstuff(onLine)]
      BY <1>4, <2>2 DEF DecodeFrame, HearBits, HearBytes, HearParity, HearChecksum, HearCrc, HearHamming, Hears, Hear
    <3>2. task.data \in Seq({0, 1}) /\ onLine = bit_stuff(task.data)
      BY <1>1, <2>1, <2>2, CodingAssumption DEF FramingInv
    <3>3. bit_unstuff(onLine) = task.data
      BY <3>2, BitsBack
    <3> QED  BY <1>1, <2>1, <2>2, <3>1, <3>3 DEF FramingInv, FramingSound
  <2>3. CASE task.code = "bytes"
    <3>1. heard' = [ok |-> WellFramed(onLine), data |-> byte_unstuff(Unframed(onLine))]
      BY <1>4, <2>3 DEF DecodeFrame, HearBits, HearBytes, HearParity, HearChecksum, HearCrc, HearHamming, Hears, Hear
    <3>2. task.data \in Seq(Characters) /\ "ESC" \in Characters /\ "FLAG" \in Characters
          /\ onLine = Enclose(<<"FLAG">>, byte_stuff(task.data))
      BY <1>1, <2>1, <2>3, CodingAssumption DEF FramingInv
    <3>3. byte_stuff(task.data) \in Seq(Characters) /\ byte_unstuff(byte_stuff(task.data)) = task.data
      BY <3>2, BytesBack
    <3>4. WellFramed(onLine) /\ Unframed(onLine) = byte_stuff(task.data)
      BY <3>2, <3>3, Unframes
    <3>5. heard' = [ok |-> TRUE, data |-> task.data]
      BY <3>1, <3>3, <3>4
    <3> QED  BY <1>1, <2>1, <2>3, <3>5 DEF FramingInv, FramingSound
  <2>4. CASE task.code \notin {"bits", "bytes"}
    BY <1>1, <2>1, <2>4 DEF FramingInv, FramingSound
  <2> QED  BY <2>2, <2>3, <2>4
<1>5. CASE UNCHANGED codingVars
  BY <1>5 DEF codingVars, FramingInv, FramingSound
<1> QED  BY <1>2, <1>3, <1>4, <1>5 DEF CodingNext

(* For every payload, bit and byte stuffing give back what they were       *)
(* given, no bits of a stuffed payload pass for a flag, and every FLAG     *)
(* character of one is escaped.                                            *)
THEOREM FramesAreSound == CodingSpec => []FramingSound
<1>1. FramingInv => FramingSound
  BY DEF FramingInv
<1> QED  BY <1>1, FramingStarts, FramingKept, PTL DEF CodingSpec

-----------------------------------------------------------------------------
(* distance_vector_routing.c and shortest_path_dijkstra.c.                 *)

(* Two nodes with a link between them.                                     *)
Linked(u, v) == cost[u][v] \notin {0, INF}

(* The least of a set of integers.                                         *)
LEMMA LeastIs ==
    ASSUME NEW S, NEW w \in S, \A x \in S : x \in Int /\ w <= x
    PROVE  Min(S) = w
<1> DEFINE M == CHOOSE x \in S : \A y \in S : x <= y
<1>1. M \in S /\ \A y \in S : M <= y
  OBVIOUS
<1>2. Min(S) = M
  BY DEF Min
<1> HIDE DEF M
<1>3. M \in Int /\ w \in Int /\ w <= M /\ M <= w
  BY <1>1
<1> QED  BY <1>2, <1>3

(* What is known of a network and of its nodes.                            *)
LEMMA NetworkTypes ==
    ASSUME cost \in Networks
    PROVE  /\ \A u, v \in Nodes : cost[u][v] \in 0..INF /\ cost[u][v] = cost[v][u] /\ (u = v <=> cost[u][v] = 0)
           /\ INF \in Nat \ {0} /\ NumRouters \in Nat /\ NumRouters >= 2 /\ src \in Nodes
           /\ \A u \in Nodes : u \in 0..(NumRouters - 1) /\ u \in Nat
BY RoutingAssumption DEF Nodes, src

(* A route of n nodes as a function, whose cost is a sum: the running      *)
(* totals of it.                                                           *)
IsLegs(P, p, n) ==
    /\ P \in [0..(n - 1) -> Int] /\ P[0] = 0
    /\ \A k \in 1..(n - 1) : P[k] = P[k - 1] + cost[p[k]][p[k + 1]]
    /\ RouteCost(p) = IF \E k \in 1..(n - 1) : cost[p[k]][p[k + 1]] = INF THEN INF ELSE P[n - 1]

(* Every route has such totals.                                            *)
LEMMA RouteLegs ==
    ASSUME cost \in Networks, NEW n \in Nat, n >= 2, NEW p \in [1..n -> Nodes]
    PROVE  \E P : IsLegs(P, p, n)
<1> DEFINE m == n - 1
           S == 1..m
           f == [a \in S |-> cost[p[a]][p[a + 1]]]
           Eq(it) == it = [s \in SUBSET S |-> IF s = {} THEN 0
                           ELSE LET x == CHOOSE x \in s : TRUE IN cost[p[x]][p[x + 1]] + it[s \ {x}]]
<1>1. m \in Nat /\ IsFiniteSet(S) /\ LinksOf(p) = S
  <2>1. m \in Nat /\ IsFiniteSet(1..m)
    BY FS_Interval
  <2>2. Len(p) = n
    OBVIOUS
  <2> QED  BY <2>1, <2>2 DEF LinksOf
<1>2. \A a \in S : f[a] = cost[p[a]][p[a + 1]] /\ f[a] \in Int
  <2>1. \A a \in S : p[a] \in Nodes /\ p[a + 1] \in Nodes
    OBVIOUS
  <2> HIDE DEF S
  <2> QED  BY <2>1, NetworkTypes
<1>3. MapThenSumSet(LAMBDA a : cost[p[a]][p[a + 1]], S) = (CHOOSE it : Eq(it))[S]
  BY DEF MapThenSumSet, MapThenFoldSet
<1> HIDE DEF S, f, m
<1>4. ASSUME NEW it PROVE Eq(it) <=> IsSum(it, f, S)
  <2>1. ASSUME NEW s \in SUBSET S, s # {}
        PROVE  f[CHOOSE x \in s : TRUE] = cost[p[CHOOSE x \in s : TRUE]][p[(CHOOSE x \in s : TRUE) + 1]]
    <3>1. (CHOOSE x \in s : TRUE) \in s
      BY <2>1
    <3> QED  BY <1>2, <3>1
  <2> DEFINE one(s) == IF s = {} THEN 0
                       ELSE LET x == CHOOSE x \in s : TRUE IN cost[p[x]][p[x + 1]] + it[s \ {x}]
             two(s) == IF s = {} THEN 0
                       ELSE LET x == CHOOSE x \in s : TRUE IN f[x] + it[s \ {x}]
  <2>2. \A s \in SUBSET S : one(s) = two(s)
    BY <2>1
  <2> HIDE DEF one, two
  <2>3. [s \in SUBSET S |-> one(s)] = [s \in SUBSET S |-> two(s)]
    BY <2>2
  <2> QED  BY <2>3 DEF IsSum, one, two
<1> HIDE DEF Eq
<1>5. \E it : Eq(it)
  BY <1>1, <1>2, <1>4, SumExists
<1> DEFINE it == CHOOSE it : Eq(it)
<1>6. IsSum(it, f, S)
  <2>1. Eq(it)
    BY <1>5
  <2> HIDE DEF it
  <2> QED  BY <1>4, <2>1
<1>7. MapThenSumSet(LAMBDA a : cost[p[a]][p[a + 1]], S) = it[S]
  BY <1>3
<1> HIDE DEF it
<1>8. PICK P : AreTotals(P, f, m)
  BY <1>1, <1>2, RunningTotals DEF S
<1>9. it[S] = P[m]
  <2>1. 1 \in 1..(m + 1) /\ m \in 0..m /\ 1 <= m + 1 /\ P[1 - 1] = 0 /\ P[m] \in Int
    BY <1>1, <1>8 DEF AreTotals
  <2>2. it[S] = P[m] - P[1 - 1]
    BY <1>6, <1>8, <2>1 DEF AreTotals, S
  <2> QED  BY <2>1, <2>2
<1>10. RouteCost(p) = IF \E k \in S : cost[p[k]][p[k + 1]] = INF THEN INF ELSE P[m]
  BY <1>1, <1>7, <1>9 DEF RouteCost
<1> QED  BY <1>2, <1>8, <1>10 DEF IsLegs, AreTotals, S, m

-----------------------------------------------------------------------------
(* A level for each node, which a link leads down by its cost at most.     *)
Levels(h) ==
    /\ h \in [Nodes -> 0..INF]
    /\ \A u, v \in Nodes : Linked(u, v) => h[u] <= cost[u][v] + h[v]

(* A way from node to node that leads down by just the costs of its links. *)
Trail(h, p, n) ==
    /\ n \in Nat /\ n >= 2 /\ p \in [1..n -> Nodes]
    /\ \A a \in 1..(n - 1) :
         Linked(p[a], p[a + 1]) /\ h[p[a]] = cost[p[a]][p[a + 1]] + h[p[a + 1]]

(* No route leads down by more than it costs.                              *)
LEMMA RouteLevels ==
    ASSUME cost \in Networks, NEW h, Levels(h), NEW i \in Nodes, NEW j \in Nodes, NEW p \in Routes(i, j)
    PROVE  RouteCost(p) \in Int /\ h[i] - h[j] <= RouteCost(p)
<1>1. PICK n \in 2..NumRouters : p \in [1..n -> Nodes]
  BY DEF Routes
<1>2. n \in Nat /\ n >= 2 /\ Len(p) = n
  BY <1>1, NetworkTypes
<1>3. p[1] = i /\ p[n] = j /\ \A a, b \in 1..n : p[a] = p[b] => a = b
  BY <1>1, <1>2 DEF Routes, Last
<1>4. PICK P : IsLegs(P, p, n)
  BY <1>1, <1>2, RouteLegs
<1>5. h[i] \in 0..INF /\ h[j] \in 0..INF /\ INF \in Nat
  BY NetworkTypes DEF Levels
<1>6. CASE \E k \in 1..(n - 1) : cost[p[k]][p[k + 1]] = INF
  <2>1. RouteCost(p) = INF
    BY <1>4, <1>6 DEF IsLegs
  <2> QED  BY <1>5, <2>1
<1>7. CASE ~\E k \in 1..(n - 1) : cost[p[k]][p[k + 1]] = INF
  <2> DEFINE S == {k \in Nat : k <= n - 1 => h[i] - h[p[k + 1]] <= P[k]}
  <2>1. 0 \in S
    <3>1. P[0] = 0
      BY <1>4 DEF IsLegs
    <3> QED  BY <1>3, <1>5, <3>1
  <2>2. ASSUME NEW k \in Nat, k \in S PROVE k + 1 \in S
    <3> SUFFICES ASSUME k + 1 <= n - 1 PROVE h[i] - h[p[k + 2]] <= P[k + 1]
      OBVIOUS
    <3>1. k + 1 \in 1..(n - 1) /\ (k + 1) - 1 = k /\ (k + 1) + 1 = k + 2 /\ k \in 0..(n - 1)
          /\ k + 1 \in 1..n /\ k + 2 \in 1..n /\ k <= n - 1
      BY <1>2
    <3>2. h[i] - h[p[k + 1]] <= P[k] /\ P[k] \in Int
      BY <1>4, <2>2, <3>1 DEF IsLegs
    <3> HIDE DEF S
    <3>3. P[k + 1] = P[k] + cost[p[k + 1]][p[k + 2]]
      BY <1>4, <3>1 DEF IsLegs
    <3> DEFINE u == p[k + 1]
               v == p[k + 2]
    <3>4. u \in Nodes /\ v \in Nodes /\ u # v
      BY <1>1, <1>3, <3>1
    <3>5. cost[u][v] \in 0..INF /\ cost[u][v] # 0 /\ cost[u][v] # INF
      <4>1. cost[u][v] # INF
        BY <1>7, <3>1
      <4> HIDE DEF u, v
      <4> QED  BY <3>4, <4>1, NetworkTypes
    <3>6. h[u] <= cost[u][v] + h[v] /\ h[u] \in 0..INF /\ h[v] \in 0..INF
      <4> HIDE DEF u, v
      <4> QED  BY <3>4, <3>5 DEF Levels, Linked
    <3>7. P[k + 1] = P[k] + cost[u][v] /\ h[i] - h[u] <= P[k]
      BY <3>2, <3>3
    <3> HIDE DEF u, v
    <3>8. h[i] - h[v] <= P[k + 1]
      BY <1>5, <3>2, <3>5, <3>6, <3>7
    <3> QED  BY <3>8 DEF v
  <2>3. S = Nat
    <3>1. S \in SUBSET Nat
      OBVIOUS
    <3> HIDE DEF S
    <3> QED  BY <2>1, <2>2, <3>1, NatInduct
  <2>4. n - 1 \in S /\ (n - 1) + 1 = n /\ n - 1 \in 0..(n - 1) /\ n - 1 <= n - 1
    BY <1>2, <2>3
  <2>5. h[i] - h[j] <= P[n - 1]
    BY <1>3, <2>4
  <2>6. RouteCost(p) = P[n - 1] /\ P[n - 1] \in Int
    BY <1>4, <1>7, <2>4 DEF IsLegs
  <2> QED  BY <2>5, <2>6
<1> QED  BY <1>6, <1>7

(* A trail is a route, and costs what it leads down by.                    *)
LEMMA TrailRoute ==
    ASSUME cost \in Networks, NEW h, Levels(h), NEW p, NEW n, Trail(h, p, n)
    PROVE  p \in Routes(p[1], p[n]) /\ RouteCost(p) = h[p[1]] - h[p[n]]
<1>1. n \in Nat /\ n >= 2 /\ p \in [1..n -> Nodes] /\ Len(p) = n /\ INF \in Nat
  BY NetworkTypes DEF Trail
<1>2. ASSUME NEW k \in 1..(n - 1)
      PROVE  /\ k \in 1..n /\ k + 1 \in 1..n /\ cost[p[k]][p[k + 1]] \in 1..(INF - 1)
             /\ h[p[k]] = cost[p[k]][p[k + 1]] + h[p[k + 1]] /\ h[p[k]] \in Nat /\ h[p[k + 1]] \in Nat
  <2>1. k \in 1..n /\ k + 1 \in 1..n
    BY <1>1
  <2> DEFINE u == p[k]
             v == p[k + 1]
  <2>2. u \in Nodes /\ v \in Nodes /\ cost[u][v] \notin {0, INF} /\ h[u] = cost[u][v] + h[v]
    BY <1>1, <2>1 DEF Trail, Linked
  <2> HIDE DEF u, v
  <2>3. cost[u][v] \in 0..INF /\ h[u] \in 0..INF /\ h[v] \in 0..INF
    BY <2>2, NetworkTypes DEF Levels
  <2>4. cost[u][v] \in 1..(INF - 1) /\ h[u] \in Nat /\ h[v] \in Nat
    BY <1>1, <2>2, <2>3
  <2> QED  BY <2>1, <2>2, <2>4 DEF u, v
<1>3. \A k \in 1..n : p[k] \in Nodes /\ h[p[k]] \in Nat
  BY <1>1 DEF Levels
<1>4. PICK P : IsLegs(P, p, n)
  BY <1>1, RouteLegs
<1>5. /\ P \in [0..(n - 1) -> Int] /\ P[0] = 0
      /\ \A k \in 1..(n - 1) : P[k] = P[k - 1] + cost[p[k]][p[k + 1]]
      /\ RouteCost(p) = P[n - 1]
  <2>1. ~\E k \in 1..(n - 1) : cost[p[k]][p[k + 1]] = INF
    BY <1>1, <1>2
  <2> QED  BY <1>4, <2>1 DEF IsLegs
<1> DEFINE S == {k \in Nat : k <= n - 1 => P[k] = h[p[1]] - h[p[k + 1]]}
           T == {k \in Nat : \A a \in 1..n : a + k <= n /\ k > 0 => h[p[a + k]] < h[p[a]]}
<1>6. S = Nat
  <2>1. 0 \in S
    <3>1. 1 \in 1..n /\ 0 + 1 = 1
      BY <1>1
    <3>2. h[p[1]] \in Nat
      BY <1>3, <3>1
    <3> QED  BY <1>5, <3>1, <3>2
  <2>2. ASSUME NEW k \in Nat, k \in S PROVE k + 1 \in S
    <3> SUFFICES ASSUME k + 1 <= n - 1 PROVE P[k + 1] = h[p[1]] - h[p[k + 2]]
      OBVIOUS
    <3>1. k + 1 \in 1..(n - 1) /\ (k + 1) - 1 = k /\ (k + 1) + 1 = k + 2 /\ k <= n - 1 /\ 1 \in 1..n
      BY <1>1
    <3>2. P[k] = h[p[1]] - h[p[k + 1]]
      BY <2>2, <3>1
    <3> HIDE DEF S, T
    <3>3. P[k + 1] = P[k] + cost[p[k + 1]][p[k + 2]]
      BY <1>5, <3>1
    <3>4. /\ h[p[k + 1]] = cost[p[k + 1]][p[k + 2]] + h[p[k + 2]] /\ cost[p[k + 1]][p[k + 2]] \in 1..(INF - 1)
          /\ h[p[k + 1]] \in Nat /\ h[p[k + 2]] \in Nat /\ h[p[1]] \in Nat
      BY <1>2, <1>3, <3>1
    <3> QED  BY <3>2, <3>3, <3>4
  <2>3. S \in SUBSET Nat
    OBVIOUS
  <2> HIDE DEF S, T
  <2> QED  BY <2>1, <2>2, <2>3, NatInduct
<1>7. T = Nat
  <2>1. 0 \in T
    OBVIOUS
  <2>2. ASSUME NEW k \in Nat, k \in T PROVE k + 1 \in T
    <3> SUFFICES ASSUME NEW a \in 1..n, a + (k + 1) <= n PROVE h[p[a + (k + 1)]] < h[p[a]]
      OBVIOUS
    <3>1. a + k \in 1..(n - 1) /\ (a + k) + 1 = a + (k + 1) /\ a + k <= n /\ a \in Nat
      BY <1>1
    <3>2. k = 0 \/ h[p[a + k]] < h[p[a]]
      BY <2>2, <3>1
    <3> HIDE DEF S, T
    <3>3. /\ h[p[a + k]] = cost[p[a + k]][p[a + (k + 1)]] + h[p[a + (k + 1)]]
          /\ cost[p[a + k]][p[a + (k + 1)]] \in 1..(INF - 1)
          /\ h[p[a + k]] \in Nat /\ h[p[a + (k + 1)]] \in Nat
      BY <1>2, <3>1
    <3>4. h[p[a]] \in Nat
      BY <1>3
    <3>5. k = 0 => h[p[a + k]] = h[p[a]]
      BY <3>1
    <3>6. h[p[a + k]] <= h[p[a]]
      BY <3>2, <3>3, <3>4, <3>5
    <3>7. h[p[a + (k + 1)]] < h[p[a + k]]
      <4> DEFINE u == h[p[a + k]]
                 v == h[p[a + (k + 1)]]
                 w == cost[p[a + k]][p[a + (k + 1)]]
      <4>1. u = w + v /\ w \in 1..(INF - 1) /\ u \in Nat /\ v \in Nat /\ INF \in Nat
        BY <1>1, <3>3
      <4> HIDE DEF u, v, w
      <4>2. v < u
        BY <4>1
      <4> QED  BY <4>2 DEF u, v
    <3> QED  BY <3>3, <3>4, <3>6, <3>7
  <2>3. T \in SUBSET Nat
    OBVIOUS
  <2> HIDE DEF S, T
  <2> QED  BY <2>1, <2>2, <2>3, NatInduct
<1>8. RouteCost(p) = h[p[1]] - h[p[n]]
  <2>1. n - 1 \in S /\ (n - 1) + 1 = n /\ n - 1 <= n - 1
    BY <1>1, <1>6
  <2> QED  BY <1>5, <2>1
<1>9. ASSUME NEW a \in 1..n, NEW b \in 1..n, p[a] = p[b] PROVE a = b
  <2>1. ASSUME NEW x \in 1..n, NEW y \in 1..n, x < y PROVE h[p[y]] < h[p[x]]
    <3>1. y - x \in Nat /\ x + (y - x) = y /\ y - x > 0 /\ y <= n
      BY <1>1, <2>1
    <3>2. y - x \in T
      BY <1>7, <3>1
    <3> QED  BY <3>1, <3>2
  <2>2. h[p[a]] \in Nat /\ h[p[b]] \in Nat /\ a \in Int /\ b \in Int
    BY <1>3
  <2>3. ~(a < b) /\ ~(b < a)
    BY <1>9, <2>1, <2>2
  <2> HIDE DEF S, T
  <2> QED  BY <2>2, <2>3
<1>10. n <= NumRouters
  <2>1. p \in Injection(1..n, Nodes)
    BY <1>1, <1>9 DEF Injection, IsInjective
  <2>2. IsFiniteSet(Nodes) /\ Cardinality(Nodes) = NumRouters
    BY FS_Interval, NetworkTypes DEF Nodes
  <2>3. Cardinality(1..n) <= NumRouters
    BY <2>1, <2>2, FS_Injection
  <2>4. Cardinality(1..n) = n
    BY <1>1, FS_Interval
  <2> QED  BY <2>3, <2>4
<1>11. p \in Routes(p[1], p[n])
  <2>1. n \in 2..NumRouters /\ DOMAIN p = 1..n /\ Last(p) = p[n]
    BY <1>1, <1>10, NetworkTypes DEF Last
  <2>2. \E m \in 2..NumRouters : p \in [1..m -> Nodes]
    BY <1>1, <2>1
  <2> QED  BY <1>9, <2>1, <2>2 DEF Routes
<1> QED  BY <1>8, <1>11

-----------------------------------------------------------------------------
(* The least of the routes' costs is that of a trail ...                   *)
LEMMA TrailShortest ==
    ASSUME cost \in Networks, NEW h, Levels(h), NEW p, NEW n, Trail(h, p, n)
    PROVE  Shortest(p[1], p[n]) = h[p[1]] - h[p[n]]
<1> DEFINE i == p[1]
           j == p[n]
           w == h[i] - h[j]
           S == {INF} \cup {RouteCost(q) : q \in Routes(i, j)}
<1>1. i \in Nodes /\ j \in Nodes
  BY DEF Trail
<1>2. p \in Routes(i, j) /\ RouteCost(p) = w
  BY TrailRoute
<1>3. i # j
  <2>1. Len(p) = n /\ n \in Nat /\ n >= 2 /\ DOMAIN p = 1..n
    BY DEF Trail
  <2>2. \A a, b \in 1..n : p[a] = p[b] => a = b
    BY <1>2, <2>1 DEF Routes
  <2>3. 1 \in 1..n /\ n \in 1..n /\ 1 # n
    BY <2>1
  <2> QED  BY <2>2, <2>3
<1> HIDE DEF i, j
<1>4. h[i] \in 0..INF /\ h[j] \in 0..INF /\ INF \in Nat
  BY <1>1, NetworkTypes DEF Levels
<1>5. w \in Int /\ w <= INF
  BY <1>4
<1>6. \A q \in Routes(i, j) : RouteCost(q) \in Int /\ w <= RouteCost(q)
  BY <1>1, RouteLevels
<1> HIDE DEF w
<1>7. w \in S /\ \A x \in S : x \in Int /\ w <= x
  BY <1>2, <1>4, <1>5, <1>6
<1> HIDE DEF S
<1>8. Min(S) = w
  BY <1>7, LeastIs
<1> QED  BY <1>3, <1>8 DEF Shortest, S, w, i, j

(* ... and no route is cheap enough if the whole height lies between.      *)
LEMMA NoRoute ==
    ASSUME cost \in Networks, NEW h, Levels(h), NEW i \in Nodes, NEW j \in Nodes, h[i] = INF, h[j] = 0
    PROVE  Shortest(i, j) = INF
<1> DEFINE S == {INF} \cup {RouteCost(q) : q \in Routes(i, j)}
<1>1. INF \in Nat \ {0} /\ INF - 0 = INF /\ i # j
  BY NetworkTypes
<1>2. \A q \in Routes(i, j) : RouteCost(q) \in Int /\ INF <= RouteCost(q)
  BY <1>1, RouteLevels
<1>3. INF \in S /\ \A x \in S : x \in Int /\ INF <= x
  BY <1>1, <1>2
<1> HIDE DEF S
<1>4. Min(S) = INF
  BY <1>3, LeastIs
<1> QED  BY <1>1, <1>4 DEF Shortest, S

(* Where each node of D has a next one in D, a trail leads to t.           *)
Leads(D, t, h, next) ==
    /\ D \subseteq Nodes /\ t \in D
    /\ \A v \in D \ {t} : next[v] \in D /\ Linked(v, next[v]) /\ h[v] = cost[v][next[v]] + h[next[v]]

(* ... by induction over the levels.                                       *)
LEMMA TrailsLead ==
    ASSUME cost \in Networks, NEW h, Levels(h), NEW D, NEW t, NEW next, Leads(D, t, h, next)
    PROVE  \A v \in D \ {t} : \E p, n : Trail(h, p, n) /\ p[1] = v /\ p[n] = t
<1> DEFINE m == [v \in D |-> h[v]]
           S == {v \in D : v # t => \E p, n : Trail(h, p, n) /\ p[1] = v /\ p[n] = t}
<1>1. m \in [D -> Nat] /\ D \subseteq Nodes
  BY NetworkTypes DEF Levels, Leads
<1>2. ASSUME NEW v \in D, \A u \in D : m[u] < m[v] => u \in S PROVE v \in S
  <2> SUFFICES ASSUME v # t PROVE \E p, n : Trail(h, p, n) /\ p[1] = v /\ p[n] = t
    OBVIOUS
  <2> DEFINE u == next[v]
  <2>1. u \in D /\ Linked(v, u) /\ h[v] = cost[v][u] + h[u]
    BY DEF Leads
  <2> HIDE DEF u
  <2>2. u \in Nodes /\ v \in Nodes /\ h[u] \in Nat /\ h[v] \in Nat /\ cost[v][u] \in Nat \ {0}
    BY <1>1, <2>1, NetworkTypes DEF Levels, Linked
  <2>3. u \in S
    <3>1. m[u] < m[v]
      BY <2>1, <2>2
    <3> HIDE DEF S, m
    <3> QED  BY <1>2, <2>1, <3>1
  <2>4. CASE u = t
    <3> DEFINE p == [a \in 1..2 |-> IF a = 1 THEN v ELSE u]
    <3>1. p \in [1..2 -> Nodes] /\ p[1] = v /\ p[2] = u /\ \A a \in 1..(2 - 1) : a = 1 /\ a + 1 = 2
      BY <2>2
    <3> HIDE DEF p
    <3>2. Trail(h, p, 2)
      BY <2>1, <3>1 DEF Trail
    <3> QED  BY <2>4, <3>1, <3>2
  <2>5. CASE u # t
    <3>1. PICK q, n : Trail(h, q, n) /\ q[1] = u /\ q[n] = t
      BY <2>3, <2>5
    <3>2. n \in Nat /\ n >= 2 /\ q \in [1..n -> Nodes]
      BY <3>1 DEF Trail
    <3> DEFINE p == [a \in 1..(n + 1) |-> IF a = 1 THEN v ELSE q[a - 1]]
    <3>3. p \in [1..(n + 1) -> Nodes]
      <4>1. \A a \in 1..(n + 1) : a # 1 => q[a - 1] \in Nodes
        BY <3>2
      <4> QED  BY <2>2, <4>1
    <3>4. p[1] = v /\ p[n + 1] = t /\ \A a \in 2..(n + 1) : p[a] = q[a - 1]
      BY <3>1, <3>2
    <3> HIDE DEF p
    <3>5. ASSUME NEW a \in 1..((n + 1) - 1)
          PROVE  Linked(p[a], p[a + 1]) /\ h[p[a]] = cost[p[a]][p[a + 1]] + h[p[a + 1]]
      <4>1. CASE a = 1
        <5>1. p[a] = v /\ p[a + 1] = u
          BY <3>1, <3>2, <3>4, <4>1
        <5> QED  BY <2>1, <5>1
      <4>2. CASE a # 1
        <5>1. a - 1 \in 1..(n - 1) /\ (a - 1) + 1 = a /\ a \in 2..(n + 1) /\ a + 1 \in 2..(n + 1) /\ (a + 1) - 1 = a
          BY <3>2, <4>2
        <5>2. p[a] = q[a - 1] /\ p[a + 1] = q[a]
          BY <3>4, <5>1
        <5> QED  BY <3>1, <5>1, <5>2 DEF Trail
      <4> QED  BY <4>1, <4>2
    <3>6. Trail(h, p, n + 1)
      BY <3>2, <3>3, <3>5 DEF Trail
    <3> QED  BY <3>4, <3>6
  <2> QED  BY <2>4, <2>5
<1>3. S = D
  <2>1. S \in SUBSET D
    OBVIOUS
  <2> HIDE DEF S, m
  <2> QED  BY <1>1, <1>2, <2>1, MeasureInduct
<1> QED  BY <1>3

-----------------------------------------------------------------------------
(* An entry of a routing table.                                            *)
Entry == [cost : 0..INF, next_hop : Nodes \cup {-1}]

(* One neighbour k, tried by router i for destination j.                   *)
Candidate(i, j, k) == cost[i][k] + table[k][j].cost
Tried(i, j, entry, k) ==
    IF cost[i][k] \notin {0, INF} /\ Candidate(i, j, k) < entry.cost
    THEN [cost |-> Candidate(i, j, k), next_hop |-> k] ELSE entry

(* The routers tried in order, as the steps of a fold.                     *)
LEMMA ImprovedSteps ==
    ASSUME cost \in Networks, table \in [Nodes -> [Nodes -> Entry]], NEW i \in Nodes, NEW j \in Nodes
    PROVE  \E acc \in [0..NumRouters -> Entry] :
              /\ acc[0] = table[i][j] /\ acc[NumRouters] = Improved(i, j)
              /\ \A k \in 1..NumRouters : acc[k] = Tried(i, j, acc[k - 1], k - 1)
<1> DEFINE n == NumRouters
           base == table[i][j]
           next == [q \in Entry \X (1..n) |-> Tried(i, j, q[1], q[2] - 1)]
           Eq(it) == it = [s \in SUBSET (1..n) |-> IF s = {} THEN base
                           ELSE LET x == Max(s) IN Tried(i, j, it[s \ {x}], NodeOrder[x])]
<1>1. n \in Nat /\ n >= 2 /\ base \in Entry
  BY NetworkTypes
<1>2. ASSUME NEW v \in Entry, NEW k \in 1..n
      PROVE  /\ Tried(i, j, v, k - 1) \in Entry /\ NodeOrder[k] = k - 1
             /\ next[<<v, k>>] = Tried(i, j, v, k - 1)
  <2>1. k - 1 \in Nodes /\ NodeOrder[k] = k - 1
    BY <1>1 DEF Nodes, NodeOrder
  <2>2. cost[i][k - 1] \in 0..INF /\ table[k - 1][j].cost \in 0..INF /\ v.cost \in 0..INF
    <3>1. table[k - 1][j] \in Entry
      BY <2>1
    <3> QED  BY <2>1, <3>1, NetworkTypes DEF Entry
  <2>3. Tried(i, j, v, k - 1) \in Entry
    BY <2>1, <2>2, NetworkTypes DEF Tried, Candidate, Entry
  <2>4. <<v, k>> \in Entry \X (1..n)
    OBVIOUS
  <2> HIDE DEF n
  <2> QED  BY <2>1, <2>3, <2>4
<1>3. next \in [Entry \X (1..n) -> Entry]
  <2>1. \A q \in Entry \X (1..n) : Tried(i, j, q[1], q[2] - 1) \in Entry
    BY <1>2
  <2> HIDE DEF n
  <2> QED  BY <2>1
<1>4. Improved(i, j) = (CHOOSE it : Eq(it))[1..n]
  <2>1. DOMAIN NodeOrder = 1..n
    BY DEF NodeOrder
  <2> HIDE DEF n
  <2>2. Improved(i, j) = (CHOOSE it : it = [s \in SUBSET (DOMAIN NodeOrder) |->
            IF s = {} THEN base
            ELSE LET x == Max(s) IN Tried(i, j, it[s \ {x}], NodeOrder[x])])[DOMAIN NodeOrder]
    BY DEF Improved, FoldLeft, MapThenFoldSet, Tried, Candidate
  <2> QED  BY <2>1, <2>2
<1> HIDE DEF n, base, next
<1>5. \A s \in SUBSET (1..n) : s # {} => Max(s) \in s
  BY <1>1, MaxIn
<1>6. \E it : Eq(it)
  <2>1. PICK it \in [SUBSET (1..n) -> Entry] : IsFold(it, n, base, next)
    BY <1>1, <1>3, FoldExists
  <2> DEFINE one(s) == IF s = {} THEN base ELSE LET x == Max(s) IN next[<<it[s \ {x}], x>>]
             two(s) == IF s = {} THEN base ELSE LET x == Max(s) IN Tried(i, j, it[s \ {x}], NodeOrder[x])
  <2>2. ASSUME NEW s \in SUBSET (1..n) PROVE one(s) = two(s)
    <3>1. CASE s # {}
      <4>1. Max(s) \in 1..n /\ it[s \ {Max(s)}] \in Entry
        BY <1>5, <2>1, <3>1
      <4> QED  BY <1>2, <3>1, <4>1
    <3> QED  BY <3>1
  <2>3. it = [s \in SUBSET (1..n) |-> one(s)]
    BY <2>1 DEF IsFold
  <2> HIDE DEF one, two
  <2>4. it = [s \in SUBSET (1..n) |-> two(s)]
    BY <2>2, <2>3
  <2> QED  BY <2>4 DEF two
<1> DEFINE it == CHOOSE it : Eq(it)
<1>7. Eq(it)
  <2> HIDE DEF Eq
  <2> QED  BY <1>6
<1>8. \A s \in SUBSET (1..n) : it[s] = IF s = {} THEN base ELSE Tried(i, j, it[s \ {Max(s)}], NodeOrder[Max(s)])
  <2> HIDE DEF it
  <2> QED  BY <1>7
<1>9. Improved(i, j) = it[1..n]
  BY <1>4
<1> HIDE DEF it, Eq
<1>10. Folds(it, n, Entry, base, next)
  <2>1. it[{}] = base
    BY <1>8
  <2>2. ASSUME NEW k \in 1..n, it[1..(k - 1)] \in Entry PROVE it[1..k] = next[<<it[1..(k - 1)], k>>]
    <3>1. Max(1..k) = k /\ (1..k) \ {k} = 1..(k - 1) /\ 1..k \in SUBSET (1..n) /\ 1..k # {}
      BY <1>1, MaxUpto
    <3>2. it[1..k] = Tried(i, j, it[1..(k - 1)], NodeOrder[k])
      BY <1>8, <3>1
    <3> QED  BY <1>2, <2>2, <3>2
  <2> QED  BY <1>1, <1>3, <2>1, <2>2 DEF Folds
<1>11. PICK acc : AreSteps(acc, n, Entry, base, next) /\ acc[n] = it[1..n]
  BY <1>1, <1>10, FoldSteps
<1>12. ASSUME NEW k \in 1..n PROVE acc[k] = Tried(i, j, acc[k - 1], k - 1)
  <2>1. k - 1 \in 0..n
    BY <1>1
  <2>2. acc[k - 1] \in Entry /\ acc[k] = next[<<acc[k - 1], k>>]
    BY <1>11, <2>1 DEF AreSteps
  <2> QED  BY <1>2, <2>2
<1> QED  BY <1>9, <1>11, <1>12 DEF AreSteps, n, base

(* What an entry becomes: it is that of the best neighbour if that is an   *)
(* improvement, and else as it was.                                        *)
LEMMA ImprovedEntry ==
    ASSUME cost \in Networks, table \in [Nodes -> [Nodes -> Entry]], NEW i \in Nodes, NEW j \in Nodes
    PROVE  /\ Improved(i, j) \in Entry /\ Improved(i, j).cost <= table[i][j].cost
           /\ \A k \in Nodes : Linked(i, k) => Improved(i, j).cost <= Candidate(i, j, k)
           /\ Improved(i, j) = table[i][j] \/ \E k \in Nodes :
                 /\ Linked(i, k) /\ Candidate(i, j, k) < table[i][j].cost
                 /\ Improved(i, j) = [cost |-> Candidate(i, j, k), next_hop |-> k]
<1> DEFINE base == table[i][j]
           Best(e, k) ==
             /\ e.cost <= base.cost
             /\ \A m \in Nodes : m < k /\ Linked(i, m) => e.cost <= Candidate(i, j, m)
             /\ e = base \/ \E m \in Nodes : /\ Linked(i, m) /\ Candidate(i, j, m) < base.cost
                                            /\ e = [cost |-> Candidate(i, j, m), next_hop |-> m]
<1>1. PICK acc \in [0..NumRouters -> Entry] :
              /\ acc[0] = base /\ acc[NumRouters] = Improved(i, j)
              /\ \A k \in 1..NumRouters : acc[k] = Tried(i, j, acc[k - 1], k - 1)
  BY ImprovedSteps
<1>2. base \in Entry /\ NumRouters \in Nat /\ \A m \in Nodes : Candidate(i, j, m) \in Int /\ m \in Nat /\ m < NumRouters
  <2>1. ASSUME NEW m \in Nodes PROVE Candidate(i, j, m) \in Int
    <3>1. table[m][j] \in Entry
      OBVIOUS
    <3>2. table[m][j].cost \in Int /\ cost[i][m] \in Int
      BY <3>1, NetworkTypes DEF Entry
    <3> QED  BY <3>2 DEF Candidate
  <2>2. \A m \in Nodes : m \in Nat /\ m < NumRouters
    BY NetworkTypes DEF Nodes
  <2> QED  BY <2>1, <2>2, NetworkTypes
<1>3. \A e \in Entry : e.cost \in Int
  BY NetworkTypes DEF Entry
<1> HIDE DEF base
<1> DEFINE S == {k \in Nat : k <= NumRouters => Best(acc[k], k)}
<1>4. 0 \in S
  <2>1. Best(base, 0)
    BY <1>2, <1>3
  <2> QED  BY <1>1, <2>1
<1>5. ASSUME NEW k \in Nat, k \in S PROVE k + 1 \in S
  <2> SUFFICES ASSUME k + 1 <= NumRouters PROVE Best(acc[k + 1], k + 1)
    OBVIOUS
  <2> DEFINE e == acc[k]
             f == acc[k + 1]
  <2>1. k + 1 \in 1..NumRouters /\ (k + 1) - 1 = k /\ k \in 0..NumRouters /\ k + 1 \in 0..NumRouters
        /\ k \in Nodes /\ k <= NumRouters
    BY <1>2 DEF Nodes
  <2>2. Best(e, k)
    BY <1>5, <2>1
  <2>3. f = Tried(i, j, e, k) /\ e \in Entry
    BY <1>1, <2>1
  <2> HIDE DEF e, f, S
  <2>4. e.cost \in Int /\ base.cost \in Int
    BY <1>2, <1>3, <2>3
  <2>5. ASSUME Linked(i, k), Candidate(i, j, k) < e.cost PROVE Best(f, k + 1)
    <3>1. f = [cost |-> Candidate(i, j, k), next_hop |-> k]
      BY <2>3, <2>5 DEF Tried, Linked
    <3>2. f.cost = Candidate(i, j, k) /\ f.cost \in Int /\ f.cost < e.cost /\ f.cost < base.cost
      BY <1>2, <2>1, <2>2, <2>4, <2>5, <3>1
    <3>3. ASSUME NEW m \in Nodes, m < k + 1, Linked(i, m) PROVE f.cost <= Candidate(i, j, m)
      <4>1. m < k \/ m = k
        BY <1>2, <3>3
      <4>2. m < k => e.cost <= Candidate(i, j, m)
        BY <2>2, <3>3
      <4>3. Candidate(i, j, m) \in Int
        BY <1>2
      <4> QED  BY <2>4, <3>2, <4>1, <4>2, <4>3
    <3>4. f.cost <= base.cost
      BY <2>4, <3>2
    <3> QED  BY <2>1, <2>5, <3>1, <3>2, <3>3, <3>4
  <2>6. ASSUME ~(Linked(i, k) /\ Candidate(i, j, k) < e.cost) PROVE Best(f, k + 1)
    <3>1. f = e
      BY <2>3, <2>6 DEF Tried, Linked
    <3>2. ASSUME NEW m \in Nodes, m < k + 1, Linked(i, m) PROVE e.cost <= Candidate(i, j, m)
      <4>1. m < k \/ m = k
        BY <1>2, <3>2
      <4>2. m < k => e.cost <= Candidate(i, j, m)
        BY <2>2, <3>2
      <4>3. Candidate(i, j, m) \in Int
        BY <1>2
      <4> QED  BY <2>4, <2>6, <3>2, <4>1, <4>2, <4>3
    <3> QED  BY <2>2, <3>1, <3>2
  <2> HIDE DEF Best
  <2>7. Best(f, k + 1)
    BY <2>5, <2>6
  <2> QED  BY <2>7 DEF f
<1>6. S = Nat
  <2>1. S \in SUBSET Nat
    OBVIOUS
  <2> HIDE DEF S
  <2> QED  BY <1>4, <1>5, <2>1, NatInduct
<1>7. Best(Improved(i, j), NumRouters)
  <2> HIDE DEF Best
  <2>1. NumRouters <= NumRouters
    BY <1>2
  <2>2. NumRouters \in S
    <3> HIDE DEF S
    <3> QED  BY <1>2, <1>6
  <2> QED  BY <1>1, <2>1, <2>2
<1>8. Improved(i, j) \in Entry
  <2>1. NumRouters \in 0..NumRouters
    BY <1>2
  <2> QED  BY <1>1, <2>1
<1> QED  BY <1>2, <1>7, <1>8 DEF base

-----------------------------------------------------------------------------
(* A finite entry leads on to a router whose own is less by the link.      *)
TablesLead ==
    /\ \A i \in Nodes : table[i][i].cost = 0
    /\ \A i, j \in Nodes : i # j /\ table[i][j].cost < INF =>
        /\ table[i][j].next_hop \in Nodes /\ Linked(i, table[i][j].next_hop)
        /\ table[i][j].cost >= Candidate(i, j, table[i][j].next_hop)

(* Router i would not change its table.                                    *)
Settled(i) == \A j, k \in Nodes : i # j /\ Linked(i, k) => table[i][j].cost <= Candidate(i, j, k)

(* The types of the variables.                                             *)
RoutingTypes ==
    /\ cost \in Networks /\ algorithm \in {"vector", "dijkstra", "done"}
    /\ table \in [Nodes -> [Nodes -> Entry]] /\ turn \in Nodes /\ updated \in BOOLEAN
    /\ dist \in [Nodes -> 0..INF] /\ visited \in SUBSET Nodes /\ parent \in [Nodes -> Nodes \cup {-1}]

(* A router whose turn has passed is settled unless the round changes a    *)
(* table, and at the end all are.                                          *)
VectorInv ==
    /\ TablesLead
    /\ algorithm = "vector" => visited = {} /\ (~updated => \A i \in Nodes : i < turn => Settled(i))
    /\ algorithm = "done" /\ visited = {} => \A i \in Nodes : Settled(i)

(* The visited are the nearest, have told their neighbours and hold up the *)
(* tree of parents.                                                        *)
VisitedNear ==
    \A u \in visited :
        /\ dist[u] < INF /\ \A w \in Nodes \ visited : dist[u] <= dist[w]
        /\ \A v \in Nodes : Linked(u, v) => dist[v] <= cost[u][v] + dist[u]
ParentsLead ==
    \A v \in Nodes \ {src} :
        IF dist[v] < INF THEN parent[v] \in visited /\ Linked(parent[v], v)
                              /\ dist[v] = cost[parent[v]][v] + dist[parent[v]]
                         ELSE parent[v] = -1
(* At the end all nodes but one are visited, or no other can be reached.   *)
DijkstraInv ==
    /\ dist[src] = 0 /\ parent[src] = -1 /\ VisitedNear /\ ParentsLead
    /\ algorithm = "done" /\ visited # {} => Cardinality(visited) = NumRouters - 1 \/ Reachable = {}

(* The inductive invariant of both programs.                               *)
RoutingInv == RoutingTypes /\ VectorInv /\ DijkstraInv

(* The tables hold the links, and no node is reached but the source.       *)
LEMMA RoutingStarts == RoutingInit => RoutingInv
<1> SUFFICES ASSUME RoutingInit PROVE RoutingInv
  OBVIOUS
<1>1. /\ cost \in Networks /\ algorithm \in {"vector", "dijkstra"} /\ turn = 0 /\ updated = FALSE /\ visited = {}
      /\ table = [i \in Nodes |-> [j \in Nodes |->
                  [cost |-> cost[i][j], next_hop |-> IF cost[i][j] # INF /\ i # j THEN j ELSE -1]]]
      /\ dist = [v \in Nodes |-> IF v = src THEN 0 ELSE INF] /\ parent = [v \in Nodes |-> -1]
  BY DEF RoutingInit
<1>2. INF \in Nat \ {0} /\ src \in Nodes /\ src = 0 /\ \A i \in Nodes : i \in Nat
  BY <1>1, NetworkTypes DEF src
<1>3. \A u, v \in Nodes : cost[u][v] \in 0..INF /\ (u = v <=> cost[u][v] = 0)
  BY <1>1, NetworkTypes
<1>4. ASSUME NEW i \in Nodes, NEW j \in Nodes
      PROVE  /\ table[i][j] \in Entry /\ table[i][j].cost = cost[i][j]
             /\ cost[i][j] # INF /\ i # j => table[i][j].next_hop = j
  <2> DEFINE next == IF cost[i][j] # INF /\ i # j THEN j ELSE -1
  <2>1. table[i][j] = [cost |-> cost[i][j], next_hop |-> next]
    BY <1>1
  <2>2. next \in Nodes \cup {-1} /\ (cost[i][j] # INF /\ i # j => next = j)
    OBVIOUS
  <2> HIDE DEF next
  <2>3. [cost |-> cost[i][j], next_hop |-> next] \in Entry
    BY <1>3, <2>2 DEF Entry
  <2> QED  BY <2>1, <2>2, <2>3
<1>5. RoutingTypes
  <2>1. \A i, j \in Nodes : table[i][j] \in Entry
    BY <1>4
  <2>2. table \in [Nodes -> [Nodes -> Entry]]
    <3>1. \A i \in Nodes : [j \in Nodes |->
                  [cost |-> cost[i][j], next_hop |-> IF cost[i][j] # INF /\ i # j THEN j ELSE -1]] = table[i]
      BY <1>1
    <3>2. \A i \in Nodes : table[i] \in [Nodes -> Entry]
      BY <2>1, <1>1
    <3> QED  BY <1>1, <3>1, <3>2
  <2>3. dist \in [Nodes -> 0..INF] /\ parent \in [Nodes -> Nodes \cup {-1}]
    BY <1>1, <1>2
  <2>4. turn \in Nodes
    BY <1>1, <1>2
  <2> QED  BY <1>1, <2>2, <2>3, <2>4 DEF RoutingTypes
<1>6. VectorInv
  <2>1. \A i \in Nodes : table[i][i].cost = 0
    BY <1>3, <1>4
  <2>2. ASSUME NEW i \in Nodes, NEW j \in Nodes, i # j, table[i][j].cost < INF
        PROVE  /\ table[i][j].next_hop \in Nodes /\ Linked(i, table[i][j].next_hop)
               /\ table[i][j].cost >= Candidate(i, j, table[i][j].next_hop)
    <3>1. table[i][j].cost = cost[i][j] /\ cost[i][j] \in 0..INF /\ cost[i][j] # INF /\ cost[i][j] # 0
      BY <1>2, <1>3, <1>4, <2>2
    <3>2. table[i][j].next_hop = j
      BY <1>4, <2>2, <3>1
    <3>3. table[j][j].cost = 0
      BY <2>1
    <3> QED  BY <3>1, <3>2, <3>3 DEF Linked, Candidate
  <2> QED  BY <1>1, <1>2, <2>1, <2>2 DEF VectorInv, TablesLead
<1>7. DijkstraInv
  BY <1>1, <1>2 DEF DijkstraInv, VisitedNear, ParentsLead
<1> QED  BY <1>5, <1>6, <1>7 DEF RoutingInv

(* A router's turn: its entries fall, and if none does it was settled.     *)
LEMMA TurnKeeps == RoutingInv /\ RouterTurn => RoutingInv'
<1> SUFFICES ASSUME RoutingInv, RouterTurn PROVE RoutingInv'
  OBVIOUS
<1> DEFINE t == turn
           row == [j \in Nodes |-> IF j = t THEN table[t][j] ELSE Improved(t, j)]
           again == updated \/ row # table[t]
           last == t = NumRouters - 1
<1>1. /\ cost \in Networks /\ table \in [Nodes -> [Nodes -> Entry]] /\ t \in Nodes /\ updated \in BOOLEAN
      /\ TablesLead /\ visited = {} /\ (~updated => \A i \in Nodes : i < t => Settled(i))
      /\ algorithm = "vector"
  BY DEF RoutingInv, RoutingTypes, VectorInv, RouterTurn
<1>2. /\ table' = [table EXCEPT ![t] = row]
      /\ turn' = IF last THEN 0 ELSE t + 1
      /\ updated' = (again /\ ~last)
      /\ algorithm' = IF last /\ ~again THEN "done" ELSE algorithm
      /\ cost' = cost /\ dist' = dist /\ visited' = visited /\ parent' = parent
  BY DEF RouterTurn, Updated, dijkstraVars
<1>3. /\ NumRouters \in Nat /\ NumRouters >= 2 /\ INF \in Nat \ {0}
      /\ \A u, v \in Nodes : cost[u][v] \in 0..INF /\ (u = v <=> cost[u][v] = 0)
      /\ \A u \in Nodes : u \in 0..(NumRouters - 1) /\ u \in Nat
  BY <1>1, NetworkTypes
<1>4. \A j \in Nodes : row[j] = IF j = t THEN table[t][j] ELSE Improved(t, j)
  OBVIOUS
<1>5. \A j \in Nodes : row[j] \in Entry
  BY <1>1, <1>4, ImprovedEntry
<1>6. row \in [Nodes -> Entry]
  BY <1>5
<1> HIDE DEF row
<1>7. /\ table' \in [Nodes -> [Nodes -> Entry]]
      /\ \A i, j \in Nodes : table'[i][j] = IF i = t THEN row[j] ELSE table[i][j]
  BY <1>1, <1>2, <1>6
<1>8. \A i, j \in Nodes : table[i][j] \in Entry /\ table[i][j].cost \in 0..INF
  <2>1. \A e \in Entry : e.cost \in 0..INF
    BY DEF Entry
  <2> QED  BY <1>1, <2>1
<1>9. \A i, j \in Nodes : table'[i][j].cost \in 0..INF /\ table'[i][j].cost <= table[i][j].cost
  <2>1. \A e \in Entry : e.cost \in 0..INF
    BY DEF Entry
  <2>2. \A j \in Nodes : row[j].cost <= table[t][j].cost
    BY <1>1, <1>3, <1>4, <1>8, ImprovedEntry
  <2>3. \A i, j \in Nodes : table'[i][j].cost \in 0..INF
    BY <1>5, <1>7, <1>8, <2>1
  <2> QED  BY <1>3, <1>7, <1>8, <2>2, <2>3
<1>10. RoutingTypes'
  <2>1. turn' \in Nodes
    BY <1>1, <1>2, <1>3 DEF Nodes
  <2>2. updated' \in BOOLEAN /\ algorithm' \in {"vector", "dijkstra", "done"}
    BY <1>1, <1>2
  <2> QED  BY <1>2, <1>7, <2>1, <2>2 DEF RoutingInv, RoutingTypes, Entry
<1>11. TablesLead'
  <2>1. ASSUME NEW i \in Nodes PROVE table'[i][i].cost = 0
    <3>1. table'[i][i] = table[i][i]
      BY <1>1, <1>4, <1>7
    <3> QED  BY <1>1, <3>1 DEF TablesLead
  <2>2. ASSUME NEW i \in Nodes, NEW j \in Nodes, i # j, table'[i][j].cost < INF
        PROVE  \E hop \in Nodes : /\ table'[i][j].next_hop = hop /\ Linked(i, hop)
                                 /\ table'[i][j].cost >= cost[i][hop] + table'[hop][j].cost
    <3>1. CASE table'[i][j] = table[i][j]
      <4> DEFINE hop == table[i][j].next_hop
      <4>1. hop \in Nodes /\ Linked(i, hop) /\ table[i][j].cost >= cost[i][hop] + table[hop][j].cost
        BY <1>1, <2>2, <3>1 DEF TablesLead, Candidate
      <4> HIDE DEF hop
      <4>2. /\ table'[hop][j].cost <= table[hop][j].cost /\ table'[hop][j].cost \in 0..INF /\ table[hop][j].cost \in 0..INF
            /\ table[i][j].cost \in 0..INF /\ cost[i][hop] \in 0..INF
        BY <1>3, <1>8, <1>9, <4>1
      <4>3. table[i][j].cost >= cost[i][hop] + table'[hop][j].cost
        BY <4>1, <4>2
      <4> QED  BY <3>1, <4>1, <4>3 DEF hop
    <3>2. CASE table'[i][j] # table[i][j]
      <4>1. i = t /\ table'[i][j] = Improved(t, j) /\ Improved(t, j) # table[t][j]
        BY <1>4, <1>7, <2>2, <3>2
      <4>2. PICK k \in Nodes : Linked(t, k) /\ Improved(t, j) = [cost |-> Candidate(t, j, k), next_hop |-> k]
        BY <1>1, <4>1, ImprovedEntry
      <4>3. k # t
        BY <1>1, <1>3, <4>2 DEF Linked
      <4>4. table'[k][j] = table[k][j]
        BY <1>7, <4>3
      <4>5. table'[i][j].next_hop = k /\ table'[i][j].cost = cost[i][k] + table'[k][j].cost
        BY <4>1, <4>2, <4>4 DEF Candidate
      <4>6. table'[i][j].cost \in Int
        BY <1>9
      <4> QED  BY <4>1, <4>2, <4>5, <4>6
    <3> QED  BY <3>1, <3>2
  <2> QED  BY <1>2, <2>1, <2>2 DEF TablesLead, Linked, Candidate
<1>12. ASSUME ~again PROVE table' = table /\ Settled(t) /\ \A i \in Nodes : i < t => Settled(i)
  <2>1. table' = table
    BY <1>1, <1>2, <1>12
  <2>2. ASSUME NEW j \in Nodes, NEW k \in Nodes, t # j, Linked(t, k)
        PROVE  table[t][j].cost <= Candidate(t, j, k)
    <3>1. table[t][j] = Improved(t, j)
      BY <1>4, <1>12, <2>2
    <3>2. Improved(t, j).cost <= Candidate(t, j, k)
      BY <1>1, <2>2, ImprovedEntry
    <3> QED  BY <3>1, <3>2
  <2> QED  BY <1>1, <1>12, <2>1, <2>2 DEF Settled
<1>13. VectorInv'
  <2>1. CASE again
    <3>1. algorithm' = "vector" /\ visited' = {} /\ updated' = ~last /\ (last => turn' = 0)
      BY <1>1, <1>2, <2>1
    <3>2. \A i \in Nodes : ~(i < 0)
      BY <1>3
    <3> HIDE DEF last
    <3> QED  BY <1>11, <3>1, <3>2 DEF VectorInv
  <2>2. CASE ~again
    <3>1. \A i \in Nodes : i <= t => Settled(i)
      <4> HIDE DEF again
      <4>1. \A i \in Nodes : i <= t => i < t \/ i = t
        <5> HIDE DEF t, last
        <5>1. t \in Nat /\ \A i \in Nodes : i \in Nat
          BY <1>1, <1>3
        <5> QED  BY <5>1
      <4> QED  BY <1>12, <2>2, <4>1
    <3>2. \A i \in Nodes : Settled(i) => Settled(i)'
      BY <1>2, <1>12, <2>2 DEF Settled, Linked, Candidate
    <3>3. CASE last
      <4>1. \A i \in Nodes : Settled(i)'
        BY <1>3, <3>1, <3>2, <3>3
      <4> QED  BY <1>2, <1>11, <2>2, <3>3, <4>1 DEF VectorInv
    <3>4. CASE ~last
      <4>1. turn' = t + 1 /\ algorithm' = "vector" /\ visited' = {}
        BY <1>1, <1>2, <3>4
      <4>2. \A i \in Nodes : i < turn' => Settled(i)'
        BY <1>1, <1>3, <3>1, <3>2, <4>1
      <4> QED  BY <1>11, <4>1, <4>2 DEF VectorInv
    <3> QED  BY <3>3, <3>4
  <2> QED  BY <2>1, <2>2
<1>14. DijkstraInv'
  BY <1>1, <1>2 DEF RoutingInv, DijkstraInv, VisitedNear, ParentsLead, Linked, Reachable
<1> QED  BY <1>10, <1>13, <1>14 DEF RoutingInv

(* The node visited is a nearest one of those not visited.                 *)
LEMMA NearestIs ==
    ASSUME RoutingTypes, Reachable # {}
    PROVE  Nearest \in Reachable /\ \A w \in Reachable : dist[Nearest] <= dist[w]
<1> DEFINE D == {dist[v] : v \in Reachable}
           S == {v \in Reachable : \A w \in Reachable : dist[v] <= dist[w]}
<1>1. Reachable \subseteq Nodes /\ Nodes \subseteq Nat /\ \A v \in Nodes : dist[v] \in Nat
  BY NetworkTypes DEF Reachable, RoutingTypes
<1>2. D \in SUBSET Nat /\ D # {}
  BY <1>1
<1>3. PICK d \in D : \A e \in D : d <= e
  <2> HIDE DEF D
  <2> QED  BY <1>2, NatLeast
<1>4. S # {} /\ S \in SUBSET Nat
  <2>1. PICK v \in Reachable : d = dist[v]
    BY <1>3
  <2>2. \A w \in Reachable : dist[w] \in D
    OBVIOUS
  <2>3. v \in S
    <3> HIDE DEF D
    <3> QED  BY <1>3, <2>1, <2>2
  <2> QED  BY <1>1, <2>3
<1>5. PICK m \in S : \A k \in S : m <= k
  <2> HIDE DEF S
  <2> QED  BY <1>4, NatLeast
<1>6. Min(S) = m
  <2>1. \A x \in S : x \in Int /\ m <= x
    BY <1>4, <1>5
  <2> HIDE DEF S
  <2> QED  BY <2>1, LeastIs
<1> QED  BY <1>5, <1>6 DEF Nearest

(* A visit: the nearest node joins the visited, and what it improves stays *)
(* no nearer than it.                                                      *)
LEMMA VisitKeeps == RoutingInv /\ Visit => RoutingInv'
<1> SUFFICES ASSUME RoutingInv, Visit PROVE RoutingInv'
  OBVIOUS
<1> DEFINE u == Nearest
<1>1. /\ cost \in Networks /\ visited \in SUBSET Nodes /\ dist \in [Nodes -> 0..INF]
      /\ parent \in [Nodes -> Nodes \cup {-1}] /\ dist[src] = 0 /\ parent[src] = -1
      /\ VisitedNear /\ ParentsLead /\ algorithm = "dijkstra" /\ Reachable # {}
  BY DEF RoutingInv, RoutingTypes, DijkstraInv, Visit
<1>2. /\ visited' = visited \cup {u}
      /\ dist' = [v \in Nodes |-> IF Closer(u, v) THEN dist[u] + cost[u][v] ELSE dist[v]]
      /\ parent' = [v \in Nodes |-> IF Closer(u, v) THEN u ELSE parent[v]]
      /\ cost' = cost /\ algorithm' = algorithm /\ table' = table /\ turn' = turn /\ updated' = updated
  BY DEF Visit, vectorVars
<1>3. /\ INF \in Nat \ {0} /\ src \in Nodes
      /\ \A v, w \in Nodes : cost[v][w] \in 0..INF /\ cost[v][w] = cost[w][v] /\ (v = w <=> cost[v][w] = 0)
  BY <1>1, NetworkTypes
<1>4. /\ u \in Nodes /\ u \notin visited /\ dist[u] < INF
      /\ \A w \in Nodes \ visited : dist[u] <= dist[w]
  <2>1. u \in Reachable /\ \A w \in Reachable : dist[u] <= dist[w]
    BY <1>1, NearestIs DEF RoutingInv
  <2>2. \A w \in Nodes : dist[w] \in 0..INF
    BY <1>1
  <2> HIDE DEF u
  <2>3. u \in Nodes /\ u \notin visited /\ dist[u] < INF
    BY <2>1 DEF Reachable
  <2>4. ASSUME NEW w \in Nodes \ visited PROVE dist[u] <= dist[w]
    <3>1. CASE dist[w] < INF
      BY <2>1, <3>1 DEF Reachable
    <3>2. CASE ~(dist[w] < INF)
      <4>1. dist[w] \in 0..INF /\ dist[u] \in 0..INF
        BY <2>2, <2>3
      <4> QED  BY <1>3, <2>3, <3>2, <4>1
    <3> QED  BY <3>1, <3>2
  <2> QED  BY <2>3, <2>4
<1> HIDE DEF u
<1>5. \A v \in Nodes : dist[v] \in 0..INF
  BY <1>1
(* What becomes of each distance.                                          *)
<1>6. ASSUME NEW v \in Nodes
      PROVE  /\ dist'[v] \in 0..INF /\ dist'[v] <= dist[v]
             /\ v \in visited \cup {u, src} => dist'[v] = dist[v] /\ parent'[v] = parent[v]
             /\ v \notin visited => dist[u] <= dist'[v]
             /\ Linked(u, v) => dist'[v] <= cost[u][v] + dist[u]
             /\ \/ dist'[v] = dist[v] /\ parent'[v] = parent[v]
                \/ Linked(u, v) /\ parent'[v] = u /\ dist'[v] = cost[u][v] + dist[u] /\ dist'[v] < INF
  <2> DEFINE d == dist[v]
             c == cost[u][v]
             e == dist[u]
             f == dist'[v]
  <2>1. d \in 0..INF /\ e \in 0..INF /\ c \in 0..INF /\ (c = 0 <=> u = v) /\ e < INF
        /\ (v \notin visited => e <= d)
    BY <1>3, <1>4, <1>5
  <2>2. f = IF Closer(u, v) THEN e + c ELSE d
    BY <1>2
  <2>3. parent'[v] = IF Closer(u, v) THEN u ELSE parent[v]
    BY <1>2
  <2>4. Closer(u, v) <=> v \notin visited /\ v # u /\ c # INF /\ e + c < d
    BY DEF Closer
  <2>5. Linked(u, v) <=> c # 0 /\ c # INF
    BY DEF Linked
  <2>6. v \in visited => d <= e
    BY <1>1, <1>4 DEF VisitedNear
  <2>7. v = src => d = 0
    BY <1>1
  <2> HIDE DEF d, c, e, f
  <2>8. Closer(u, v) => v \notin visited \cup {u, src}
    BY <1>3, <2>1, <2>4, <2>7
  <2>9. CASE Closer(u, v)
    <3>1. f = e + c /\ parent'[v] = u /\ e + c < d /\ v \notin visited \cup {u, src} /\ c # 0 /\ c # INF
      BY <2>1, <2>2, <2>3, <2>4, <2>8, <2>9
    <3>2. f \in 0..INF /\ f <= d /\ e <= f /\ f = c + e /\ f < INF
      BY <1>3, <2>1, <3>1
    <3> QED  BY <2>1, <2>5, <3>1, <3>2 DEF d, c, e, f
  <2>10. CASE ~Closer(u, v)
    <3>1. f = d /\ parent'[v] = parent[v] /\ f <= d /\ (v \notin visited => e <= f)
      BY <1>3, <2>1, <2>2, <2>3, <2>10
    <3>2. c # 0 /\ c # INF => f <= c + e
      BY <1>3, <2>1, <2>4, <2>6, <2>10, <3>1
    <3> QED  BY <2>1, <2>5, <3>1, <3>2 DEF d, c, e, f
  <2> QED  BY <2>9, <2>10
<1>7. RoutingTypes'
  <2>1. dist' \in [Nodes -> 0..INF]
    <3>1. \A v \in Nodes : (IF Closer(u, v) THEN dist[u] + cost[u][v] ELSE dist[v]) \in 0..INF
      BY <1>2, <1>6
    <3> QED  BY <1>2, <3>1
  <2>2. parent' \in [Nodes -> Nodes \cup {-1}] /\ visited' \in SUBSET Nodes
    BY <1>1, <1>2, <1>4
  <2> QED  BY <1>2, <2>1, <2>2 DEF RoutingInv, RoutingTypes, Entry
<1>8. VectorInv'
  <2>1. TablesLead'
    BY <1>2 DEF RoutingInv, VectorInv, TablesLead, Linked, Candidate
  <2> QED  BY <1>1, <1>2, <2>1 DEF VectorInv
<1>9. VisitedNear'
  <2>1. ASSUME NEW x \in visited \cup {u}
        PROVE  /\ dist'[x] < INF /\ \A w \in Nodes \ (visited \cup {u}) : dist'[x] <= dist'[w]
               /\ \A v \in Nodes : Linked(x, v) => dist'[v] <= cost[x][v] + dist'[x]
    <3>1. x \in Nodes /\ dist'[x] = dist[x] /\ dist[x] \in 0..INF /\ dist[u] \in 0..INF
      BY <1>1, <1>4, <1>5, <1>6
    <3>2. CASE x = u
      <4>1. \A w \in Nodes \ (visited \cup {u}) : dist[u] <= dist'[w]
        BY <1>6
      <4>2. \A v \in Nodes : Linked(u, v) => dist'[v] <= cost[u][v] + dist[u]
        BY <1>6
      <4> QED  BY <1>4, <3>1, <3>2, <4>1, <4>2
    <3>3. CASE x \in visited
      <4>1. dist[x] < INF /\ dist[x] <= dist[u]
        BY <1>1, <1>4, <3>3 DEF VisitedNear
      <4>2. ASSUME NEW w \in Nodes \ (visited \cup {u}) PROVE dist[x] <= dist'[w]
        <5>1. dist[u] <= dist'[w] /\ dist'[w] \in 0..INF
          BY <1>6
        <5> QED  BY <1>3, <3>1, <4>1, <5>1
      <4>3. ASSUME NEW v \in Nodes, Linked(x, v) PROVE dist'[v] <= cost[x][v] + dist[x]
        <5>1. dist[v] <= cost[x][v] + dist[x]
          BY <1>1, <3>3, <4>3 DEF VisitedNear
        <5>2. dist'[v] <= dist[v] /\ dist'[v] \in 0..INF /\ dist[v] \in 0..INF /\ cost[x][v] \in 0..INF
          BY <1>3, <1>5, <1>6, <3>1
        <5> QED  BY <1>3, <3>1, <5>1, <5>2
      <4> QED  BY <3>1, <4>1, <4>2, <4>3
    <3> QED  BY <3>2, <3>3
  <2> QED  BY <1>2, <2>1 DEF VisitedNear, Linked
<1>10. ParentsLead'
  <2>1. ASSUME NEW v \in Nodes \ {src}
        PROVE  IF dist'[v] < INF THEN parent'[v] \in visited \cup {u} /\ Linked(parent'[v], v)
                                      /\ dist'[v] = cost[parent'[v]][v] + dist'[parent'[v]]
                                 ELSE parent'[v] = -1
    <3>1. CASE dist'[v] = dist[v] /\ parent'[v] = parent[v]
      <4>1. CASE dist[v] < INF
        <5>1. parent[v] \in visited /\ Linked(parent[v], v) /\ dist[v] = cost[parent[v]][v] + dist[parent[v]]
          BY <1>1, <4>1 DEF ParentsLead
        <5>2. dist'[parent[v]] = dist[parent[v]]
          BY <1>1, <1>6, <5>1
        <5> QED  BY <3>1, <4>1, <5>1, <5>2
      <4>2. CASE ~(dist[v] < INF)
        BY <1>1, <3>1, <4>2 DEF ParentsLead
      <4> QED  BY <4>1, <4>2
    <3>2. CASE Linked(u, v) /\ parent'[v] = u /\ dist'[v] = cost[u][v] + dist[u] /\ dist'[v] < INF
      <4>1. dist'[u] = dist[u]
        BY <1>4, <1>6
      <4> QED  BY <3>2, <4>1
    <3> QED  BY <1>6, <3>1, <3>2
  <2> QED  BY <1>2, <2>1 DEF ParentsLead, Linked
<1>11. DijkstraInv'
  BY <1>1, <1>2, <1>3, <1>6, <1>9, <1>10 DEF DijkstraInv, src
<1> QED  BY <1>7, <1>8, <1>11 DEF RoutingInv

(* The search is over only after its source at least was visited.          *)
LEMMA EndKeeps == RoutingInv /\ VisitedAll => RoutingInv'
<1> SUFFICES ASSUME RoutingInv, VisitedAll PROVE RoutingInv'
  OBVIOUS
<1>1. /\ algorithm = "dijkstra" /\ algorithm' = "done" /\ cost' = cost
      /\ Cardinality(visited) = NumRouters - 1 \/ Reachable = {}
      /\ table' = table /\ turn' = turn /\ updated' = updated
      /\ dist' = dist /\ visited' = visited /\ parent' = parent
  BY DEF VisitedAll, vectorVars, dijkstraVars
<1>2. visited # {}
  <2> SUFFICES ASSUME visited = {} PROVE FALSE
    OBVIOUS
  <2>1. Cardinality(visited) = 0 /\ NumRouters \in Nat /\ NumRouters >= 2 /\ INF \in Nat \ {0} /\ src \in Nodes
    BY FS_EmptySet, NetworkTypes DEF RoutingInv, RoutingTypes
  <2>2. src \in Reachable
    BY <2>1 DEF RoutingInv, DijkstraInv, Reachable
  <2> QED  BY <1>1, <2>1, <2>2
<1>3. RoutingTypes'
  BY <1>1 DEF RoutingInv, RoutingTypes, Entry
<1>4. VectorInv'
  BY <1>1, <1>2 DEF RoutingInv, VectorInv, TablesLead, Linked, Candidate
<1>5. DijkstraInv'
  BY <1>1 DEF RoutingInv, DijkstraInv, VisitedNear, ParentsLead, Linked, Reachable
<1> QED  BY <1>3, <1>4, <1>5 DEF RoutingInv

-----------------------------------------------------------------------------
(* When the exchange has converged, the tables hold the least costs and    *)
(* their next hops are exact.                                              *)
LEMMA TablesShortest ==
    ASSUME RoutingInv, algorithm = "done", visited = {}, NEW i \in Nodes, NEW j \in Nodes, i # j
    PROVE  /\ table[i][j].cost = Shortest(i, j)
           /\ table[i][j].cost < INF =>
                 table[i][j].cost = cost[i][table[i][j].next_hop] + table[table[i][j].next_hop][j].cost
<1> DEFINE h == [v \in Nodes |-> table[v][j].cost]
           next == [v \in Nodes |-> table[v][j].next_hop]
           D == {v \in Nodes : h[v] < INF}
<1>1. cost \in Networks /\ table \in [Nodes -> [Nodes -> Entry]] /\ TablesLead /\ \A v \in Nodes : Settled(v)
  BY DEF RoutingInv, RoutingTypes, VectorInv
<1>2. /\ INF \in Nat \ {0}
      /\ \A v, w \in Nodes : cost[v][w] \in 0..INF /\ (v = w <=> cost[v][w] = 0)
  BY <1>1, NetworkTypes
<1>3. \A v \in Nodes : h[v] = table[v][j].cost /\ next[v] = table[v][j].next_hop
  OBVIOUS
<1>4. h \in [Nodes -> 0..INF]
  <2>1. \A e \in Entry : e.cost \in 0..INF
    BY DEF Entry
  <2>2. \A v \in Nodes : table[v][j].cost \in 0..INF
    BY <1>1, <2>1
  <2> QED  BY <2>2
<1> HIDE DEF h, next
<1>5. h[j] = 0
  BY <1>1, <1>3 DEF TablesLead
<1>6. Levels(h)
  <2>1. ASSUME NEW u \in Nodes, NEW v \in Nodes, Linked(u, v) PROVE h[u] <= cost[u][v] + h[v]
    <3>1. h[u] \in 0..INF /\ h[v] \in 0..INF /\ cost[u][v] \in 0..INF
      BY <1>2, <1>4
    <3>2. CASE u = j
      BY <1>2, <1>5, <3>1, <3>2
    <3>3. CASE u # j
      <4>1. table[u][j].cost <= Candidate(u, j, v)
        BY <1>1, <2>1, <3>3 DEF Settled
      <4> QED  BY <1>3, <4>1 DEF Candidate
    <3> QED  BY <3>2, <3>3
  <2> QED  BY <1>4, <2>1 DEF Levels
<1>7. ASSUME NEW v \in D, v # j
      PROVE  /\ v \in Nodes /\ next[v] \in D /\ Linked(v, next[v])
             /\ h[v] = cost[v][next[v]] + h[next[v]]
  <2> DEFINE u == next[v]
  <2>1. v \in Nodes /\ h[v] < INF /\ table[v][j].cost < INF
    BY <1>3
  <2>2. u \in Nodes /\ Linked(v, u) /\ h[v] >= cost[v][u] + h[u]
    <3>1. u = table[v][j].next_hop
      BY <1>3, <2>1
    <3> HIDE DEF u
    <3>2. u \in Nodes /\ Linked(v, u) /\ table[v][j].cost >= Candidate(v, j, u)
      BY <1>1, <1>7, <2>1, <3>1 DEF TablesLead
    <3> QED  BY <1>3, <2>1, <3>2 DEF Candidate
  <2> HIDE DEF u
  <2>3. h[v] <= cost[v][u] + h[u] /\ h[v] \in 0..INF /\ h[u] \in 0..INF /\ cost[v][u] \in 0..INF
    BY <1>2, <1>4, <1>6, <2>1, <2>2 DEF Levels
  <2>4. h[v] = cost[v][u] + h[u] /\ h[u] < INF
    BY <1>2, <2>1, <2>2, <2>3
  <2> QED  BY <2>1, <2>2, <2>4 DEF u
<1>8. CASE h[i] < INF
  <2>1. i \in D /\ j \in D /\ D \subseteq Nodes
    BY <1>2, <1>5, <1>8
  <2>2. Leads(D, j, h, next)
    BY <1>7, <2>1 DEF Leads
  <2>3. PICK p, n : Trail(h, p, n) /\ p[1] = i /\ p[n] = j
    <3> HIDE DEF D
    <3> QED  BY <1>1, <1>6, <2>1, <2>2, TrailsLead
  <2>4. Shortest(i, j) = h[i] - h[j]
    BY <1>1, <1>6, <2>3, TrailShortest
  <2>5. h[i] \in 0..INF
    BY <1>4
  <2>6. h[i] = cost[i][next[i]] + h[next[i]] /\ next[i] \in Nodes
    BY <1>7, <2>1
  <2> QED  BY <1>2, <1>3, <1>5, <2>4, <2>5, <2>6
<1>9. CASE ~(h[i] < INF)
  <2>1. h[i] = INF
    <3>1. h[i] \in 0..INF
      BY <1>4
    <3> QED  BY <1>2, <1>9, <3>1
  <2>2. Shortest(i, j) = INF
    BY <1>1, <1>5, <1>6, <2>1, NoRoute
  <2> QED  BY <1>3, <1>9, <2>1, <2>2
<1> QED  BY <1>8, <1>9

-----------------------------------------------------------------------------
(* What the search has left: a tree of parents and levels.                 *)
Tree ==
    /\ dist[src] = 0 /\ parent[src] = -1 /\ Levels(dist)
    /\ \A v \in Nodes \ {src} : dist[v] < INF =>
          /\ parent[v] \in Nodes /\ dist[parent[v]] < dist[v] /\ Linked(parent[v], v)
          /\ dist[v] = cost[parent[v]][v] + dist[parent[v]]
    /\ \A v \in Nodes : ~(v # src /\ dist[v] < INF) => parent[v] = -1

(* ... which holds when Dijkstra's search has ended.                       *)
LEMMA SearchEnds == RoutingInv /\ algorithm = "done" /\ visited # {} => Tree
<1> SUFFICES ASSUME RoutingInv, algorithm = "done", visited # {} PROVE Tree
  OBVIOUS
<1>1. /\ cost \in Networks /\ visited \in SUBSET Nodes /\ dist \in [Nodes -> 0..INF]
      /\ parent \in [Nodes -> Nodes \cup {-1}] /\ dist[src] = 0 /\ parent[src] = -1
      /\ VisitedNear /\ ParentsLead
      /\ Cardinality(visited) = NumRouters - 1 \/ Reachable = {}
  BY DEF RoutingInv, RoutingTypes, DijkstraInv
<1>2. /\ INF \in Nat \ {0} /\ NumRouters \in Nat /\ NumRouters >= 2
      /\ \A v, w \in Nodes : cost[v][w] \in 0..INF /\ cost[v][w] = cost[w][v] /\ (v = w <=> cost[v][w] = 0)
  BY <1>1, NetworkTypes
<1>3. \A v \in Nodes : dist[v] \in 0..INF
  BY <1>1
<1>4. ASSUME NEW u \in Nodes, NEW v \in Nodes, Linked(u, v) PROVE dist[v] <= cost[u][v] + dist[u]
  <2>1. dist[u] \in 0..INF /\ dist[v] \in 0..INF /\ cost[u][v] \in 0..INF /\ u # v
    BY <1>2, <1>3, <1>4 DEF Linked
  <2>2. CASE u \in visited
    BY <1>1, <1>4, <2>2 DEF VisitedNear
  <2>3. CASE u \notin visited /\ v \in visited
    <3>1. dist[v] <= dist[u]
      BY <1>1, <2>3 DEF VisitedNear
    <3> QED  BY <1>2, <2>1, <3>1
  <2>4. CASE u \notin visited /\ v \notin visited
    <3>1. Reachable = {}
      <4> SUFFICES ASSUME Cardinality(visited) = NumRouters - 1 PROVE FALSE
        BY <1>1
      <4>1. IsFiniteSet(Nodes) /\ Cardinality(Nodes) = NumRouters
        BY <1>2, FS_Interval DEF Nodes
      <4>2. visited \cup {u} \in SUBSET Nodes /\ visited \cup {u} # Nodes /\ IsFiniteSet(visited)
        BY <1>1, <2>1, <2>4, <4>1, FS_Subset
      <4>3. Cardinality(visited \cup {u}) = Cardinality(visited) + 1
        BY <2>4, <4>2, FS_AddElement
      <4>4. Cardinality(visited \cup {u}) < Cardinality(Nodes)
        <5> DEFINE T == visited \cup {u}
        <5>1. T \in SUBSET Nodes /\ T # Nodes
          BY <4>2
        <5> HIDE DEF T
        <5>2. Cardinality(T) <= Cardinality(Nodes) /\ Cardinality(T) # Cardinality(Nodes) /\ IsFiniteSet(T)
          BY <4>1, <5>1, FS_Subset
        <5>3. Cardinality(T) \in Nat /\ Cardinality(Nodes) \in Nat
          BY <4>1, <5>2, FS_CardinalityType
        <5> QED  BY <5>2, <5>3 DEF T
      <4> QED  BY <1>2, <4>1, <4>3, <4>4
    <3>2. dist[u] = INF
      <4>1. ~(dist[u] < INF)
        BY <2>4, <3>1 DEF Reachable
      <4> QED  BY <1>2, <2>1, <4>1
    <3> QED  BY <1>2, <2>1, <3>2
  <2> QED  BY <2>2, <2>3, <2>4
<1>5. Levels(dist)
  <2>1. ASSUME NEW u \in Nodes, NEW v \in Nodes, Linked(u, v) PROVE dist[u] <= cost[u][v] + dist[v]
    <3>1. Linked(v, u) /\ cost[u][v] = cost[v][u]
      BY <1>2, <2>1 DEF Linked
    <3> QED  BY <1>4, <3>1
  <2> QED  BY <1>1, <2>1 DEF Levels
<1>6. ASSUME NEW v \in Nodes \ {src}, dist[v] < INF
      PROVE  /\ parent[v] \in Nodes /\ dist[parent[v]] < dist[v] /\ Linked(parent[v], v)
             /\ dist[v] = cost[parent[v]][v] + dist[parent[v]]
  <2> DEFINE u == parent[v]
  <2>1. u \in visited /\ Linked(u, v) /\ dist[v] = cost[u][v] + dist[u]
    BY <1>1, <1>6 DEF ParentsLead
  <2> HIDE DEF u
  <2>2. u \in Nodes /\ dist[u] \in 0..INF /\ cost[u][v] \in 0..INF /\ cost[u][v] # 0
    BY <1>1, <1>2, <1>3, <2>1 DEF Linked
  <2>3. dist[u] < dist[v]
    BY <1>2, <2>1, <2>2
  <2> QED  BY <2>1, <2>2, <2>3 DEF u
<1>7. \A v \in Nodes : ~(v # src /\ dist[v] < INF) => parent[v] = -1
  BY <1>1 DEF ParentsLead
<1> QED  BY <1>1, <1>5, <1>6, <1>7 DEF Tree

(* The next hop for a node is that of its parent, but for the source's     *)
(* own neighbours.                                                         *)
LEMMA NextHopBack ==
    ASSUME cost \in Networks, Tree, NEW v \in Nodes \ {src}, dist[v] < INF
    PROVE  get_next_hop(v) = IF parent[v] = src THEN v ELSE get_next_hop(parent[v])
<1> DEFINE val(x, b) == IF parent[x] \in {-1, src} THEN x ELSE b[parent[x]]
           Eq(b) == b = [x \in Nodes |-> val(x, b)]
           step == [q \in Nodes \X [Nodes -> Nodes] |-> val(q[1], q[2])]
<1>1. /\ dist \in [Nodes -> Nat] /\ src \in Nodes /\ src # -1
      /\ \A x \in Nodes : parent[x] \notin {-1, src} => parent[x] \in Nodes /\ dist[parent[x]] < dist[x]
  <2>1. src \in Nodes /\ src # -1 /\ INF \in Nat
    BY NetworkTypes DEF src
  <2>2. dist \in [Nodes -> Nat]
    BY <2>1 DEF Tree, Levels
  <2>3. ASSUME NEW x \in Nodes, parent[x] \notin {-1, src} PROVE parent[x] \in Nodes /\ dist[parent[x]] < dist[x]
    BY <2>3 DEF Tree
  <2> QED  BY <2>1, <2>2, <2>3
<1>2. ASSUME NEW x \in Nodes, NEW b \in [Nodes -> Nodes] PROVE val(x, b) \in Nodes /\ step[<<x, b>>] = val(x, b)
  <2>1. val(x, b) \in Nodes
    BY <1>1
  <2>2. <<x, b>> \in Nodes \X [Nodes -> Nodes]
    OBVIOUS
  <2> HIDE DEF val
  <2> QED  BY <2>1, <2>2
<1>3. step \in [Nodes \X [Nodes -> Nodes] -> Nodes]
  <2>1. \A q \in Nodes \X [Nodes -> Nodes] : val(q[1], q[2]) \in Nodes
    BY <1>2
  <2> HIDE DEF val
  <2> QED  BY <2>1
<1>4. IsRecursion(Nodes, dist, Nodes, step)
  <2>1. ASSUME NEW x \in Nodes, NEW b \in [Nodes -> Nodes], NEW d \in [Nodes -> Nodes],
               \A y \in Nodes : dist[y] < dist[x] => b[y] = d[y]
        PROVE  step[<<x, b>>] = step[<<x, d>>]
    <3>1. val(x, b) = val(x, d)
      BY <1>1, <2>1
    <3> HIDE DEF val, step
    <3> QED  BY <1>2, <3>1
  <2> HIDE DEF step, val
  <2> QED  BY <1>1, <1>3, <2>1 DEF IsRecursion
<1> HIDE DEF step
<1>5. \E b : Eq(b)
  <2>1. PICK b : Solves(b, Nodes, Nodes, step)
    BY <1>4, Recursion
  <2>2. b \in [Nodes -> Nodes] /\ \A x \in Nodes : b[x] = val(x, b)
    BY <1>2, <2>1 DEF Solves
  <2> HIDE DEF val
  <2>3. b = [x \in Nodes |-> val(x, b)]
    BY <2>2
  <2> QED  BY <2>3
<1> DEFINE back == CHOOSE b : Eq(b)
<1>6. Eq(back)
  <2> HIDE DEF Eq
  <2> QED  BY <1>5
<1>7. \A x : get_next_hop(x) = IF x = src THEN src ELSE back[x]
  BY DEF get_next_hop
<1> HIDE DEF back
<1>8. \A x \in Nodes : back[x] = val(x, back)
  BY <1>6
<1>9. parent[v] \in Nodes /\ parent[v] # -1
  <2>1. parent[v] \in Nodes
    BY DEF Tree
  <2> QED  BY <2>1, NetworkTypes
<1> QED  BY <1>7, <1>8, <1>9

(* The same network seen from the other end: the levels the other way up.  *)
Flipped(h) == [v \in Nodes |-> INF - h[v]]

(* ... and they are levels too.                                            *)
LEMMA FlippedLevels ==
    ASSUME cost \in Networks, NEW h, Levels(h)
    PROVE  Levels(Flipped(h)) /\ \A v \in Nodes : h[v] \in 0..INF /\ Flipped(h)[v] = INF - h[v]
<1> DEFINE g == Flipped(h)
<1>1. \A v \in Nodes : h[v] \in 0..INF /\ g[v] = INF - h[v] /\ INF \in Nat
  BY NetworkTypes DEF Levels, Flipped
<1>2. g \in [Nodes -> 0..INF]
  <2>1. \A v \in Nodes : INF - h[v] \in 0..INF
    BY <1>1
  <2> QED  BY <2>1 DEF Flipped
<1> HIDE DEF g
<1>3. ASSUME NEW u \in Nodes, NEW v \in Nodes, Linked(u, v) PROVE g[u] <= cost[u][v] + g[v]
  <2>1. Linked(v, u) /\ cost[u][v] = cost[v][u] /\ cost[u][v] \in 0..INF
    BY <1>3, NetworkTypes DEF Linked
  <2>2. h[v] <= cost[v][u] + h[u]
    BY <2>1 DEF Levels
  <2> QED  BY <1>1, <2>1, <2>2
<1> QED  BY <1>1, <1>2, <1>3 DEF Levels, g

(* Parents lead back to t from every node of D, so the routes from t are   *)
(* known.                                                                  *)
LEMMA ParentsShortest ==
    ASSUME cost \in Networks, Tree, NEW t, NEW D, D \subseteq Nodes, t \in D,
           \A v \in D \ {t} : v # src /\ dist[v] < INF /\ parent[v] \in D
    PROVE  \A v \in D \ {t} : Shortest(t, v) = dist[v] - dist[t]
<1> SUFFICES ASSUME NEW v \in D \ {t} PROVE Shortest(t, v) = dist[v] - dist[t]
  OBVIOUS
<1>1. Leads(D, t, dist, parent)
  <2>1. ASSUME NEW x \in D \ {t}
        PROVE  parent[x] \in D /\ Linked(x, parent[x]) /\ dist[x] = cost[x][parent[x]] + dist[parent[x]]
    <3>1. x \in Nodes \ {src} /\ dist[x] < INF /\ parent[x] \in D /\ parent[x] \in Nodes
      OBVIOUS
    <3>2. Linked(parent[x], x) /\ dist[x] = cost[parent[x]][x] + dist[parent[x]]
      BY <3>1 DEF Tree
    <3>3. cost[parent[x]][x] = cost[x][parent[x]]
      BY <3>1, NetworkTypes
    <3> QED  BY <3>1, <3>2, <3>3 DEF Linked
  <2> QED  BY <2>1 DEF Leads
<1>2. Levels(dist)
  BY DEF Tree
<1>3. PICK p, n : Trail(dist, p, n) /\ p[1] = v /\ p[n] = t
  BY <1>1, <1>2, TrailsLead
<1>4. n \in Nat /\ n >= 2 /\ p \in [1..n -> Nodes]
  BY <1>3 DEF Trail
<1> DEFINE q == [a \in 1..n |-> p[(n + 1) - a]]
           g == Flipped(dist)
<1>5. q \in [1..n -> Nodes] /\ \A a \in 1..n : q[a] = p[(n + 1) - a]
  <2>1. \A a \in 1..n : (n + 1) - a \in 1..n
    BY <1>4
  <2> QED  BY <1>4, <2>1
<1> HIDE DEF q
<1>6. Levels(g) /\ \A x \in Nodes : dist[x] \in 0..INF /\ g[x] = INF - dist[x]
  BY <1>2, FlippedLevels
<1> HIDE DEF g
<1>7. q[1] = t /\ q[n] = v
  <2>1. 1 \in 1..n /\ n \in 1..n /\ (n + 1) - 1 = n /\ (n + 1) - n = 1
    BY <1>4
  <2> QED  BY <1>3, <1>5, <2>1
<1>8. Trail(g, q, n)
  <2>1. ASSUME NEW a \in 1..(n - 1)
        PROVE  Linked(q[a], q[a + 1]) /\ g[q[a]] = cost[q[a]][q[a + 1]] + g[q[a + 1]]
    <3>1. n - a \in 1..(n - 1) /\ (n - a) + 1 = (n + 1) - a /\ n - a = (n + 1) - (a + 1)
          /\ a \in 1..n /\ a + 1 \in 1..n
      BY <1>4
    <3> DEFINE u == q[a]
               w == q[a + 1]
    <3>2. u = p[(n - a) + 1] /\ w = p[n - a] /\ u \in Nodes /\ w \in Nodes
      BY <1>5, <3>1
    <3>3. Linked(p[n - a], p[(n - a) + 1])
          /\ dist[p[n - a]] = cost[p[n - a]][p[(n - a) + 1]] + dist[p[(n - a) + 1]]
      BY <1>3, <3>1 DEF Trail
    <3>4. Linked(w, u) /\ dist[w] = cost[w][u] + dist[u]
      BY <3>2, <3>3
    <3> HIDE DEF u, w
    <3>5. cost[w][u] = cost[u][w] /\ cost[u][w] \in 0..INF /\ INF \in Nat
      BY <3>2, NetworkTypes
    <3>6. Linked(u, w) /\ g[u] = cost[u][w] + g[w]
      BY <1>6, <3>2, <3>4, <3>5 DEF Linked
    <3> QED  BY <3>6 DEF u, w
  <2> QED  BY <1>4, <1>5, <2>1 DEF Trail
<1>9. Shortest(t, v) = g[t] - g[v]
  BY <1>6, <1>7, <1>8, TrailShortest
<1>10. t \in Nodes /\ v \in Nodes /\ INF \in Nat
  BY NetworkTypes
<1> QED  BY <1>6, <1>9, <1>10

(* When the search is over, the distances are the least costs and the next *)
(* hops begin routes of that cost.                                         *)
LEMMA DistancesShortest ==
    ASSUME cost \in Networks, Tree, NEW j \in Nodes \ {src}
    PROVE  /\ dist[j] = Shortest(src, j)
           /\ dist[j] < INF => dist[j] = cost[src][get_next_hop(j)] + Shortest(get_next_hop(j), j)
<1>1. /\ src \in Nodes /\ INF \in Nat \ {0} /\ dist[src] = 0 /\ Levels(dist)
      /\ \A v \in Nodes : dist[v] \in 0..INF
  BY NetworkTypes DEF Tree, Levels
<1>2. \A v \in Nodes \ {src} : dist[v] < INF =>
          /\ parent[v] \in Nodes /\ dist[parent[v]] < dist[v] /\ Linked(parent[v], v)
          /\ dist[v] = cost[parent[v]][v] + dist[parent[v]]
  BY DEF Tree
<1>3. CASE dist[j] < INF
  <2> DEFINE D == {v \in Nodes : dist[v] < INF}
             g == get_next_hop(j)
             E == {v \in Nodes \ {src} : dist[v] < INF /\ get_next_hop(v) = g}
             S == {v \in D : v # src => get_next_hop(v) \in D \ {src} /\ parent[get_next_hop(v)] = src
                                         /\ get_next_hop(get_next_hop(v)) = get_next_hop(v)}
             m == [v \in D |-> dist[v]]
  <2>1. \A v \in D \ {src} : v # src /\ dist[v] < INF /\ parent[v] \in D
    BY <1>1, <1>2
  <2>2. Shortest(src, j) = dist[j] - dist[src]
    <3>1. D \subseteq Nodes /\ src \in D /\ j \in D
      BY <1>1, <1>3
    <3> HIDE DEF D
    <3> QED  BY <2>1, <3>1, ParentsShortest
  <2>3. dist[j] = Shortest(src, j)
    BY <1>1, <2>2
  <2>4. S = D
    <3>1. S \in SUBSET D /\ m \in [D -> Nat]
      BY <1>1
    <3>2. ASSUME NEW v \in D, \A u \in D : m[u] < m[v] => u \in S PROVE v \in S
      <4> SUFFICES ASSUME v # src
                   PROVE  get_next_hop(v) \in D \ {src} /\ parent[get_next_hop(v)] = src
                          /\ get_next_hop(get_next_hop(v)) = get_next_hop(v)
        OBVIOUS
      <4>1. get_next_hop(v) = IF parent[v] = src THEN v ELSE get_next_hop(parent[v])
        BY NextHopBack
      <4>2. CASE parent[v] = src
        BY <4>1, <4>2
      <4>3. CASE parent[v] # src
        <5>1. parent[v] \in D /\ m[parent[v]] < m[v]
          BY <1>2, <2>1
        <5>2. parent[v] \in S
          BY <3>2, <5>1
        <5> QED  BY <4>1, <4>3, <5>2
      <4> QED  BY <4>2, <4>3
    <3> HIDE DEF D, S, m
    <3> QED  BY <3>1, <3>2, MeasureInduct
  <2>5. g \in Nodes \ {src} /\ dist[g] < INF /\ parent[g] = src /\ get_next_hop(g) = g
    <3>1. j \in S /\ j # src
      BY <1>3, <2>4
    <3> QED  BY <3>1
  <2> HIDE DEF D, S, m
  <2>6. dist[g] = cost[src][g]
    <3>1. dist[g] = cost[src][g] + dist[src] /\ cost[src][g] \in 0..INF
      BY <1>1, <1>2, <2>5, NetworkTypes
    <3> QED  BY <1>1, <3>1
  <2>7. ASSUME NEW v \in E, v # g PROVE v # src /\ dist[v] < INF /\ parent[v] \in E
    <3>1. v \in Nodes \ {src} /\ dist[v] < INF /\ get_next_hop(v) = g
      OBVIOUS
    <3>2. parent[v] # src /\ get_next_hop(parent[v]) = g
      BY <2>7, <3>1, NextHopBack
    <3>3. parent[v] \in Nodes /\ dist[parent[v]] < INF
      BY <1>1, <1>2, <3>1
    <3> QED  BY <3>1, <3>2, <3>3
  <2>8. dist[j] = cost[src][g] + Shortest(g, j)
    <3>1. CASE g = j
      <4>1. Shortest(g, j) = 0
        BY <3>1 DEF Shortest
      <4>2. dist[g] \in Int
        BY <1>1, <2>5
      <4> QED  BY <2>6, <3>1, <4>1, <4>2
    <3>2. CASE g # j
      <4>1. E \subseteq Nodes /\ g \in E /\ j \in E
        BY <1>3, <2>5
      <4> HIDE DEF E
      <4>2. Shortest(g, j) = dist[j] - dist[g]
        <5> HIDE DEF g
        <5> QED  BY <2>7, <3>2, <4>1, ParentsShortest
      <4>3. dist[g] \in Int /\ dist[j] \in Int
        BY <1>1, <2>5
      <4> QED  BY <2>6, <4>2, <4>3
    <3> QED  BY <3>1, <3>2
  <2> QED  BY <2>3, <2>8
<1>4. CASE ~(dist[j] < INF)
  <2> DEFINE g == Flipped(dist)
  <2>1. Levels(g) /\ \A x \in Nodes : g[x] = INF - dist[x]
    BY <1>1, FlippedLevels
  <2> HIDE DEF g
  <2>2. dist[j] = INF
    BY <1>1, <1>4
  <2>3. g[src] = INF /\ g[j] = 0
    BY <1>1, <2>1, <2>2
  <2>4. Shortest(src, j) = INF
    BY <1>1, <2>1, <2>3, NoRoute
  <2> QED  BY <1>4, <2>2, <2>4
<1> QED  BY <1>3, <1>4

(* Both programs find the least costs, on every network.                   *)
THEOREM RoutesAreShortest == RoutingSpec => []RoutesShortest
<1>1. RoutingInv /\ [RoutingNext]_routingVars => RoutingInv'
  <2> SUFFICES ASSUME RoutingInv, [RoutingNext]_routingVars PROVE RoutingInv'
    OBVIOUS
  <2>1. CASE RoutingNext
    BY <2>1, TurnKeeps, VisitKeeps, EndKeeps DEF RoutingNext
  <2>2. CASE UNCHANGED routingVars
    BY <2>2 DEF routingVars, vectorVars, dijkstraVars, RoutingInv, RoutingTypes, VectorInv, TablesLead, Settled,
         DijkstraInv, VisitedNear, ParentsLead, Linked, Candidate, Reachable, Entry
  <2> QED  BY <2>1, <2>2
<1>2. RoutingInv => RoutesShortest
  <2> SUFFICES ASSUME RoutingInv PROVE RoutesShortest
    OBVIOUS
  <2>1. cost \in Networks
    BY DEF RoutingInv, RoutingTypes
  <2>2. ASSUME NEW i \in Nodes, NEW j \in Nodes, i # j, table[i][j].cost < INF
        PROVE  LET hop == table[i][j].next_hop
               IN  hop \in Nodes /\ table[i][j].cost >= cost[i][hop] + table[hop][j].cost
    BY <2>2 DEF RoutingInv, VectorInv, TablesLead, Candidate
  <2>3. ASSUME algorithm = "done", visited = {}, NEW i \in Nodes, NEW j \in Nodes, i # j
        PROVE  /\ table[i][j].cost = Shortest(i, j)
               /\ table[i][j].cost < INF =>
                     LET hop == table[i][j].next_hop IN table[i][j].cost = cost[i][hop] + table[hop][j].cost
    BY <2>3, TablesShortest
  <2>4. ASSUME algorithm = "done", visited # {}, NEW j \in Nodes \ {src}
        PROVE  /\ dist[j] = Shortest(src, j)
               /\ dist[j] < INF => dist[j] = cost[src][get_next_hop(j)] + Shortest(get_next_hop(j), j)
    BY <2>1, <2>4, SearchEnds, DistancesShortest
  <2> QED  BY <2>2, <2>3, <2>4 DEF RoutesShortest
<1> QED  BY <1>1, <1>2, RoutingStarts, PTL DEF RoutingSpec
=============================================================================
