------------------------------ MODULE DataLemmas ------------------------------
(***************************************************************************)
(* Induction over data, in a form the provers can use: the principles of   *)
(* the library are about operators, those below about sets and functions,  *)
(* and so are the facts about the recursive functions, folds and sums that *)
(* the models of the laboratory programs are made of.                      *)
(***************************************************************************)
EXTENDS Integers, Sequences, FiniteSetsExt, WellFoundedInduction, FiniteSetTheorems, TLAPS

(* A set of natural numbers has a least element.                           *)
LEMMA NatLeast ==
    ASSUME NEW S \in SUBSET Nat, S # {}
    PROVE  \E m \in S : \A k \in S : m <= k
<1>1. \E x \in S : \A y \in S : ~(<<y, x>> \in OpToRel(<, Nat))
  BY NatLessThanWellFounded, WFMin, Zenon
<1>2. PICK m \in S : \A y \in S : ~(<<y, m>> \in OpToRel(<, Nat))
  BY <1>1
<1>3. ASSUME NEW k \in S PROVE ~(k < m)
  BY <1>2 DEF OpToRel
<1> QED  BY <1>3

(* Induction: the numbers that have a property are a set S.                *)
LEMMA NatInduct ==
    ASSUME NEW S \in SUBSET Nat, 0 \in S, \A n \in S : n + 1 \in S
    PROVE  S = Nat
<1> SUFFICES ASSUME Nat \ S # {} PROVE FALSE
  OBVIOUS
<1>1. PICK m \in Nat \ S : \A k \in Nat \ S : m <= k
  <2> DEFINE T == Nat \ S
  <2>1. T \in SUBSET Nat /\ T # {}
    OBVIOUS
  <2> HIDE DEF T
  <2>2. \E m \in T : \A k \in T : m <= k
    BY <2>1, NatLeast
  <2> QED  BY <2>2 DEF T
<1>2. m # 0 /\ m - 1 \in Nat
  BY <1>1
<1>3. m - 1 \in S
  BY <1>1, <1>2
<1>4. (m - 1) + 1 \in S /\ (m - 1) + 1 = m
  BY <1>1, <1>3
<1> QED  BY <1>1, <1>4

(* Induction over a set by a measure: what holds of an element if it holds *)
(* of all that measure less, holds of all.                                 *)
LEMMA MeasureInduct ==
    ASSUME NEW D, NEW m \in [D -> Nat], NEW S \in SUBSET D,
           \A x \in D : (\A y \in D : m[y] < m[x] => y \in S) => x \in S
    PROVE  S = D
<1> SUFFICES ASSUME NEW z \in D \ S PROVE FALSE
  OBVIOUS
<1> DEFINE T == {m[x] : x \in D \ S}
<1>1. T \in SUBSET Nat /\ T # {}
  OBVIOUS
<1>2. PICK k \in T : \A j \in T : k <= j
  <2> HIDE DEF T
  <2> QED  BY <1>1, NatLeast
<1>3. PICK x \in D \ S : m[x] = k
  BY <1>2
<1>4. ASSUME NEW y \in D, m[y] < m[x] PROVE y \in S
  <2>1. CASE y \notin S
    <3>1. m[y] \in T
      BY <2>1
    <3>2. k <= m[y] /\ m[y] \in Nat /\ m[x] \in Nat
      BY <1>2, <3>1
    <3> QED  BY <1>3, <1>4, <3>2
  <2> QED  BY <2>1
<1> QED  BY <1>3, <1>4

(* S holds an element of D if it holds all that measure less.              *)
Inductive(D, m, S) ==
    m \in [D -> Nat] /\ S \in SUBSET D /\ \A x \in D : (\A y \in D : m[y] < m[x] => y \in S) => x \in S

(* The same principle, of a named condition.                               *)
LEMMA InductiveAll ==
    ASSUME NEW D, NEW m, NEW S, Inductive(D, m, S)
    PROVE  S = D
<1>1. m \in [D -> Nat] /\ S \in SUBSET D /\ \A x \in D : (\A y \in D : m[y] < m[x] => y \in S) => x \in S
  BY DEF Inductive
<1> QED  BY <1>1, MeasureInduct

(* The elements of a sequence.                                             *)
LEMMA SeqTypes ==
    ASSUME NEW V, NEW s \in Seq(V)
    PROVE  Len(s) \in Nat /\ DOMAIN s = 1..Len(s) /\ \A i \in 1..Len(s) : s[i] \in V
OBVIOUS

-----------------------------------------------------------------------------
(* Recursive functions.  step gives the value at x from a function, of     *)
(* which it uses only the values where the measure is less.                *)
IsRecursion(D, m, V, step) ==
    /\ m \in [D -> Nat] /\ V # {} /\ step \in [D \X [D -> V] -> V]
    /\ \A x \in D : \A g, h \in [D -> V] :
        (\A y \in D : m[y] < m[x] => g[y] = h[y]) => step[<<x, g>>] = step[<<x, h>>]

(* A function that satisfies the equation of a recursive definition.       *)
Solves(f, D, V, step) == f \in [D -> V] /\ \A x \in D : f[x] = step[<<x, f>>]

(* Such a recursion has a solution.                                        *)
LEMMA Recursion ==
    ASSUME NEW D, NEW m, NEW V, NEW step, IsRecursion(D, m, V, step)
    PROVE  \E f : Solves(f, D, V, step)
<1> SUFFICES ASSUME m \in [D -> Nat], V # {}, step \in [D \X [D -> V] -> V],
                    \A x \in D : \A g, h \in [D -> V] :
                        (\A y \in D : m[y] < m[x] => g[y] = h[y]) => step[<<x, g>>] = step[<<x, h>>]
             PROVE  \E f \in [D -> V] : \A x \in D : f[x] = step[<<x, f>>]
  BY DEF IsRecursion, Solves
<1> DEFINE Upto(n, g) == \A x \in D : m[x] < n => g[x] = step[<<x, g>>]
           S == {n \in Nat : \E g \in [D -> V] : Upto(n, g)}
<1> HIDE DEF Upto, S
<1>0. \A x \in D : m[x] \in Nat
  OBVIOUS
<1>1. 0 \in S
  <2>1. PICK v \in V : TRUE
    OBVIOUS
  <2>2. [x \in D |-> v] \in [D -> V]
    OBVIOUS
  <2>3. Upto(0, [x \in D |-> v])
    BY <1>0 DEF Upto
  <2> QED  BY <2>2, <2>3 DEF S
<1>2. ASSUME NEW n \in Nat, n \in S PROVE n + 1 \in S
  <2>1. PICK g \in [D -> V] : Upto(n, g)
    BY <1>2 DEF S
  <2> DEFINE h == [x \in D |-> IF m[x] = n THEN step[<<x, g>>] ELSE g[x]]
  <2>2. \A x \in D : step[<<x, g>>] \in V /\ g[x] \in V
    <3>1. \A x \in D : <<x, g>> \in D \X [D -> V]
      OBVIOUS
    <3> QED  BY <3>1
  <2>3. h \in [D -> V]
    BY <2>2
  <2>4. \A x \in D : h[x] = IF m[x] = n THEN step[<<x, g>>] ELSE g[x]
    OBVIOUS
  <2> HIDE DEF h
  <2>5. ASSUME NEW x \in D, m[x] < n + 1 PROVE h[x] = step[<<x, h>>]
    <3>1. ASSUME NEW y \in D, m[y] < m[x] PROVE g[y] = h[y]
      <4>1. m[y] # n
        BY <1>0, <2>5, <3>1
      <4> QED  BY <2>4, <4>1
    <3>2. step[<<x, g>>] = step[<<x, h>>]
      BY <2>1, <2>3, <3>1
    <3>3. CASE m[x] = n
      BY <2>4, <3>2, <3>3
    <3>4. CASE m[x] < n
      BY <1>0, <2>1, <2>4, <3>2, <3>4 DEF Upto
    <3>5. m[x] = n \/ m[x] < n
      <4>1. m[x] \in Nat
        BY <1>0
      <4>2. \A a, b \in Nat : a < b + 1 => a = b \/ a < b
        OBVIOUS
      <4> QED  BY <2>5, <4>1, <4>2, Zenon
    <3> QED  BY <3>3, <3>4, <3>5
  <2>6. Upto(n + 1, h)
    BY <2>5 DEF Upto
  <2> QED  BY <2>3, <2>6 DEF S
<1>3. S = Nat
  <2>1. S \in SUBSET Nat
    BY DEF S
  <2> QED  BY <1>1, <1>2, <2>1, NatInduct
<1> DEFINE G(n) == CHOOSE g \in [D -> V] : Upto(n, g)
<1>4. ASSUME NEW n \in Nat PROVE G(n) \in [D -> V] /\ Upto(n, G(n))
  <2>1. \E g \in [D -> V] : Upto(n, g)
    BY <1>3 DEF S
  <2> QED  BY <2>1
<1> HIDE DEF G
<1>5. ASSUME NEW k \in Nat, NEW n \in Nat, k <= n
      PROVE  \A x \in D : m[x] < k => G(k)[x] = G(n)[x]
  <2> DEFINE g == G(k)
             h == G(n)
             E == {x \in D : m[x] < k => g[x] = h[x]}
  <2>1. g \in [D -> V] /\ h \in [D -> V] /\ Upto(k, g) /\ Upto(n, h)
    BY <1>4
  <2> HIDE DEF g, h
  <2>2. ASSUME NEW x \in D, \A y \in D : m[y] < m[x] => y \in E PROVE x \in E
    <3> SUFFICES ASSUME m[x] < k PROVE g[x] = h[x]
      OBVIOUS
    <3>1. \A y \in D : m[y] < m[x] => g[y] = h[y]
      BY <1>0, <2>2
    <3>2. step[<<x, g>>] = step[<<x, h>>]
      BY <2>1, <3>1
    <3>3. m[x] < n
      BY <1>0, <1>5
    <3> QED  BY <2>1, <3>2, <3>3 DEF Upto
  <2>3. E = D
    <3>1. E \in SUBSET D
      OBVIOUS
    <3> HIDE DEF E
    <3> QED  BY <2>2, <3>1, MeasureInduct
  <2> QED  BY <2>3 DEF g, h
<1> DEFINE f == [x \in D |-> G(m[x] + 1)[x]]
<1>6. f \in [D -> V]
  BY <1>0, <1>4
<1>7. ASSUME NEW x \in D PROVE f[x] = step[<<x, f>>]
  <2> DEFINE g == G(m[x] + 1)
  <2>1. g \in [D -> V] /\ g[x] = step[<<x, g>>]
    <3>1. m[x] + 1 \in Nat /\ m[x] < m[x] + 1
      BY <1>0
    <3>2. g \in [D -> V] /\ Upto(m[x] + 1, g)
      BY <1>4, <3>1
    <3> QED  BY <3>1, <3>2 DEF Upto
  <2>2. ASSUME NEW y \in D, m[y] < m[x] PROVE f[y] = g[y]
    <3>1. m[y] + 1 \in Nat /\ m[x] + 1 \in Nat /\ m[y] + 1 <= m[x] + 1 /\ m[y] < m[y] + 1
      BY <1>0, <2>2
    <3>2. G(m[y] + 1)[y] = G(m[x] + 1)[y]
      BY <1>5, <3>1
    <3> QED  BY <3>2
  <2>3. f[x] = g[x]
    OBVIOUS
  <2> HIDE DEF f, g
  <2>4. step[<<x, f>>] = step[<<x, g>>]
    BY <1>6, <2>1, <2>2
  <2> QED  BY <2>1, <2>3, <2>4
<1> QED  BY <1>6, <1>7

(* ... and only values of its kind: a function that satisfies the equation *)
(* at p, given any solution so far, has values in V.                       *)
LEMMA RecursionTypes ==
    ASSUME NEW D, NEW m, NEW V, NEW step, IsRecursion(D, m, V, step), NEW f, f = [p \in D |-> f[p]],
           \A p \in D : \A g \in [D -> V] :
               (\A y \in D : m[y] < m[p] => g[y] = f[y]) => f[p] = step[<<p, g>>]
    PROVE  f \in [D -> V]
<1>1. m \in [D -> Nat] /\ V # {} /\ step \in [D \X [D -> V] -> V]
  BY DEF IsRecursion
<1> DEFINE S == {p \in D : f[p] \in V}
<1>2. ASSUME NEW p \in D, \A y \in D : m[y] < m[p] => y \in S PROVE p \in S
  <2>1. PICK v \in V : TRUE
    BY <1>1
  <2> DEFINE g == [y \in D |-> IF m[y] < m[p] THEN f[y] ELSE v]
  <2>2. g \in [D -> V]
    BY <1>2
  <2>3. \A y \in D : m[y] < m[p] => g[y] = f[y]
    OBVIOUS
  <2> HIDE DEF g
  <2>4. f[p] = step[<<p, g>>]
    BY <2>2, <2>3
  <2>5. <<p, g>> \in D \X [D -> V]
    BY <2>2
  <2>6. step[<<p, g>>] \in V
    BY <1>1, <2>5
  <2> QED  BY <2>4, <2>6
<1>3. S = D
  <2>1. S \in SUBSET D
    OBVIOUS
  <2> HIDE DEF S
  <2>2. \A x \in D : (\A y \in D : m[y] < m[x] => y \in S) => x \in S
    BY <1>2
  <2> QED  BY <1>1, <2>1, <2>2, MeasureInduct
<1>4. \A p \in D : f[p] \in V
  BY <1>3
<1> QED  BY <1>4

-----------------------------------------------------------------------------
(* Sums over a finite set: what MapThenSumSet computes, taking the         *)
(* elements in the order CHOOSE gives them.                                *)
IsSum(it, f, S) ==
    it = [s \in SUBSET S |-> IF s = {} THEN 0
                             ELSE LET x == CHOOSE x \in s : TRUE IN f[x] + it[s \ {x}]]

(* The sizes of the subsets, a measure.                                    *)
LEMMA SizesOf ==
    ASSUME NEW S, IsFiniteSet(S)
    PROVE  /\ [s \in SUBSET S |-> Cardinality(s)] \in [SUBSET S -> Nat]
           /\ \A s \in SUBSET S : \A x \in s :
                s \ {x} \in SUBSET S /\ Cardinality(s \ {x}) < Cardinality(s)
<1>1. ASSUME NEW s \in SUBSET S
      PROVE  /\ IsFiniteSet(s) /\ Cardinality(s) \in Nat
             /\ \A x \in s : s \ {x} \in SUBSET S /\ Cardinality(s \ {x}) < Cardinality(s)
  <2>1. IsFiniteSet(s)
    BY FS_Subset
  <2>2. Cardinality(s) \in Nat
    BY <2>1, FS_CardinalityType
  <2>3. ASSUME NEW x \in s PROVE Cardinality(s \ {x}) = Cardinality(s) - 1
    BY <2>1, FS_RemoveElement
  <2> QED  BY <2>1, <2>2, <2>3
<1> QED  BY <1>1

(* A sum over a finite set exists, by recursion over its subsets.          *)
LEMMA SumExists ==
    ASSUME NEW S, IsFiniteSet(S), NEW f, \A x \in S : f[x] \in Int
    PROVE  \E it : IsSum(it, f, S)
<1> DEFINE D == SUBSET S
           m == [s \in D |-> Cardinality(s)]
           any(s) == CHOOSE x \in s : TRUE
           val(s, g) == IF s = {} THEN 0 ELSE f[any(s)] + g[s \ {any(s)}]
           step == [p \in D \X [D -> Int] |-> val(p[1], p[2])]
<1>1. \A s \in D : s # {} => any(s) \in s
  OBVIOUS
<1> HIDE DEF any
<1>2. m \in [D -> Nat] /\ \A s \in D : s # {} => s \ {any(s)} \in D /\ m[s \ {any(s)}] < m[s]
  BY <1>1, SizesOf
<1>3. ASSUME NEW s \in D, NEW g \in [D -> Int] PROVE val(s, g) \in Int /\ step[<<s, g>>] = val(s, g)
  <2>1. ASSUME s # {} PROVE f[any(s)] \in Int /\ g[s \ {any(s)}] \in Int
    <3>1. any(s) \in S /\ s \ {any(s)} \in D
      BY <1>1, <1>2, <2>1
    <3> HIDE DEF D, m, val, step
    <3> QED  BY <3>1
  <2>2. val(s, g) \in Int
    BY <2>1
  <2>3. <<s, g>> \in D \X [D -> Int]
    OBVIOUS
  <2> HIDE DEF D, m, val
  <2> QED  BY <2>2, <2>3
<1>4. step \in [D \X [D -> Int] -> Int]
  <2>1. \A p \in D \X [D -> Int] : val(p[1], p[2]) \in Int
    BY <1>3
  <2> HIDE DEF val
  <2> QED  BY <2>1
<1>5. IsRecursion(D, m, Int, step)
  <2>1. ASSUME NEW s \in D, NEW g \in [D -> Int], NEW h \in [D -> Int],
               \A t \in D : m[t] < m[s] => g[t] = h[t]
        PROVE  step[<<s, g>>] = step[<<s, h>>]
    <3>1. val(s, g) = val(s, h)
      BY <1>2, <2>1
    <3> QED  BY <1>3, <3>1
  <2>2. Int # {}
    OBVIOUS
  <2> HIDE DEF D, m, step, val
  <2> QED  BY <1>2, <1>4, <2>1, <2>2 DEF IsRecursion
<1>6. PICK it : Solves(it, D, Int, step)
  BY <1>5, Recursion
<1>7. \A s \in D : it[s] = val(s, it)
  BY <1>3, <1>6 DEF Solves
<1>8. it = [s \in D |-> val(s, it)]
  <2> HIDE DEF val, D
  <2> QED  BY <1>6, <1>7 DEF Solves
<1> QED  BY <1>8 DEF IsSum, any

(* The order does not matter.                                              *)
LEMMA SumTakes ==
    ASSUME NEW S, IsFiniteSet(S), NEW f, \A x \in S : f[x] \in Int, NEW it, IsSum(it, f, S)
    PROVE  /\ it[{}] = 0 /\ \A T \in SUBSET S : it[T] \in Int
           /\ \A T \in SUBSET S : \A x \in T : it[T] = f[x] + it[T \ {x}]
<1> DEFINE D == SUBSET S
           m == [s \in D |-> Cardinality(s)]
           any(s) == CHOOSE x \in s : TRUE
           Good == {T \in D : it[T] \in Int /\ \A x \in T : it[T] = f[x] + it[T \ {x}]}
<1>1. \A s \in D : s # {} => any(s) \in s
  OBVIOUS
<1>2. \A s \in D : it[s] = IF s = {} THEN 0 ELSE f[any(s)] + it[s \ {any(s)}]
  BY DEF IsSum
<1> HIDE DEF any
<1>3. m \in [D -> Nat] /\ \A s \in D : \A x \in s : s \ {x} \in D /\ m[s \ {x}] < m[s]
  BY SizesOf
<1>4. ASSUME NEW T \in D, \A U \in D : m[U] < m[T] => U \in Good PROVE T \in Good
  <2>1. CASE T = {}
    <3>1. it[T] = 0
      BY <1>2, <2>1
    <3> QED  BY <2>1, <3>1
  <2>2. CASE T # {}
    <3> DEFINE c == any(T)
    <3>1. c \in T /\ T \ {c} \in Good /\ it[T] = f[c] + it[T \ {c}]
      BY <1>1, <1>2, <1>3, <1>4, <2>2
    <3> HIDE DEF c
    <3>2. it[T] \in Int
      BY <3>1
    <3>3. ASSUME NEW x \in T PROVE it[T] = f[x] + it[T \ {x}]
      <4>1. CASE x = c
        BY <3>1, <4>1
      <4>2. CASE x # c
        <5>1. x \in T \ {c} /\ c \in T \ {x} /\ T \ {x} \in Good /\ (T \ {c}) \ {x} = (T \ {x}) \ {c}
          BY <1>3, <1>4, <3>1, <4>2
        <5>2. it[T \ {c}] = f[x] + it[(T \ {c}) \ {x}] /\ it[T \ {x}] = f[c] + it[(T \ {c}) \ {x}]
          BY <3>1, <5>1
        <5>3. (T \ {c}) \ {x} \in Good
          <6>1. T \ {c} \in D /\ (T \ {c}) \ {x} \in D
            OBVIOUS
          <6>2. m[T \ {c}] < m[T] /\ m[(T \ {c}) \ {x}] < m[T \ {c}]
            BY <1>3, <3>1, <5>1
          <6>3. m[(T \ {c}) \ {x}] < m[T]
            BY <1>3, <6>1, <6>2
          <6> QED  BY <1>4, <6>1, <6>3
        <5>4. f[x] \in Int /\ f[c] \in Int /\ it[(T \ {c}) \ {x}] \in Int
          BY <3>1, <5>3
        <5> QED  BY <3>1, <5>2, <5>4
      <4> QED  BY <4>1, <4>2
    <3> QED  BY <3>2, <3>3
  <2> QED  BY <2>1, <2>2
<1>5. Good = D
  <2>1. Good \in SUBSET D
    OBVIOUS
  <2> HIDE DEF Good, D, m
  <2> QED  BY <1>3, <1>4, <2>1, MeasureInduct
<1>6. {} \in D
  OBVIOUS
<1> QED  BY <1>2, <1>5, <1>6

(* The sums of the subsets of S, each got by adding any element last.      *)
Adds(it, f, S) ==
    /\ it[{}] = 0 /\ \A T \in SUBSET S : it[T] \in Int
    /\ \A T \in SUBSET S : \A x \in T : it[T] = f[x] + it[T \ {x}]

(* IsSum computes them.                                                    *)
LEMMA SumAdds ==
    ASSUME NEW S, IsFiniteSet(S), NEW f, \A x \in S : f[x] \in Int, NEW it, IsSum(it, f, S)
    PROVE  Adds(it, f, S)
BY SumTakes DEF Adds

(* Of an interval in particular: the last, or the first, place is added.   *)
LEMMA IntervalAdds ==
    ASSUME NEW a \in Int, NEW b \in Int, NEW f, NEW it, Adds(it, f, a..b),
           NEW k \in a..b
    PROVE  it[a..k] = f[k] + it[a..(k - 1)] /\ it[a..(k - 1)] \in Int
<1> DEFINE S == a..b
           T == a..k
<1>1. T \in SUBSET S /\ k \in T /\ T \ {k} = a..(k - 1)
  OBVIOUS
<1>2. a..(k - 1) \in SUBSET S
  OBVIOUS
<1>3. Adds(it, f, S)
  OBVIOUS
<1> HIDE DEF S, T
<1>4. it[T] = f[k] + it[T \ {k}]
  BY <1>1, <1>3 DEF Adds
<1>5. it[a..(k - 1)] \in Int
  BY <1>2, <1>3 DEF Adds
<1> QED  BY <1>1, <1>4, <1>5 DEF T

(* Over the intervals of 1..n the sums are the differences of running      *)
(* totals.                                                                 *)
AreTotals(P, f, n) ==
    /\ P \in [0..n -> Int] /\ P[0] = 0 /\ \A k \in 1..n : P[k] = P[k - 1] + f[k]
    /\ \A a \in 1..(n + 1), b \in 0..n : \A it :
          a <= b + 1 /\ IsSum(it, f, a..b) => it[a..b] = P[b] - P[a - 1]

(* There are such totals.                                                  *)
LEMMA RunningTotals ==
    ASSUME NEW n \in Nat, NEW f, \A x \in 1..n : f[x] \in Int
    PROVE  \E P : AreTotals(P, f, n)
<1>1. \A a, b \in Int : IsFiniteSet(a..b)
  BY FS_Interval
<1>2. ASSUME NEW a \in 1..(n + 1), NEW b \in 0..n, NEW it, IsSum(it, f, a..b)
      PROVE  Adds(it, f, a..b)
  <2> DEFINE S == a..b
  <2>1. IsFiniteSet(S) /\ (\A x \in S : f[x] \in Int) /\ IsSum(it, f, S)
    BY <1>1, <1>2
  <2> HIDE DEF S
  <2>2. Adds(it, f, S)
    BY <2>1, SumAdds
  <2> QED  BY <2>2 DEF S
<1>3. PICK all : IsSum(all, f, 1..n)
  <2> DEFINE S == 1..n
  <2>1. IsFiniteSet(S) /\ \A x \in S : f[x] \in Int
    BY <1>1
  <2> HIDE DEF S
  <2>2. \E it : IsSum(it, f, S)
    BY <2>1, SumExists
  <2> QED  BY <2>2 DEF S
<1>4. Adds(all, f, 1..n)
  <2>1. 1 \in 1..(n + 1) /\ n \in 0..n
    OBVIOUS
  <2> QED  BY <1>2, <1>3, <2>1
<1> DEFINE P == [k \in 0..n |-> all[1..k]]
<1>5. \A k \in 0..n : P[k] = all[1..k]
  OBVIOUS
<1>6. P \in [0..n -> Int]
  <2>1. ASSUME NEW k \in 0..n PROVE all[1..k] \in Int
    <3>1. 1..k \in SUBSET (1..n)
      OBVIOUS
    <3> QED  BY <1>4, <3>1 DEF Adds
  <2> QED  BY <2>1
<1> HIDE DEF P
<1>7. P[0] = 0
  <2>1. 1..0 = {} /\ 0 \in 0..n
    OBVIOUS
  <2> QED  BY <1>4, <1>5, <2>1 DEF Adds
<1>8. ASSUME NEW k \in 1..n PROVE P[k] = P[k - 1] + f[k]
  <2>1. k \in 0..n /\ k - 1 \in 0..n /\ 1 \in Int /\ n \in Int
    OBVIOUS
  <2>2. all[1..k] = f[k] + all[1..(k - 1)]
    BY <1>4, <2>1, IntervalAdds
  <2>3. f[k] \in Int /\ P[k - 1] \in Int
    BY <1>6, <2>1
  <2>4. P[k] = all[1..k] /\ P[k - 1] = all[1..(k - 1)]
    BY <1>5, <2>1
  <2> QED  BY <2>2, <2>3, <2>4
<1>9. ASSUME NEW a \in 1..(n + 1), NEW b \in 0..n, NEW it, a <= b + 1, IsSum(it, f, a..b)
      PROVE  it[a..b] = P[b] - P[a - 1]
  <2> DEFINE Same == {k \in Nat : a - 1 + k <= b => it[a..(a - 1 + k)] = P[a - 1 + k] - P[a - 1]}
  <2>1. a - 1 \in 0..n /\ a \in Int /\ b \in Int /\ P[a - 1] \in Int
    BY <1>6
  <2>2. Adds(it, f, a..b)
    BY <1>2, <1>9
  <2>3. 0 \in Same
    <3>1. a..(a - 1 + 0) = {} /\ a - 1 + 0 = a - 1
      OBVIOUS
    <3> QED  BY <2>1, <2>2, <3>1 DEF Adds
  <2>4. ASSUME NEW k \in Nat, k \in Same PROVE k + 1 \in Same
    <3> DEFINE j == a + k
    <3> SUFFICES ASSUME j <= b PROVE it[a..j] = P[j] - P[a - 1]
      <4>1. a - 1 + (k + 1) = j
        OBVIOUS
      <4> QED  BY <4>1
    <3>1. j \in a..b /\ j \in 1..n /\ j - 1 \in 0..n
      OBVIOUS
    <3>2. a - 1 + k = j - 1 /\ a - 1 + k <= b
      OBVIOUS
    <3>3. it[a..(j - 1)] = P[j - 1] - P[a - 1]
      BY <2>4, <3>2
    <3> HIDE DEF j, Same
    <3>4. it[a..j] = f[j] + it[a..(j - 1)]
      BY <2>1, <2>2, <3>1, IntervalAdds
    <3>5. P[j] = P[j - 1] + f[j] /\ P[j - 1] \in Int /\ f[j] \in Int
      BY <1>6, <1>8, <3>1
    <3> QED  BY <2>1, <3>3, <3>4, <3>5
  <2>5. Same = Nat
    <3>1. Same \in SUBSET Nat
      OBVIOUS
    <3> HIDE DEF Same
    <3> QED  BY <2>3, <2>4, <3>1, NatInduct
  <2>6. b - a + 1 \in Same /\ a - 1 + (b - a + 1) = b
    BY <1>9, <2>5
  <2> QED  BY <2>6
<1> QED  BY <1>6, <1>7, <1>8, <1>9 DEF AreTotals

-----------------------------------------------------------------------------
(* Folds over a sequence, from left to right: what FoldLeft computes.      *)

(* The greatest of some places of a sequence.                              *)
LEMMA MaxIn ==
    ASSUME NEW n \in Nat, NEW s \in SUBSET (1..n), s # {}
    PROVE  Max(s) \in s /\ \A i \in s : i <= Max(s)
<1> DEFINE T == {n - i : i \in s}
<1>1. T \in SUBSET Nat /\ T # {}
  OBVIOUS
<1>2. PICK k \in T : \A j \in T : k <= j
  <2> HIDE DEF T
  <2> QED  BY <1>1, NatLeast
<1>3. PICK i \in s : k = n - i
  BY <1>2
<1>4. ASSUME NEW j \in s PROVE i >= j
  <2>1. n - j \in T
    OBVIOUS
  <2>2. k <= n - j
    BY <1>2, <2>1
  <2>3. i \in Int /\ j \in Int
    OBVIOUS
  <2> HIDE DEF T
  <2> QED  BY <1>3, <2>2, <2>3
<1> DEFINE M == CHOOSE x \in s : \A y \in s : x >= y
<1>5. M \in s /\ \A y \in s : M >= y
  <2>1. \E x \in s : \A y \in s : x >= y
    BY <1>4
  <2> HIDE DEF T
  <2> QED  BY <2>1
<1>6. Max(s) = M
  BY DEF Max
<1> HIDE DEF M
<1>7. ASSUME NEW y \in s PROVE y <= M
  <2>1. M >= y /\ M \in Int /\ y \in Int
    BY <1>5
  <2> QED  BY <2>1
<1> QED  BY <1>5, <1>6, <1>7

(* The maximum of an interval, and what is left without it.                *)
LEMMA MaxUpto ==
    ASSUME NEW n \in Nat, NEW k \in 1..n
    PROVE  /\ Max(1..k) = k /\ (1..k) \ {k} = 1..(k - 1)
           /\ 1..k \in SUBSET (1..n) /\ 1..k # {}
<1>1. 1..k \in SUBSET (1..k) /\ 1..k # {} /\ k \in Nat /\ k \in 1..k
  OBVIOUS
<1>2. Max(1..k) \in 1..k /\ \A i \in 1..k : i <= Max(1..k)
  BY <1>1, MaxIn
<1>3. k <= Max(1..k)
  BY <1>1, <1>2
<1>4. Max(1..k) = k
  BY <1>2, <1>3
<1> QED  BY <1>4

(* The fold that starts with base and gives next[v, i] at place i.         *)
IsFold(it, n, base, next) ==
    it = [s \in SUBSET (1..n) |-> IF s = {} THEN base
                                  ELSE LET i == Max(s) IN next[<<it[s \ {i}], i>>]]

(* Every step function has such a fold.                                    *)
LEMMA FoldExists ==
    ASSUME NEW n \in Nat, NEW V, NEW base \in V, NEW next \in [V \X (1..n) -> V]
    PROVE  \E it \in [SUBSET (1..n) -> V] : IsFold(it, n, base, next)
<1> DEFINE D == SUBSET (1..n)
           m == [s \in D |-> Cardinality(s)]
           val(s, g) == IF s = {} THEN base ELSE next[<<g[s \ {Max(s)}], Max(s)>>]
           step == [p \in D \X [D -> V] |-> val(p[1], p[2])]
<1>1. \A s \in D : s # {} => Max(s) \in s
  BY MaxIn
<1>2. m \in [D -> Nat] /\ \A s \in D : s # {} => s \ {Max(s)} \in D /\ m[s \ {Max(s)}] < m[s]
  <2> DEFINE R == 1..n
  <2>1. IsFiniteSet(R)
    BY FS_Interval
  <2> HIDE DEF R
  <2>2. /\ [s \in SUBSET R |-> Cardinality(s)] \in [SUBSET R -> Nat]
        /\ \A s \in SUBSET R : \A x \in s :
             s \ {x} \in SUBSET R /\ Cardinality(s \ {x}) < Cardinality(s)
    BY <2>1, SizesOf
  <2>3. m \in [D -> Nat] /\ \A s \in D : \A x \in s : s \ {x} \in D /\ m[s \ {x}] < m[s]
    BY <2>2 DEF R
  <2> HIDE DEF D, m
  <2> QED  BY <1>1, <2>3
<1>3. ASSUME NEW s \in D, NEW g \in [D -> V] PROVE val(s, g) \in V /\ step[<<s, g>>] = val(s, g)
  <2>1. ASSUME s # {} PROVE <<g[s \ {Max(s)}], Max(s)>> \in V \X (1..n)
    <3>1. Max(s) \in 1..n /\ s \ {Max(s)} \in D
      BY <1>1, <1>2, <2>1
    <3> HIDE DEF D, m, val, step
    <3> QED  BY <3>1
  <2>2. val(s, g) \in V
    BY <2>1
  <2>3. <<s, g>> \in D \X [D -> V]
    OBVIOUS
  <2> HIDE DEF D, m, val
  <2> QED  BY <2>2, <2>3
<1>4. step \in [D \X [D -> V] -> V]
  <2>1. \A p \in D \X [D -> V] : val(p[1], p[2]) \in V
    BY <1>3
  <2> HIDE DEF val
  <2> QED  BY <2>1
<1>5. IsRecursion(D, m, V, step)
  <2>1. ASSUME NEW s \in D, NEW g \in [D -> V], NEW h \in [D -> V],
               \A t \in D : m[t] < m[s] => g[t] = h[t]
        PROVE  step[<<s, g>>] = step[<<s, h>>]
    <3>1. val(s, g) = val(s, h)
      BY <1>2, <2>1
    <3> QED  BY <1>3, <3>1
  <2>2. V # {}
    OBVIOUS
  <2> HIDE DEF D, m, step, val
  <2> QED  BY <1>2, <1>4, <2>1, <2>2 DEF IsRecursion
<1>6. PICK it : Solves(it, D, V, step)
  BY <1>5, Recursion
<1>7. it \in [D -> V] /\ \A s \in D : it[s] = val(s, it)
  BY <1>3, <1>6 DEF Solves
<1>8. it = [s \in D |-> val(s, it)]
  <2> HIDE DEF val, D
  <2> QED  BY <1>7
<1> QED  BY <1>7, <1>8 DEF IsFold

(* A fold whose steps stay in sets G[k] that grow with the place.          *)
LEMMA FoldWithin ==
    ASSUME NEW n \in Nat, NEW V, NEW base \in V, NEW next \in [V \X (1..n) -> V],
           NEW it \in [SUBSET (1..n) -> V], IsFold(it, n, base, next),
           NEW G \in [0..n -> SUBSET V], base \in G[0],
           \A k \in 1..n : G[k - 1] \subseteq G[k] /\ \A v \in G[k - 1] : next[<<v, k>>] \in G[k]
    PROVE  \A s \in SUBSET (1..n) : s # {} => it[s \ {Max(s)}] \in G[Max(s) - 1]
<1>1. \A s \in SUBSET (1..n) : it[s] = IF s = {} THEN base ELSE next[<<it[s \ {Max(s)}], Max(s)>>]
  BY DEF IsFold
<1>2. \A s \in SUBSET (1..n) : s # {} => Max(s) \in s /\ \A i \in s : i <= Max(s)
  BY MaxIn
<1> DEFINE Within(k) == \A s \in SUBSET (1..n) : s \subseteq 1..k => it[s] \in G[k]
           S == {k \in Nat : k <= n => Within(k)}
<1>3. 0 \in S
  <2>1. \A s : s \subseteq 1..0 => s = {}
    OBVIOUS
  <2>2. Within(0)
    BY <1>1, <2>1
  <2> HIDE DEF Within
  <2> QED  BY <2>2
<1>4. ASSUME NEW k \in Nat, k \in S PROVE k + 1 \in S
  <2> SUFFICES ASSUME k + 1 <= n, NEW s \in SUBSET (1..n), s \subseteq 1..(k + 1) PROVE it[s] \in G[k + 1]
    OBVIOUS
  <2>1. k + 1 \in 1..n /\ (k + 1) - 1 = k /\ k \in 0..n /\ k + 1 \in 0..n
    OBVIOUS
  <2>2. Within(k)
    <3> HIDE DEF Within
    <3> QED  BY <1>4, <2>1
  <2>3. G[k] \subseteq G[k + 1] /\ \A v \in G[k] : next[<<v, k + 1>>] \in G[k + 1]
    BY <2>1
  <2>4. CASE k + 1 \notin s
    <3>1. s \subseteq 1..k
      BY <2>4
    <3> QED  BY <2>2, <2>3, <3>1
  <2>5. CASE k + 1 \in s
    <3>1. Max(s) = k + 1
      <4> DEFINE x == Max(s)
      <4>1. x \in s /\ \A i \in s : i <= x
        BY <1>2, <2>5
      <4> HIDE DEF x
      <4>2. x \in 1..(k + 1) /\ k + 1 <= x
        BY <2>5, <4>1
      <4>3. x = k + 1
        BY <4>2
      <4> QED  BY <4>3 DEF x
    <3>2. s \ {k + 1} \in SUBSET (1..n) /\ s \ {k + 1} \subseteq 1..k
      OBVIOUS
    <3>3. it[s \ {k + 1}] \in G[k]
      BY <2>2, <3>2
    <3>4. it[s] = next[<<it[s \ {k + 1}], k + 1>>]
      BY <1>1, <2>5, <3>1
    <3> QED  BY <2>3, <3>3, <3>4
  <2> QED  BY <2>4, <2>5
<1>5. S = Nat
  <2>1. S \in SUBSET Nat
    OBVIOUS
  <2> HIDE DEF S
  <2> QED  BY <1>3, <1>4, <2>1, NatInduct
<1>6. ASSUME NEW s \in SUBSET (1..n), s # {} PROVE it[s \ {Max(s)}] \in G[Max(s) - 1]
  <2> DEFINE x == Max(s)
  <2>1. x \in s /\ \A i \in s : i <= x
    BY <1>2, <1>6
  <2> HIDE DEF x
  <2>2. x \in 1..n /\ x - 1 \in Nat /\ x - 1 <= n
    BY <2>1
  <2>3. s \ {x} \in SUBSET (1..n) /\ s \ {x} \subseteq 1..(x - 1)
    BY <2>1, <2>2
  <2>4. Within(x - 1)
    <3> HIDE DEF Within
    <3> QED  BY <1>5, <2>2
  <2>5. it[s \ {x}] \in G[x - 1]
    BY <2>3, <2>4
  <2> QED  BY <2>5 DEF x
<1> QED  BY <1>6

(* The values that a fold takes on its way, one for each prefix.           *)
AreSteps(acc, n, V, base, next) ==
    acc \in [0..n -> V] /\ acc[0] = base /\ \A k \in 1..n : acc[k] = next[<<acc[k - 1], k>>]

(* What can be read off the definition of a fold.                          *)
Folds(it, n, V, base, next) ==
    /\ base \in V /\ next \in [V \X (1..n) -> V] /\ it[{}] = base
    /\ \A k \in 1..n : it[1..(k - 1)] \in V => it[1..k] = next[<<it[1..(k - 1)], k>>]

(* A fold ends with the last of its steps.                                 *)
LEMMA FoldSteps ==
    ASSUME NEW n \in Nat, NEW V, NEW base, NEW next, NEW it, Folds(it, n, V, base, next)
    PROVE  \E acc : AreSteps(acc, n, V, base, next) /\ acc[n] = it[1..n]
<1>0. base \in V /\ next \in [V \X (1..n) -> V]
  BY DEF Folds
<1> DEFINE S == {k \in Nat : k <= n => it[1..k] \in V}
<1>1. 0 \in S
  <2>1. 1..0 = {}
    OBVIOUS
  <2> QED  BY <1>0, <2>1 DEF Folds
<1>2. ASSUME NEW k \in Nat, k \in S PROVE k + 1 \in S
  <2> SUFFICES ASSUME k + 1 <= n PROVE it[1..(k + 1)] \in V
    OBVIOUS
  <2>1. k + 1 \in 1..n /\ (k + 1) - 1 = k /\ it[1..k] \in V
    BY <1>2
  <2> HIDE DEF S
  <2>2. it[1..(k + 1)] = next[<<it[1..k], k + 1>>]
    BY <2>1 DEF Folds
  <2>3. <<it[1..k], k + 1>> \in V \X (1..n)
    BY <2>1
  <2> QED  BY <1>0, <2>2, <2>3
<1>3. S = Nat
  <2>1. S \in SUBSET Nat
    OBVIOUS
  <2> HIDE DEF S
  <2> QED  BY <1>1, <1>2, <2>1, NatInduct
<1> DEFINE acc == [k \in 0..n |-> it[1..k]]
<1>4. acc \in [0..n -> V]
  BY <1>3
<1>5. acc[0] = base
  <2>1. 1..0 = {} /\ 0 \in 0..n
    OBVIOUS
  <2> QED  BY <2>1 DEF Folds
<1>6. ASSUME NEW k \in 1..n PROVE acc[k] = next[<<acc[k - 1], k>>]
  <2>1. k \in 0..n /\ k - 1 \in 0..n
    OBVIOUS
  <2>2. acc[k] = it[1..k] /\ acc[k - 1] = it[1..(k - 1)]
    BY <2>1
  <2>3. acc[k - 1] \in V
    <3> HIDE DEF acc
    <3> QED  BY <1>4, <2>1
  <2> HIDE DEF acc
  <2> QED  BY <2>2, <2>3 DEF Folds
<1>7. acc[n] = it[1..n]
  OBVIOUS
<1> HIDE DEF acc
<1> QED  BY <1>4, <1>5, <1>6, <1>7 DEF AreSteps
=============================================================================
