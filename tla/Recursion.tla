------------------------------- MODULE Recursion -------------------------------
(***************************************************************************)
(* What the proofs about recursive functions rest on.  A recursive         *)
(* function is by definition some solution of its equation, if there is    *)
(* one; that there is one follows from the least number principle.         *)
(***************************************************************************)
EXTENDS FiniteSets, FiniteSetTheorems, WellFoundedInduction, TLAPS

\* A set of numbers that is not empty has a least element.
LEMMA LeastNat ==
  ASSUME NEW T \in SUBSET Nat, T # {}
  PROVE  \E x \in T : \A y \in T : x <= y
<1> DEFINE R == OpToRel(<, Nat)
<1>1. IsWellFoundedOn(R, Nat)
  BY NatLessThanWellFounded
<1>2. \A x, y \in T : <<y,x>> \in R <=> y < x
  BY DEF OpToRel
<1> HIDE DEF R
<1>3. \E x \in T : \A y \in T : ~ (<<y, x>> \in R)
  BY <1>1, WFMin
<1>4. PICK x \in T : \A y \in T : ~ (<<y, x>> \in R)
  BY <1>3
<1>5. ASSUME NEW y \in T PROVE x <= y
  <2>1. ~(y < x)
    BY <1>2, <1>4
  <2>2. x \in Nat /\ y \in Nat
    OBVIOUS
  <2> QED BY <2>1, <2>2
<1> QED BY <1>5

\* G says how the value for a number comes from the values for smaller ones.
FromBelow(n, S, G) ==
  /\ n \in Nat /\ S # {} /\ G \in [0..n -> [[0..n -> S] -> S]]
  /\ \A k \in 0..n : \A f, g \in [0..n -> S] :
       (\A j \in 0..n : j < k => f[j] = g[j]) => G[k][f] = G[k][g]

\* There is a function with these values.
LEMMA RecursiveFunction ==
  ASSUME NEW n, NEW S, NEW G, FromBelow(n, S, G)
  PROVE  \E f \in [0..n -> S] : \A k \in 0..n : f[k] = G[k][f]
<1> USE DEF FromBelow
<1> DEFINE Ok(f, k) == \A j \in 0..n : j < k => f[j] = G[j][f]
           T == {k \in Nat : ~ \E f \in [0..n -> S] : Ok(f, k)}
<1>1. SUFFICES T = {}
  <2>1. n + 1 \in Nat
    OBVIOUS
  <2>2. PICK f \in [0..n -> S] : Ok(f, n + 1)
    <3> HIDE DEF Ok
    <3> QED BY <1>1, <2>1
  <2> QED BY <2>2
<1>2. SUFFICES ASSUME T # {} PROVE FALSE
  OBVIOUS
<1>3. PICK k \in T : \A y \in T : k <= y
  <2>1. T \in SUBSET Nat
    OBVIOUS
  <2> HIDE DEF T
  <2> QED BY <1>2, <2>1, LeastNat
<1>4. CASE k = 0
  <2>1. PICK s : s \in S
    OBVIOUS
  <2>2. [j \in 0..n |-> s] \in [0..n -> S] /\ Ok([j \in 0..n |-> s], 0)
    BY <2>1
  <2> QED BY <1>4, <2>2
<1>5. CASE k # 0
  <2>1. k \in Nat /\ k - 1 \in Nat /\ k - 1 \notin T
    <3>1. T \subseteq Nat
      OBVIOUS
    <3> HIDE DEF T
    <3> QED BY <1>3, <1>5, <3>1
  <2>2. PICK f \in [0..n -> S] : Ok(f, k - 1)
    BY <2>1
  <2> DEFINE g == [f EXCEPT ![k - 1] = G[k - 1][f]]
  <2>3. CASE k - 1 \in 0..n
    <3>1. g \in [0..n -> S] /\ g[k - 1] = G[k - 1][f]
      BY <2>3
    <3>2. \A j \in 0..n : j < k - 1 => g[j] = f[j]
      BY <2>1
    <3> HIDE DEF g
    <3>3. \A j \in 0..n : j <= k - 1 => G[j][g] = G[j][f]
      <4> SUFFICES ASSUME NEW j \in 0..n, j <= k - 1 PROVE G[j][g] = G[j][f]
        OBVIOUS
      <4>1. \A i \in 0..n : i < j => g[i] = f[i]
        BY <3>2, <2>1
      <4> QED BY <4>1, <3>1
    <3>4. Ok(g, k)
      <4> SUFFICES ASSUME NEW j \in 0..n, j < k PROVE g[j] = G[j][g]
        OBVIOUS
      <4>1. CASE j = k - 1
        BY <4>1, <3>1, <3>3
      <4>2. CASE j < k - 1
        BY <4>2, <3>2, <3>3, <2>2, <2>1
      <4> QED BY <4>1, <4>2, <2>1
    <3> QED BY <3>1, <3>4
  <2>4. CASE k - 1 \notin 0..n
    <3>1. Ok(f, k)
      BY <2>1, <2>2, <2>4
    <3> QED BY <3>1
  <2> QED BY <2>3, <2>4
<1> QED BY <1>4, <1>5

Solvable(n, S, G) == \E f \in [0..n -> S] : \A k \in 0..n : f[k] = G[k][f]

LEMMA RecursionSolvable ==
  ASSUME NEW n, NEW S, NEW G, FromBelow(n, S, G)
  PROVE  Solvable(n, S, G)
BY RecursiveFunction DEF Solvable

\* Induction, for a set of numbers.
LEMMA StrongInduction ==
  ASSUME NEW P, \A n \in Nat : (\A m \in Nat : m < n => m \in P) => n \in P
  PROVE  Nat \subseteq P
<1> DEFINE T == Nat \ P
<1>1. SUFFICES ASSUME T # {} PROVE FALSE
  OBVIOUS
<1>2. PICK n \in T : \A y \in T : n <= y
  <2>1. T \in SUBSET Nat
    OBVIOUS
  <2> HIDE DEF T
  <2> QED BY <1>1, <2>1, LeastNat
<1>3. \A m \in Nat : m < n => m \in P
  BY <1>2
<1> QED BY <1>2, <1>3

LEMMA SetInduction ==
  ASSUME NEW P, 0 \in P, \A n \in Nat : n \in P => n + 1 \in P
  PROVE  Nat \subseteq P
<1>1. ASSUME NEW n \in Nat, \A m \in Nat : m < n => m \in P PROVE n \in P
  <2>1. CASE n = 0
    BY <2>1
  <2>2. CASE n # 0
    <3>1. n - 1 \in Nat /\ n - 1 < n /\ (n - 1) + 1 = n
      BY <2>2
    <3>2. n - 1 \in P
      BY <1>1, <3>1
    <3> QED BY <3>1, <3>2
  <2> QED BY <2>1, <2>2
<1> QED BY <1>1, StrongInduction

\* A recursive function whose value comes from the value at one smaller number: p says
\* at which, and H what comes of it.
FromOneBelow(n, S, base, p, H) ==
  /\ n \in Nat /\ base \in S
  /\ p \in [1..n -> 0..n] /\ \A k \in 1..n : p[k] < k
  /\ H \in [1..n -> [S -> S]]

StepsOf(f, n, base, p, H) == \A k \in 0..n : f[k] = IF k = 0 THEN base ELSE H[k][f[p[k]]]

LEMMA StepFunction ==
  ASSUME NEW n, NEW S, NEW base, NEW p, NEW H, FromOneBelow(n, S, base, p, H)
  PROVE  \E f : f \in [0..n -> S] /\ StepsOf(f, n, base, p, H)
<1> USE DEF FromOneBelow
<1> DEFINE F(k, f) == IF k = 0 THEN base ELSE H[k][f[p[k]]]
           D == 0..n
           G == [k \in D |-> [f \in [D -> S] |-> F(k, f)]]
<1>1. ASSUME NEW k \in D, NEW f \in [D -> S] PROVE F(k, f) \in S
  <2>1. CASE k = 0
    BY <2>1
  <2>2. CASE k # 0
    <3>1. k \in 1..n
      BY <2>2
    <3>2. p[k] \in D
      BY <3>1
    <3> QED BY <2>2, <3>1, <3>2
  <2> QED BY <2>1, <2>2
<1>2. ASSUME NEW k \in D, NEW f \in [D -> S], NEW g \in [D -> S],
             \A j \in D : j < k => f[j] = g[j]
      PROVE  F(k, f) = F(k, g)
  <2>1. k # 0 => k \in 1..n
    OBVIOUS
  <2>2. k # 0 => p[k] \in D /\ p[k] < k
    BY <2>1
  <2> QED BY <1>2, <2>2
<1> HIDE DEF F
<1>3. \A k \in D : \A f \in [D -> S] : G[k][f] = F(k, f)
  OBVIOUS
<1>4. G \in [D -> [[D -> S] -> S]] /\ S # {}
  BY <1>1
<1> HIDE DEF G
<1>5. \A k \in D : \A f, g \in [D -> S] :
        (\A j \in D : j < k => f[j] = g[j]) => G[k][f] = G[k][g]
  <2> SUFFICES ASSUME NEW k \in D, NEW f \in [D -> S], NEW g \in [D -> S],
                      \A j \in D : j < k => f[j] = g[j]
               PROVE  G[k][f] = G[k][g]
    OBVIOUS
  <2>1. F(k, f) = F(k, g)
    BY <1>2
  <2> QED BY <1>3, <2>1
<1>6. FromBelow(n, S, G)
  BY <1>4, <1>5 DEF FromBelow
<1>7. Solvable(n, S, G)
  BY <1>6, RecursionSolvable
<1>8. PICK f \in [D -> S] : \A k \in D : f[k] = G[k][f]
  BY <1>7 DEF Solvable
<1>9. \A k \in D : f[k] = F(k, f)
  BY <1>3, <1>8
<1>10. StepsOf(f, n, base, p, H)
  BY <1>9 DEF F, StepsOf
<1> QED BY <1>8, <1>10

\* A set that is extended again and again within a finite set is complete at last.
Extends(f, n, U, G) ==
  /\ n \in Nat /\ IsFiniteSet(U) /\ G \in [SUBSET U -> SUBSET U] /\ f \in [0..n -> SUBSET U]
  /\ Cardinality(U) <= n + Cardinality(f[0])
  /\ \A k \in 1..n : f[k] = G[f[k - 1]]
  /\ \A k \in 0..n : f[k] \subseteq G[f[k]]

LEMMA Completes ==
  ASSUME NEW n, NEW U, NEW G, NEW f, Extends(f, n, U, G)
  PROVE  G[f[n]] = f[n]
<1> USE DEF Extends
<1> DEFINE P == {k \in Nat : k \in 0..n => Cardinality(f[k]) >= k + Cardinality(f[0]) \/ G[f[k]] = f[k]}
<1>1. \A T \in SUBSET U : IsFiniteSet(T) /\ Cardinality(T) \in Nat /\ Cardinality(T) <= Cardinality(U)
                           /\ (Cardinality(T) = Cardinality(U) => T = U)
  BY FS_Subset, FS_CardinalityType
<1>2. 0 \in P
  <2>1. f[0] \in SUBSET U
    OBVIOUS
  <2>2. Cardinality(f[0]) \in Nat
    BY <1>1, <2>1
  <2> QED BY <2>2
<1>3. ASSUME NEW k \in Nat, k \in P PROVE k + 1 \in P
  <2>1. SUFFICES ASSUME k + 1 \in 0..n PROVE Cardinality(f[k + 1]) >= k + 1 + Cardinality(f[0]) \/ G[f[k + 1]] = f[k + 1]
    OBVIOUS
  <2>2. k \in 0..n /\ k + 1 \in 1..n /\ (k + 1) - 1 = k
    BY <2>1
  <2>3. f[k + 1] = G[f[k]] /\ f[k] \in SUBSET U /\ f[k + 1] \in SUBSET U
    BY <2>1, <2>2
  <2>4. CASE G[f[k]] = f[k]
    BY <2>3, <2>4
  <2>5. CASE G[f[k]] # f[k]
    <3>1. Cardinality(f[k]) >= k + Cardinality(f[0])
      BY <1>3, <2>2, <2>5
    <3>2. f[k] \subseteq f[k + 1] /\ f[k] # f[k + 1]
      BY <2>2, <2>3, <2>5
    <3>3. IsFiniteSet(f[k + 1])
      BY <1>1, <2>3
    <3>4. /\ Cardinality(f[k]) <= Cardinality(f[k + 1])
          /\ Cardinality(f[k]) # Cardinality(f[k + 1])
      BY <3>2, <3>3, FS_Subset
    <3>5. Cardinality(f[k]) \in Nat /\ Cardinality(f[k + 1]) \in Nat /\ Cardinality(f[0]) \in Nat
      BY <1>1, <2>3
    <3> QED BY <3>1, <3>4, <3>5
  <2> QED BY <2>4, <2>5
<1>4. n \in P
  <2> HIDE DEF P
  <2> QED BY <1>2, <1>3, SetInduction
<1>5. f[n] \in SUBSET U /\ G[f[n]] \in SUBSET U /\ f[n] \subseteq G[f[n]]
  OBVIOUS
<1>6. CASE Cardinality(f[n]) >= n + Cardinality(f[0])
  <2>1. Cardinality(f[n]) \in Nat /\ Cardinality(U) \in Nat /\ Cardinality(f[n]) <= Cardinality(U)
        /\ Cardinality(f[0]) \in Nat
    BY <1>1, <1>5, FS_CardinalityType
  <2>2. Cardinality(f[n]) = Cardinality(U)
    BY <1>6, <2>1
  <2> QED BY <1>1, <1>5, <2>2
<1> QED BY <1>4, <1>6

\* first, extended n times by G within a finite set.
Iterates(f, n, first, G) == \A k \in 0..n : f[k] = IF k = 0 THEN first ELSE G[f[k - 1]]

Grows(n, U, first, G) ==
  /\ n \in Nat /\ IsFiniteSet(U) /\ first \in SUBSET U
  /\ G \in [SUBSET U -> SUBSET U] /\ first \subseteq G[first]
  /\ \A A, B \in SUBSET U : A \subseteq B => G[A] \subseteq G[B]
  /\ Cardinality(U) <= n + Cardinality(first)

LEMMA IterationExists ==
  ASSUME NEW n, NEW U, NEW first, NEW G, Grows(n, U, first, G)
  PROVE  \E f : f \in [0..n -> SUBSET U] /\ Iterates(f, n, first, G)
<1> DEFINE S == SUBSET U
           p == [k \in 1..n |-> k - 1]
           H == [k \in 1..n |-> G]
<1>1. FromOneBelow(n, S, first, p, H)
  BY DEF FromOneBelow, Grows
<1>2. \A k \in 1..n : p[k] = k - 1 /\ H[k] = G
  OBVIOUS
<1> HIDE DEF S, p, H
<1>3. PICK f : f \in [0..n -> S] /\ StepsOf(f, n, first, p, H)
  BY <1>1, StepFunction
<1>4. \A k \in 0..n : k # 0 => k \in 1..n
  BY DEF Grows
<1>5. Iterates(f, n, first, G)
  BY <1>2, <1>3, <1>4 DEF Iterates, StepsOf
<1> QED BY <1>3, <1>5 DEF S

\* What comes out is the least set that has first in it and that G does not extend.
LEMMA LeastFixpoint ==
  ASSUME NEW n, NEW U, NEW first, NEW G, Grows(n, U, first, G), NEW f, Iterates(f, n, first, G)
  PROVE  /\ f[n] \in SUBSET U /\ first \subseteq f[n] /\ G[f[n]] = f[n]
         /\ \A T \in SUBSET U : first \subseteq T /\ G[T] \subseteq T => f[n] \subseteq T
<1> DEFINE Ok(k) == f[k] \in SUBSET U /\ first \subseteq f[k] /\ f[k] \subseteq G[f[k]]
           P == {k \in Nat : k <= n => Ok(k)}
<1>0. n \in Nat /\ first \in SUBSET U /\ G \in [SUBSET U -> SUBSET U]
  BY DEF Grows
<1>1. f[0] = first /\ \A k \in 1..n : f[k] = G[f[k - 1]]
  <2>1. \A k \in 1..n : k \in 0..n /\ k # 0 /\ 0 \in 0..n
    BY <1>0
  <2> QED BY <1>0, <2>1 DEF Iterates
<1>2. 0 \in P
  BY <1>1 DEF Grows
<1>3. ASSUME NEW k \in Nat, k \in P PROVE k + 1 \in P
  <2> SUFFICES ASSUME k + 1 <= n PROVE Ok(k + 1)
    OBVIOUS
  <2>1. k + 1 \in 1..n /\ (k + 1) - 1 = k /\ Ok(k)
    BY <1>0, <1>3
  <2>2. f[k + 1] = G[f[k]]
    BY <1>1, <2>1
  <2>3. f[k + 1] \in SUBSET U /\ f[k] \subseteq f[k + 1]
    BY <1>0, <2>1, <2>2
  <2>4. G[f[k]] \subseteq G[f[k + 1]]
    BY <2>1, <2>3 DEF Grows
  <2> QED BY <2>1, <2>2, <2>3, <2>4
<1>4. Nat \subseteq P
  <2> HIDE DEF P
  <2> QED BY <1>2, <1>3, SetInduction
<1>5. \A k \in 0..n : Ok(k)
  BY <1>0, <1>4
<1>6. f[n] \in SUBSET U /\ first \subseteq f[n]
  BY <1>0, <1>5
<1>7. G[f[n]] = f[n]
  <2> DEFINE g == [k \in 0..n |-> f[k]]
  <2>1. g \in [0..n -> SUBSET U] /\ \A k \in 0..n : g[k] = f[k]
    BY <1>5
  <2>2. g[0] = f[0] /\ g[n] = f[n] /\ \A k \in 1..n : g[k] = f[k] /\ g[k - 1] = f[k - 1]
    BY <1>0, <2>1
  <2> HIDE DEF g
  <2>3. \A k \in 1..n : g[k] = G[g[k - 1]]
    BY <1>1, <2>2
  <2>4. \A k \in 0..n : g[k] \subseteq G[g[k]]
    BY <1>5, <2>1
  <2>5. IsFiniteSet(U) /\ Cardinality(U) <= n + Cardinality(g[0])
    BY <1>1, <2>2 DEF Grows
  <2>6. G[g[n]] = g[n]
    <3>1. Extends(g, n, U, G)
      BY <1>0, <2>1, <2>3, <2>4, <2>5 DEF Extends
    <3> QED BY <3>1, Completes
  <2> QED BY <2>2, <2>6
<1>8. ASSUME NEW T \in SUBSET U, first \subseteq T, G[T] \subseteq T PROVE f[n] \subseteq T
  <2> DEFINE Q == {k \in Nat : k <= n => f[k] \subseteq T}
  <2>1. 0 \in Q
    BY <1>1, <1>8
  <2>2. ASSUME NEW k \in Nat, k \in Q PROVE k + 1 \in Q
    <3> SUFFICES ASSUME k + 1 <= n PROVE f[k + 1] \subseteq T
      OBVIOUS
    <3>1. k + 1 \in 1..n /\ (k + 1) - 1 = k /\ k \in 0..n /\ f[k] \subseteq T
      BY <1>0, <2>2
    <3>2. f[k + 1] = G[f[k]] /\ f[k] \in SUBSET U
      BY <1>1, <1>5, <3>1
    <3>3. G[f[k]] \subseteq G[T]
      BY <3>1, <3>2 DEF Grows
    <3> QED BY <1>8, <3>2, <3>3
  <2>3. Nat \subseteq Q
    <3> HIDE DEF Q
    <3> QED BY <2>1, <2>2, SetInduction
  <2> QED BY <1>0, <2>3
<1> QED BY <1>6, <1>7, <1>8

================================================================================
