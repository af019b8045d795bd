---------------------------- MODULE LoopsAndSums ----------------------------
(***************************************************************************)
(* What the proofs need of loops and of sums: induction over the naturals  *)
(* for a set, the existence of the function that iterates a step, what is  *)
(* reached when a set grows step by step in a finite one, and how the sum  *)
(* of a function over a finite set changes.                                *)
(***************************************************************************)
EXTENDS Functions, FiniteSetTheorems, WellFoundedInduction, TLAPS

-----------------------------------------------------------------------------
(* Loops. *)

(* A set with 0 and closed under successors holds every natural number:    *)
(* the argument on every loop of the code that runs a bounded number of    *)
(* times, as while (prof_frame_pop(...)).                                  *)
LEMMA NatInd ==
  ASSUME NEW S, 0 \in S, \A n \in Nat : n \in S => n + 1 \in S
  PROVE  \A n \in Nat : n \in S
<1>1. SUFFICES ASSUME Nat \ S # {} PROVE FALSE
  OBVIOUS
<1> DEFINE R == {ss \in Nat \X Nat : ss[1] < ss[2]}
<1>2. IsWellFoundedOn(R, Nat)
  BY NatLessThanWellFounded DEF OpToRel
<1>3. PICK x \in Nat \ S : \A y \in Nat \ S : ~ (<<y, x>> \in R)
  <2> HIDE DEF R
  <2> QED BY <1>1, <1>2, WFMin
<1>4. x # 0 /\ x - 1 \in Nat /\ x - 1 < x
  OBVIOUS
<1>5. <<x - 1, x>> \in R
  BY <1>4
<1>6. x - 1 \in S
  BY <1>3, <1>4, <1>5
<1>7. (x - 1) + 1 = x
  OBVIOUS
<1> QED BY <1>4, <1>6, <1>7

(* g is the first n + 1 values of the iteration of step from s.            *)
Prefix(g, n, s, step) ==
  /\ g[0] = s
  /\ \A i \in 0 .. n - 1 : g[i + 1] = step[g[i]]

(* A step on a set can be repeated without end.                            *)
LEMMA IterationExists ==
  ASSUME NEW S, NEW s \in S, NEW step \in [S -> S]
  PROVE  \E f \in [Nat -> S] :
           f[0] = s /\ \A n \in Nat : f[n + 1] = step[f[n]]
<1> DEFINE A == {n \in Nat : \E g \in [0 .. n -> S] : Prefix(g, n, s, step)}
<1>1. \A n \in Nat : n \in A
  <2>1. 0 \in A
    <3> DEFINE g == [i \in 0 .. 0 |-> s]
    <3>1. g \in [0 .. 0 -> S] /\ Prefix(g, 0, s, step)
      BY DEF Prefix
    <3> QED BY <3>1
  <2>2. ASSUME NEW n \in Nat, n \in A PROVE n + 1 \in A
    <3>1. PICK g \in [0 .. n -> S] : Prefix(g, n, s, step)
      BY <2>2
    <3> DEFINE h == [i \in 0 .. n + 1 |-> IF i = n + 1 THEN step[g[n]] ELSE g[i]]
    <3>2. h \in [0 .. n + 1 -> S]
      OBVIOUS
    <3>3. h[0] = s
      BY <3>1 DEF Prefix
    <3>4. \A i \in 0 .. n : h[i + 1] = step[h[i]]
      BY <3>1 DEF Prefix
    <3> HIDE DEF h
    <3>5. Prefix(h, n + 1, s, step)
      BY <3>3, <3>4 DEF Prefix
    <3> QED BY <3>2, <3>5
  <2> HIDE DEF A
  <2> QED BY <2>1, <2>2, NatInd
<1> DEFINE B == {n \in Nat : \A p, q \in Nat : n <= p /\ n <= q =>
                   \A g \in [0 .. p -> S], h \in [0 .. q -> S] :
                     Prefix(g, p, s, step) /\ Prefix(h, q, s, step) => g[n] = h[n]}
<1>2. \A n \in Nat : n \in B
  <2>1. 0 \in B
    BY DEF Prefix
  <2>2. ASSUME NEW n \in Nat, n \in B PROVE n + 1 \in B
    <3>1. SUFFICES ASSUME NEW p \in Nat, NEW q \in Nat, n + 1 <= p, n + 1 <= q,
                          NEW g \in [0 .. p -> S], NEW h \in [0 .. q -> S],
                          Prefix(g, p, s, step), Prefix(h, q, s, step)
                   PROVE  g[n + 1] = h[n + 1]
      OBVIOUS
    <3>2. g[n] = h[n]
      BY <2>2, <3>1
    <3>3. g[n + 1] = step[g[n]] /\ h[n + 1] = step[h[n]]
      BY <3>1 DEF Prefix
    <3> QED BY <3>2, <3>3
  <2> HIDE DEF B
  <2> QED BY <2>1, <2>2, NatInd
<1> DEFINE G(n) == CHOOSE g \in [0 .. n -> S] : Prefix(g, n, s, step)
           f == [n \in Nat |-> G(n)[n]]
<1>3. \A n \in Nat : G(n) \in [0 .. n -> S] /\ Prefix(G(n), n, s, step)
  BY <1>1
<1> HIDE DEF G
<1>4. f \in [Nat -> S]
  BY <1>3
<1>5. f[0] = s
  BY <1>3 DEF Prefix
<1>6. ASSUME NEW n \in Nat PROVE f[n + 1] = step[f[n]]
  <2>1. G(n + 1)[n] = G(n)[n]
    BY <1>2, <1>3
  <2>2. G(n + 1)[n + 1] = step[G(n + 1)[n]]
    <3>1. n + 1 \in Nat /\ n \in 0 .. (n + 1) - 1
      OBVIOUS
    <3>2. Prefix(G(n + 1), n + 1, s, step)
      BY <1>3, <3>1
    <3> QED BY <3>1, <3>2 DEF Prefix
  <2> QED BY <2>1, <2>2
<1> HIDE DEF f
<1> QED BY <1>4, <1>5, <1>6

-----------------------------------------------------------------------------
(* Closures: a set that grows step by step within a finite one, until it   *)
(* does not grow any more.                                                 *)

(* After as many steps as there is room for nothing more is added.         *)
LEMMA ClosureReached ==
  ASSUME NEW U, IsFiniteSet(U), NEW grow \in [SUBSET U -> SUBSET U],
         \A X \in SUBSET U : X \subseteq grow[X],
         NEW f, f[0] \in SUBSET U, \A i \in Nat : f[i + 1] = grow[f[i]]
  PROVE  /\ \A i \in Nat : f[i] \in SUBSET U
         /\ f[0] \subseteq f[Cardinality(U)]
         /\ grow[f[Cardinality(U)]] = f[Cardinality(U)]
<1>1. \A X \in SUBSET U : /\ IsFiniteSet(X) /\ Cardinality(X) \in Nat
                          /\ Cardinality(X) <= Cardinality(U)
  BY FS_Subset, FS_CardinalityType
<1>2. Cardinality(U) \in Nat
  BY FS_CardinalityType
<1> DEFINE A == {i \in Nat : f[i] \in SUBSET U /\ f[0] \subseteq f[i]}
           B == {i \in Nat : grow[f[i]] = f[i] \/ i <= Cardinality(f[i])}
<1>3. \A i \in Nat : i \in A
  <2>1. 0 \in A
    OBVIOUS
  <2>2. ASSUME NEW i \in Nat, i \in A PROVE i + 1 \in A
    BY <2>2
  <2> HIDE DEF A
  <2> QED BY <2>1, <2>2, NatInd
<1>4. \A i \in Nat : i \in B
  <2>1. 0 \in B
    BY <1>1
  <2>2. ASSUME NEW i \in Nat, i \in B PROVE i + 1 \in B
    <3>1. f[i] \in SUBSET U /\ f[i + 1] = grow[f[i]] /\ f[i] \subseteq f[i + 1]
          /\ f[i + 1] \in SUBSET U
      BY <1>3
    <3>2. CASE f[i + 1] = f[i]
      BY <3>1, <3>2
    <3>3. CASE f[i + 1] # f[i]
      <4>1. PICK x \in f[i + 1] : x \notin f[i]
        BY <3>1, <3>3
      <4>2. f[i] \cup {x} \in SUBSET U /\ f[i] \cup {x} \subseteq f[i + 1]
        BY <3>1, <4>1
      <4>3. Cardinality(f[i] \cup {x}) = Cardinality(f[i]) + 1
        BY <1>1, <3>1, <4>1, FS_AddElement
      <4>4. Cardinality(f[i] \cup {x}) <= Cardinality(f[i + 1])
        BY <1>1, <3>1, <4>2, FS_Subset
      <4>5. i <= Cardinality(f[i])
        BY <2>2, <3>1, <3>3
      <4>6. Cardinality(f[i]) \in Nat /\ Cardinality(f[i + 1]) \in Nat
        BY <1>1, <3>1
      <4>7. i + 1 <= Cardinality(f[i + 1])
        BY <4>3, <4>4, <4>5, <4>6
      <4> QED BY <4>7
    <3> QED BY <3>2, <3>3
  <2> HIDE DEF B
  <2> QED BY <2>1, <2>2, NatInd
<1> DEFINE R == f[Cardinality(U)]
<1>5. R \in SUBSET U /\ grow[R] \in SUBSET U /\ R \subseteq grow[R]
  BY <1>2, <1>3
<1>6. ASSUME grow[R] # R PROVE FALSE
  <2>1. Cardinality(U) <= Cardinality(R)
    BY <1>2, <1>4, <1>6
  <2>2. Cardinality(R) = Cardinality(U)
    <3>1. Cardinality(R) \in Nat /\ Cardinality(R) <= Cardinality(U)
      BY <1>1, <1>5
    <3> HIDE DEF R
    <3> QED BY <1>2, <2>1, <3>1
  <2>3. R = U
    <3>1. R \in SUBSET U
      BY <1>5
    <3> HIDE DEF R
    <3> QED BY <2>2, <3>1, FS_Subset
  <2> QED BY <1>5, <1>6, <2>3
<1> QED BY <1>2, <1>3, <1>6

(* The function that grows a set step by step exists, so that CHOOSE finds *)
(* it.                                                                     *)
Grows(f, start, grow) == f = [i \in Nat |-> IF i = 0 THEN start ELSE grow[f[i - 1]]]

(* It does, and all its sets are sets of elements of U. *)
LEMMA GrowthExists ==
  ASSUME NEW U, NEW grow \in [SUBSET U -> SUBSET U], NEW start \in SUBSET U
  PROVE  \E f : Grows(f, start, grow) /\ \A i \in Nat : f[i] \in SUBSET U
<1>1. PICK f \in [Nat -> SUBSET U] : f[0] = start /\ \A n \in Nat : f[n + 1] = grow[f[n]]
  <2> DEFINE F == SUBSET U
  <2>1. grow \in [F -> F] /\ start \in F
    OBVIOUS
  <2>2. \E f \in [Nat -> F] : f[0] = start /\ \A n \in Nat : f[n + 1] = grow[f[n]]
    <3> HIDE DEF F
    <3> QED BY <2>1, IterationExists
  <2> QED BY <2>2
<1>2. ASSUME NEW i \in Nat PROVE f[i] = IF i = 0 THEN start ELSE grow[f[i - 1]]
  <2>1. CASE i = 0
    BY <1>1, <2>1
  <2>2. CASE i # 0
    <3>1. i - 1 \in Nat /\ (i - 1) + 1 = i
      BY <2>2
    <3> QED BY <1>1, <2>2, <3>1
  <2> QED BY <2>1, <2>2
<1> QED BY <1>1, <1>2 DEF Grows

(* Growth from step to step. *)
LEMMA GrowthSteps ==
  ASSUME NEW f, NEW start, NEW grow, Grows(f, start, grow)
  PROVE  f[0] = start /\ \A i \in Nat : f[i + 1] = grow[f[i]]
<1>1. f[0] = start
  BY DEF Grows
<1>2. ASSUME NEW i \in Nat PROVE f[i + 1] = grow[f[i]]
  <2>1. i + 1 \in Nat /\ i + 1 # 0 /\ (i + 1) - 1 = i
    OBVIOUS
  <2> QED BY <2>1 DEF Grows
<1> QED BY <1>1, <1>2

-----------------------------------------------------------------------------
(* Sums. *)

(* A step of the sum of f over subsets of S: one element is added to what  *)
(* is known of the rest.                                                   *)
Pick(s) == CHOOSE x \in s : TRUE
SumStep(f, S, sum) ==
  [s \in SUBSET S |->
     IF s = {} THEN 0 ELSE f[Pick(s)] + sum[s \ {Pick(s)}]]

(* CHOOSE picks an element if there is one. *)
LEMMA PickIn == ASSUME NEW s, s # {} PROVE Pick(s) \in s
BY DEF Pick

(* The subsets of a finite set, and what is left of one without an element.*)
LEMMA Subsets ==
  ASSUME NEW S, IsFiniteSet(S), NEW s \in SUBSET S
  PROVE  /\ IsFiniteSet(s)
         /\ Cardinality(s) \in Nat
         /\ Cardinality(s) <= 0 => s = {}
         /\ Cardinality(s) <= Cardinality(S)
         /\ \A x \in s : /\ s \ {x} \in SUBSET S
                         /\ Cardinality(s \ {x}) = Cardinality(s) - 1
<1>1. IsFiniteSet(s) /\ Cardinality(s) <= Cardinality(S)
  BY FS_Subset
<1>2. Cardinality(s) \in Nat
  BY <1>1, FS_CardinalityType
<1>3. Cardinality(s) <= 0 => s = {}
  <2>1. Cardinality(s) = 0 => s = {}
    BY <1>1, FS_EmptySet
  <2> QED BY <1>2, <2>1
<1>4. ASSUME NEW x \in s PROVE Cardinality(s \ {x}) = Cardinality(s) - 1
  BY <1>1, FS_RemoveElement
<1> QED BY <1>1, <1>2, <1>3, <1>4

(* IterationExists, for a step that is given by its values. *)
LEMMA StepsExist ==
  ASSUME NEW F, NEW zero \in F, NEW step \in [F -> F]
  PROVE  \E sums : /\ sums[0] = zero
                  /\ \A n \in Nat : sums[n] \in F /\ sums[n + 1] = step[sums[n]]
<1>1. PICK sums \in [Nat -> F] : sums[0] = zero /\ \A n \in Nat : sums[n + 1] = step[sums[n]]
  BY IterationExists
<1>2. \A n \in Nat : sums[n] \in F
  OBVIOUS
<1> QED BY <1>1, <1>2

(* The sums over the subsets of a finite set exist. *)
LEMMA SumExists ==
  ASSUME NEW S, IsFiniteSet(S), NEW f \in [S -> Int]
  PROVE  \E sum \in [SUBSET S -> Int] : sum = SumStep(f, S, sum)
<1> DEFINE F == [SUBSET S -> Int]
           zero == [s \in SUBSET S |-> 0]
           step == [sum \in F |-> SumStep(f, S, sum)]
<1>1. \A sum \in F : SumStep(f, S, sum) \in F
  <2>1. SUFFICES ASSUME NEW sum \in F, NEW s \in SUBSET S, s # {}
                 PROVE  f[Pick(s)] + sum[s \ {Pick(s)}] \in Int
    BY DEF SumStep
  <2> QED BY <2>1, PickIn
<1>2. step \in [F -> F] /\ zero \in F
  BY <1>1
<1>3. PICK sums : /\ sums[0] = zero
                  /\ \A n \in Nat : sums[n] \in F /\ sums[n + 1] = step[sums[n]]
  <2> HIDE DEF F, zero, step
  <2> QED BY <1>2, StepsExist
<1>4. \A n \in Nat : sums[n] \in F /\ sums[n + 1] = SumStep(f, S, sums[n])
  BY <1>3
<1> HIDE DEF F, zero, step
<1> DEFINE A == {n \in Nat : \A s \in SUBSET S :
                   Cardinality(s) <= n => sums[n + 1][s] = sums[n][s]}
<1>5. ASSUME NEW s \in SUBSET S
      PROVE  /\ IsFiniteSet(s) /\ Cardinality(s) \in Nat
             /\ Cardinality(s) <= 0 => s = {}
             /\ s # {} => /\ s \ {Pick(s)} \in SUBSET S
                          /\ Cardinality(s \ {Pick(s)}) = Cardinality(s) - 1
  BY Subsets, PickIn
<1>6. \A n \in Nat : n \in A
  <2>1. 0 \in A
    <3>1. SUFFICES ASSUME NEW s \in SUBSET S, Cardinality(s) <= 0
                   PROVE  sums[0 + 1][s] = sums[0][s]
      OBVIOUS
    <3>2. s = {}
      BY <1>5, <3>1
    <3>3. sums[0 + 1][s] = 0
      BY <1>4, <3>2 DEF SumStep
    <3> QED BY <1>3, <3>3 DEF zero
  <2>2. ASSUME NEW n \in Nat, n \in A PROVE n + 1 \in A
    <3>1. SUFFICES ASSUME NEW s \in SUBSET S, Cardinality(s) <= n + 1
                   PROVE  sums[(n + 1) + 1][s] = sums[n + 1][s]
      OBVIOUS
    <3>2. /\ sums[(n + 1) + 1] = SumStep(f, S, sums[n + 1])
          /\ sums[n + 1] = SumStep(f, S, sums[n])
      BY <1>4
    <3>3. CASE s = {}
      BY <3>2, <3>3 DEF SumStep
    <3>4. CASE s # {}
      <4> DEFINE r == s \ {Pick(s)}
      <4>1. r \in SUBSET S /\ Cardinality(r) <= n
        BY <1>5, <3>1, <3>4
      <4>2. sums[n + 1][r] = sums[n][r]
        BY <2>2, <4>1
      <4>3. /\ sums[(n + 1) + 1][s] = f[Pick(s)] + sums[n + 1][r]
            /\ sums[n + 1][s] = f[Pick(s)] + sums[n][r]
        BY <3>2, <3>4 DEF SumStep
      <4> QED BY <4>2, <4>3
    <3> QED BY <3>3, <3>4
  <2> HIDE DEF A
  <2> QED BY <2>1, <2>2, NatInd
<1> DEFINE N == Cardinality(S)
           sum == sums[N]
<1>7. N \in Nat /\ sum \in F
  BY <1>4, FS_CardinalityType
<1>8. sums[N + 1] = sum
  <2>1. \A s \in SUBSET S : Cardinality(s) <= N
    BY Subsets
  <2>2. \A s \in SUBSET S : sums[N + 1][s] = sum[s]
    BY <1>6, <1>7, <2>1
  <2>3. sums[N + 1] \in F
    BY <1>4, <1>7
  <2> QED BY <1>7, <2>2, <2>3 DEF F
<1>9. sum = SumStep(f, S, sum)
  BY <1>4, <1>7, <1>8
<1> QED BY <1>7, <1>9 DEF F

(* Any two of them agree where the summed values do. *)
LEMMA SumsAgree ==
  ASSUME NEW S, IsFiniteSet(S), NEW f, NEW p, p = SumStep(f, S, p),
         NEW T, NEW g, NEW q, q = SumStep(g, T, q),
         NEW s \in (SUBSET S) \cap (SUBSET T), \A x \in s : f[x] = g[x]
  PROVE  p[s] = q[s]
<1> DEFINE A == {n \in Nat : \A r \in SUBSET s : Cardinality(r) <= n => p[r] = q[r]}
<1>1. ASSUME NEW r \in SUBSET s
      PROVE  /\ IsFiniteSet(r) /\ Cardinality(r) \in Nat
             /\ Cardinality(r) <= 0 => r = {}
             /\ r # {} => /\ Pick(r) \in s
                          /\ r \ {Pick(r)} \in SUBSET s
                          /\ Cardinality(r \ {Pick(r)}) = Cardinality(r) - 1
  <2>1. r \in SUBSET S
    OBVIOUS
  <2>2. /\ IsFiniteSet(r) /\ Cardinality(r) \in Nat /\ (Cardinality(r) <= 0 => r = {})
        /\ \A x \in r : Cardinality(r \ {x}) = Cardinality(r) - 1
    BY <2>1, Subsets
  <2>3. r # {} => Pick(r) \in r
    BY PickIn
  <2> QED BY <2>2, <2>3
<1>2. \A r \in SUBSET s :
        /\ r = {} => p[r] = 0 /\ q[r] = 0
        /\ r # {} => /\ p[r] = f[Pick(r)] + p[r \ {Pick(r)}]
                     /\ q[r] = g[Pick(r)] + q[r \ {Pick(r)}]
  <2>1. SUFFICES ASSUME NEW r \in SUBSET s
                 PROVE  /\ r = {} => p[r] = 0 /\ q[r] = 0
                        /\ r # {} => /\ p[r] = f[Pick(r)] + p[r \ {Pick(r)}]
                                     /\ q[r] = g[Pick(r)] + q[r \ {Pick(r)}]
    OBVIOUS
  <2>2. r \in SUBSET S /\ r \in SUBSET T
    OBVIOUS
  <2>3. p[r] = SumStep(f, S, p)[r] /\ q[r] = SumStep(g, T, q)[r]
    OBVIOUS
  <2> QED BY <2>2, <2>3 DEF SumStep
<1>3. \A n \in Nat : n \in A
  <2>1. 0 \in A
    <3>1. SUFFICES ASSUME NEW r \in SUBSET s, Cardinality(r) <= 0 PROVE p[r] = q[r]
      OBVIOUS
    <3>2. r = {}
      BY <1>1, <3>1
    <3> QED BY <1>2, <3>2
  <2>2. ASSUME NEW n \in Nat, n \in A PROVE n + 1 \in A
    <3>0. SUFFICES ASSUME NEW r \in SUBSET s, Cardinality(r) <= n + 1
                   PROVE  p[r] = q[r]
      OBVIOUS
    <3>1. SUFFICES ASSUME r # {} PROVE p[r] = q[r]
      BY <1>2
    <3> DEFINE c == Cardinality(r \ {Pick(r)})
    <3>2a. r \ {Pick(r)} \in SUBSET s /\ c = Cardinality(r) - 1 /\ Cardinality(r) \in Nat
      BY <1>1, <3>1
    <3>2b. c <= n
      <4> HIDE DEF c
      <4> QED BY <3>0, <3>2a
    <3>2. Cardinality(r \ {Pick(r)}) <= n /\ r \ {Pick(r)} \in SUBSET s
      BY <3>2a, <3>2b
    <3>3. p[r \ {Pick(r)}] = q[r \ {Pick(r)}]
      BY <2>2, <3>2
    <3>4. f[Pick(r)] = g[Pick(r)]
      BY <1>1, <3>1
    <3> QED BY <1>2, <3>1, <3>3, <3>4
  <2> HIDE DEF A
  <2> QED BY <2>1, <2>2, NatInd
<1>4. Cardinality(s) \in Nat
  BY <1>1
<1>5. Cardinality(s) \in A
  <2> HIDE DEF A
  <2> QED BY <1>3, <1>4
<1> QED BY <1>4, <1>5

(* What the SumFunction of the community modules is. *)
LEMMA SumFunctionIs ==
  ASSUME NEW S, IsFiniteSet(S), NEW f \in [S -> Int]
  PROVE  \E sum \in [SUBSET S -> Int] :
           sum = SumStep(f, S, sum) /\ SumFunction(f) = sum[S]
<1> DEFINE P(h) == h = SumStep(f, S, h)
           it == CHOOSE h : P(h)
<1>1. PICK sum \in [SUBSET S -> Int] : P(sum)
  BY SumExists
<1>2. P(it)
  BY <1>1
<1>3. it = CHOOSE h : h = [s \in SUBSET S |-> IF s = {} THEN 0
                  ELSE LET x == CHOOSE x \in s : TRUE IN f[x] + h[s \ {x}]]
  BY DEF SumStep, Pick
<1>4. SumFunction(f) = it[S]
  BY <1>3 DEF SumFunction, SumFunctionOnSet, FoldFunctionOnSet, MapThenFoldSet
<1> HIDE DEF it
<1>5. it[S] = sum[S]
  BY <1>1, <1>2, SumsAgree
<1> QED BY <1>1, <1>4, <1>5

(* A sum of integers is one, and that over nothing is zero. *)
LEMMA SumType ==
  ASSUME NEW S, IsFiniteSet(S), NEW f \in [S -> Int]
  PROVE  SumFunction(f) \in Int /\ (S = {} => SumFunction(f) = 0)
<1>1. PICK sum \in [SUBSET S -> Int] : sum = SumStep(f, S, sum) /\ SumFunction(f) = sum[S]
  BY SumFunctionIs
<1>2. S = {} => SumStep(f, S, sum)[S] = 0
  BY DEF SumStep
<1> QED BY <1>1, <1>2

(* Any element can be taken out of a sum first. *)
LEMMA SumTakeOut ==
  ASSUME NEW S, IsFiniteSet(S), NEW f \in [S -> Int], NEW x \in S,
         NEW g \in [S \ {x} -> Int], \A y \in S \ {x} : g[y] = f[y]
  PROVE  SumFunction(f) = f[x] + SumFunction(g)
<1>1. PICK p \in [SUBSET S -> Int] : p = SumStep(f, S, p) /\ SumFunction(f) = p[S]
  BY SumFunctionIs
<1>2. PICK q \in [SUBSET (S \ {x}) -> Int] :
        q = SumStep(g, S \ {x}, q) /\ SumFunction(g) = q[S \ {x}]
  <2>1. IsFiniteSet(S \ {x})
    BY FS_RemoveElement
  <2> HIDE DEF SumStep
  <2> QED BY <2>1, SumFunctionIs
<1>3. p[S \ {x}] = q[S \ {x}]
  <2>1. S \ {x} \in (SUBSET S) \cap (SUBSET (S \ {x})) /\ \A y \in S \ {x} : f[y] = g[y]
    OBVIOUS
  <2> HIDE DEF SumStep
  <2> QED BY <1>1, <1>2, <2>1, SumsAgree
<1> DEFINE A == {n \in Nat : \A s \in SUBSET S : Cardinality(s) <= n =>
                   \A y \in s : p[s] = f[y] + p[s \ {y}]}
<1>4. ASSUME NEW s \in SUBSET S
      PROVE  /\ IsFiniteSet(s) /\ Cardinality(s) \in Nat
             /\ Cardinality(s) <= 0 => s = {}
             /\ \A y \in s : /\ s \ {y} \in SUBSET S
                             /\ Cardinality(s \ {y}) = Cardinality(s) - 1
  BY Subsets
<1>5. ASSUME NEW s \in SUBSET S, s # {}
      PROVE  Pick(s) \in s /\ p[s] = f[Pick(s)] + p[s \ {Pick(s)}]
  <2>1. p[s] = SumStep(f, S, p)[s]
    BY <1>1
  <2> QED BY <1>5, <2>1, PickIn DEF SumStep
<1>6. \A n \in Nat : n \in A
  <2>1. 0 \in A
    <3>1. SUFFICES ASSUME NEW s \in SUBSET S, Cardinality(s) <= 0, NEW y \in s PROVE FALSE
      OBVIOUS
    <3> QED BY <1>4, <3>1
  <2>2. ASSUME NEW n \in Nat, n \in A PROVE n + 1 \in A
    <3>1. SUFFICES ASSUME NEW s \in SUBSET S, Cardinality(s) <= n + 1, NEW y \in s
                   PROVE  p[s] = f[y] + p[s \ {y}]
      OBVIOUS
    <3> DEFINE c == Pick(s)
    <3>2. c \in s /\ p[s] = f[c] + p[s \ {c}]
      BY <1>5
    <3> HIDE DEF c
    <3>3. CASE y = c
      BY <3>2, <3>3
    <3>4. CASE y # c
      <4> DEFINE r == s \ {c, y}
      <4>1. /\ s \ {c} \in SUBSET S /\ Cardinality(s \ {c}) <= n
            /\ s \ {y} \in SUBSET S /\ Cardinality(s \ {y}) <= n
            /\ y \in s \ {c} /\ c \in s \ {y}
            /\ (s \ {c}) \ {y} = r /\ (s \ {y}) \ {c} = r
        BY <1>4, <3>1, <3>2, <3>4
      <4> HIDE DEF r
      <4>2. p[s \ {c}] = f[y] + p[(s \ {c}) \ {y}]
        BY <2>2, <4>1
      <4>2a. p[s \ {y}] = f[c] + p[(s \ {y}) \ {c}]
        BY <2>2, <4>1
      <4>3. f[y] \in Int /\ f[c] \in Int /\ p[r] \in Int
        BY <3>2 DEF r
      <4>4. p[s] = f[c] + (f[y] + p[r])
        BY <3>2, <4>1, <4>2
      <4>5. p[s \ {y}] = f[c] + p[r]
        BY <4>1, <4>2a
      <4>6. f[c] + (f[y] + p[r]) = f[y] + (f[c] + p[r])
        BY <4>3
      <4> QED BY <4>4, <4>5, <4>6
    <3> QED BY <3>3, <3>4
  <2> HIDE DEF A
  <2> QED BY <2>1, <2>2, NatInd
<1>7. p[S] = f[x] + p[S \ {x}]
  BY <1>4, <1>6
<1> QED BY <1>1, <1>2, <1>3, <1>7

(* So a sum changes by as much as one of its elements does. *)
LEMMA SumOneChanged ==
  ASSUME NEW S, IsFiniteSet(S), NEW f \in [S -> Int], NEW g \in [S -> Int],
         NEW x \in S, \A y \in S \ {x} : g[y] = f[y]
  PROVE  SumFunction(g) = SumFunction(f) + (g[x] - f[x])
<1> DEFINE r == [y \in S \ {x} |-> f[y]]
<1>1. r \in [S \ {x} -> Int] /\ \A y \in S \ {x} : r[y] = f[y] /\ r[y] = g[y]
  OBVIOUS
<1>2. SumFunction(r) \in Int
  BY <1>1, SumType, FS_RemoveElement
<1> HIDE DEF r
<1>3. SumFunction(f) = f[x] + SumFunction(r) /\ SumFunction(g) = g[x] + SumFunction(r)
  BY <1>1, SumTakeOut
<1>4. f[x] \in Int /\ g[x] \in Int
  OBVIOUS
<1> QED BY <1>2, <1>3, <1>4

(* And by a new one. *)
LEMMA SumOneAdded ==
  ASSUME NEW S, IsFiniteSet(S), NEW f \in [S -> Int], NEW x, x \notin S,
         NEW g \in [S \cup {x} -> Int], \A y \in S : g[y] = f[y]
  PROVE  SumFunction(g) = SumFunction(f) + g[x]
<1>1. (S \cup {x}) \ {x} = S /\ IsFiniteSet(S \cup {x}) /\ x \in S \cup {x} /\ g[x] \in Int
  BY FS_AddElement
<1>2. SumFunction(g) = g[x] + SumFunction(f)
  BY <1>1, SumTakeOut
<1> QED BY <1>1, <1>2, SumType

(* g is f, except that it is d more at x, if x is in its domain.           *)
MovedAt(g, f, S, x, d) ==
  /\ IsFiniteSet(S)
  /\ f \in [S -> Int]
  /\ g \in [S -> Int]
  /\ d \in Int
  /\ \A y \in S : g[y] = f[y] + (IF y = x THEN d ELSE 0)

(* g is f and a value for x. *)
AddedAt(g, f, S, x) ==
  /\ IsFiniteSet(S)
  /\ f \in [S -> Int]
  /\ g \in [S \cup {x} -> Int]
  /\ x \notin S
  /\ \A y \in S : g[y] = f[y]

(* So its sum is more by that value. *)
LEMMA SumAdded ==
  ASSUME NEW S, NEW f, NEW g, NEW x, AddedAt(g, f, S, x)
  PROVE  SumFunction(g) = SumFunction(f) + g[x]
BY SumOneAdded DEF AddedAt

(* So the sum of g is d more. *)
LEMMA SumMoved ==
  ASSUME NEW S, NEW f, NEW g, NEW x, NEW d, MovedAt(g, f, S, x, d)
  PROVE  SumFunction(g) = SumFunction(f) + (IF x \in S THEN d ELSE 0)
<1>0. /\ IsFiniteSet(S) /\ f \in [S -> Int] /\ g \in [S -> Int] /\ d \in Int
      /\ \A y \in S : g[y] = f[y] + (IF y = x THEN d ELSE 0)
  BY DEF MovedAt
<1>1. SumFunction(f) \in Int
  BY <1>0, SumType
<1>2. CASE x \in S
  <2>1. \A y \in S \ {x} : g[y] = f[y]
    BY <1>0
  <2>2. SumFunction(g) = SumFunction(f) + (g[x] - f[x])
    BY <1>0, <1>2, <2>1, SumOneChanged
  <2>3. g[x] - f[x] = d
    <3>1. f[x] \in Int /\ g[x] = f[x] + d
      BY <1>0, <1>2
    <3> QED BY <1>0, <3>1
  <2> QED BY <1>2, <2>2, <2>3
<1>3. CASE x \notin S
  <2>1. \A y \in S : g[y] = f[y]
    <3>1. SUFFICES ASSUME NEW y \in S PROVE g[y] = f[y]
      OBVIOUS
    <3>2. f[y] \in Int /\ g[y] = f[y] + 0
      BY <1>0, <1>3
    <3> QED BY <1>0, <3>2
  <2>2. g = f
    BY <1>0, <2>1
  <2> QED BY <1>1, <1>3, <2>2
<1> QED BY <1>2, <1>3

(* A sum of one value is that value. *)
LEMMA SumOfOne ==
  ASSUME NEW x, NEW f \in [{x} -> Int]
  PROVE  SumFunction(f) = f[x]
<1> DEFINE e == [y \in {} |-> 0]
<1>1. IsFiniteSet({})
  BY FS_EmptySet
<1>2. e \in [{} -> Int] /\ SumFunction(e) = 0
  BY <1>1, SumType
<1>3. f \in [{} \cup {x} -> Int] /\ f[x] \in Int
  OBVIOUS
<1> HIDE DEF e
<1>4. AddedAt(f, e, {}, x)
  BY <1>1, <1>2, <1>3 DEF AddedAt
<1>5. SumFunction(f) = SumFunction(e) + f[x]
  BY <1>4, SumAdded
<1> QED BY <1>2, <1>3, <1>5

(* A sum of nothing but zeros is zero. *)
LEMMA SumOfZeros ==
  ASSUME NEW S, IsFiniteSet(S), NEW f \in [S -> Int], \A x \in S : f[x] = 0
  PROVE  SumFunction(f) = 0
<1>1. PICK p \in [SUBSET S -> Int] : p = SumStep(f, S, p) /\ SumFunction(f) = p[S]
  BY SumFunctionIs
<1> DEFINE zero == [s \in SUBSET S |-> 0]
<1>2. zero = SumStep(f, S, zero)
  <2>1. ASSUME NEW s \in SUBSET S, s # {}
        PROVE  f[Pick(s)] + zero[s \ {Pick(s)}] = 0
    <3>1. Pick(s) \in s
      BY <2>1, PickIn
    <3> QED BY <3>1
  <2> HIDE DEF zero
  <2>2. SumStep(f, S, zero) = [s \in SUBSET S |-> 0]
    BY <2>1 DEF SumStep
  <2> QED BY <2>2 DEF zero
<1>3. p[S] = zero[S]
  <2>1. S \in (SUBSET S) \cap (SUBSET S)
    OBVIOUS
  <2> HIDE DEF zero
  <2> QED BY <1>1, <1>2, <2>1, SumsAgree
<1> QED BY <1>1, <1>3
=============================================================================
