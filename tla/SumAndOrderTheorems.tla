-------------------------- MODULE SumAndOrderTheorems --------------------------
(***************************************************************************)
(* What the proofs about LinuxProc need to know of the sum over a finite   *)
(* set that the community modules define, and of the sequence that lists a *)
(* finite set of numbers in their order.                                   *)
(*                                                                         *)
(* Both go by induction over a finite set, in the form of a smallest set   *)
(* that would be an exception.                                             *)
(***************************************************************************)
EXTENDS Integers, Sequences, FiniteSetsExt, SequencesExt, FiniteSetTheorems, TLAPS

\* Of the exceptions among the subsets of a finite set, one is such that none of
\* them is the set without one of its elements.
LEMMA SmallestException ==
  ASSUME NEW S, IsFiniteSet(S), NEW Bad \in SUBSET (SUBSET S), Bad # {}
  PROVE  \E s \in Bad : \A x \in s : s \ {x} \notin Bad
<1>1. IsWellFoundedOn(StrictSubsetOrdering(S), SUBSET S)
  BY FS_StrictSubsetOrderingWellFounded, FS_FiniteSubsetsOfFinite
<1>2. PICK s \in Bad : \A t \in Bad : <<t, s>> \notin StrictSubsetOrdering(S)
  BY <1>1, WFMin
<1>3. ASSUME NEW x \in s, s \ {x} \in Bad
      PROVE  FALSE
  <2>1. <<s \ {x}, s>> \in StrictSubsetOrdering(S)
    BY <1>3 DEF StrictSubsetOrdering
  <2> QED
    BY <1>2, <1>3, <2>1
<1> QED
  BY <1>3

-------------------------------------------------------------------------------
(* Sums. MapThenSumSet takes an element away, adds the sum of the rest, and *)
(* goes on with the rest: a function on the subsets.                        *)

Pick(s) == CHOOSE x \in s : TRUE

\* sum is the function that sums up h over the subsets of S.
IsSum(sum, h, S) ==
  sum = [s \in SUBSET S |-> IF s = {} THEN 0 ELSE h[Pick(s)] + sum[s \ {Pick(s)}]]

\* A set that is not empty has an element to take.
LEMMA PickType == ASSUME NEW s, s # {} PROVE Pick(s) \in s
BY DEF Pick

\* The empty sum.
LEMMA SumOfNone ==
  ASSUME NEW S, NEW h, NEW sum, IsSum(sum, h, S)
  PROVE  sum[{}] = 0
<1>1. {} \in SUBSET S
  OBVIOUS
<1> QED
  BY <1>1 DEF IsSum

\* One step of a sum.
LEMMA SumStep ==
  ASSUME NEW S, NEW h, NEW sum, IsSum(sum, h, S), NEW s \in SUBSET S
  PROVE  /\ s = {} => sum[s] = 0
         /\ s # {} => /\ Pick(s) \in s
                      /\ s \ {Pick(s)} \in SUBSET S
                      /\ sum[s] = h[Pick(s)] + sum[s \ {Pick(s)}]
<1>1. sum[s] = IF s = {} THEN 0 ELSE h[Pick(s)] + sum[s \ {Pick(s)}]
  BY DEF IsSum
<1> QED
  BY <1>1, PickType

\* Where two sums are both defined, they agree.
LEMMA SumsAgree ==
  ASSUME NEW S, IsFiniteSet(S), NEW h, NEW A \in SUBSET S, NEW B \in SUBSET S,
         NEW f, IsSum(f, h, A), NEW g, IsSum(g, h, B)
  PROVE  \A s \in SUBSET (A \cap B) : f[s] = g[s]
<1> DEFINE Bad == {s \in SUBSET (A \cap B) : f[s] # g[s]}
<1> SUFFICES ASSUME Bad # {}
             PROVE  FALSE
    OBVIOUS
<1>0. \E s \in Bad : \A x \in s : s \ {x} \notin Bad
  <2>1. Bad \in SUBSET (SUBSET S)
    OBVIOUS
  <2> HIDE DEF Bad
  <2> QED
    BY <2>1, SmallestException
<1>1. PICK s \in Bad : \A x \in s : s \ {x} \notin Bad
  BY <1>0
<1>3. s \in SUBSET A /\ s \in SUBSET B
  OBVIOUS
<1>4. s # {}
  <2>1. f[{}] = 0 /\ g[{}] = 0
    BY SumOfNone
  <2> QED
    BY <2>1
<1>5. /\ Pick(s) \in s
      /\ f[s] = h[Pick(s)] + f[s \ {Pick(s)}]
      /\ g[s] = h[Pick(s)] + g[s \ {Pick(s)}]
  <2> HIDE DEF Bad
  <2>1. f[s] = h[Pick(s)] + f[s \ {Pick(s)}]
    BY <1>3, <1>4 DEF IsSum
  <2>2. g[s] = h[Pick(s)] + g[s \ {Pick(s)}]
    BY <1>3, <1>4 DEF IsSum
  <2> QED
    BY <1>4, <2>1, <2>2, PickType
<1>6. f[s \ {Pick(s)}] = g[s \ {Pick(s)}]
  BY <1>1, <1>5
<1> QED
  BY <1>5, <1>6

\* Over a finite set there is a sum.
LEMMA SumExists ==
  ASSUME NEW S, IsFiniteSet(S), NEW h
  PROVE  \E sum : IsSum(sum, h, S)
<1> DEFINE Bad == {T \in SUBSET S : ~ \E sum : IsSum(sum, h, T)}
<1> SUFFICES ASSUME Bad # {}
             PROVE  FALSE
    OBVIOUS
<1>0. \E T \in Bad : \A x \in T : T \ {x} \notin Bad
  <2>1. Bad \in SUBSET (SUBSET S)
    OBVIOUS
  <2> HIDE DEF Bad
  <2> QED
    BY <2>1, SmallestException
<1>1. PICK T \in Bad : \A x \in T : T \ {x} \notin Bad
  BY <1>0
<1> DEFINE G(x) == CHOOSE sum : IsSum(sum, h, T \ {x})
           g == [s \in SUBSET T |->
                   IF s = {} THEN 0 ELSE h[Pick(s)] + G(Pick(s))[s \ {Pick(s)}]]
<1>2. \A x \in T : IsSum(G(x), h, T \ {x})
  BY <1>1
<1>3. ASSUME NEW x \in T, NEW y \in T, NEW s \in SUBSET ((T \ {x}) \cap (T \ {y}))
      PROVE  G(x)[s] = G(y)[s]
  <2>1. IsSum(G(x), h, T \ {x}) /\ IsSum(G(y), h, T \ {y})
    BY <1>2
  <2>2. T \ {x} \in SUBSET S /\ T \ {y} \in SUBSET S
    OBVIOUS
  <2> HIDE DEF G, Bad
  <2> QED
    BY <2>1, <2>2, SumsAgree
<1> HIDE DEF G
<1>4. ASSUME NEW p \in T, NEW u \in SUBSET (T \ {p})
      PROVE  g[u] = G(p)[u]
  <2>1. IsSum(G(p), h, T \ {p})
    BY <1>2
  <2>2. CASE u = {}
    <3>1. G(p)[{}] = 0
      <4> HIDE DEF g
      <4> QED
        BY <2>1, SumOfNone
    <3> QED
      BY <2>2, <3>1
  <2>3. CASE u # {}
    <3>1. /\ Pick(u) \in u
          /\ G(p)[u] = h[Pick(u)] + G(p)[u \ {Pick(u)}]
      BY <2>1, <2>3, SumStep
    <3>2. G(Pick(u))[u \ {Pick(u)}] = G(p)[u \ {Pick(u)}]
      BY <1>3, <3>1
    <3>3. g[u] = h[Pick(u)] + G(Pick(u))[u \ {Pick(u)}]
      BY <2>3
    <3> QED
      BY <3>1, <3>2, <3>3
  <2> QED
    BY <2>2, <2>3
<1>5. ASSUME NEW s \in SUBSET T
      PROVE  g[s] = IF s = {} THEN 0 ELSE h[Pick(s)] + g[s \ {Pick(s)}]
  <2>1. CASE s = {}
    BY <2>1
  <2>2. CASE s # {}
    <3>1. Pick(s) \in s
      BY <2>2, PickType
    <3>2. g[s \ {Pick(s)}] = G(Pick(s))[s \ {Pick(s)}]
      BY <1>4, <3>1
    <3>3. g[s] = h[Pick(s)] + G(Pick(s))[s \ {Pick(s)}]
      BY <2>2
    <3> QED
      BY <2>2, <3>2, <3>3
  <2> QED
    BY <2>1, <2>2
<1>6. IsSum(g, h, T)
  <2>1. g = [s \in SUBSET T |-> g[s]]
    OBVIOUS
  <2> HIDE DEF g
  <2>2. g = [s \in SUBSET T |-> IF s = {} THEN 0 ELSE h[Pick(s)] + g[s \ {Pick(s)}]]
    BY <1>5, <2>1
  <2> QED
    BY <2>2 DEF IsSum
<1> QED
  BY <1>6

\* A sum of natural numbers is one.
LEMMA SumNat ==
  ASSUME NEW S, IsFiniteSet(S), NEW h \in [S -> Nat], NEW sum, IsSum(sum, h, S)
  PROVE  \A s \in SUBSET S : sum[s] \in Nat
<1> DEFINE Bad == {s \in SUBSET S : sum[s] \notin Nat}
<1> SUFFICES ASSUME Bad # {}
             PROVE  FALSE
    OBVIOUS
<1>0. \E s \in Bad : \A x \in s : s \ {x} \notin Bad
  <2>1. Bad \in SUBSET (SUBSET S)
    OBVIOUS
  <2> HIDE DEF Bad
  <2> QED
    BY <2>1, SmallestException
<1>1. PICK s \in Bad : \A x \in s : s \ {x} \notin Bad
  BY <1>0
<1>2. s \in SUBSET S
  OBVIOUS
<1>3. s # {}
  <2>1. sum[{}] = 0
    BY SumOfNone
  <2> QED
    BY <2>1
<1>4. /\ Pick(s) \in s /\ s \ {Pick(s)} \in SUBSET S
      /\ sum[s] = h[Pick(s)] + sum[s \ {Pick(s)}]
  BY <1>2, <1>3, SumStep
<1>5. sum[s \ {Pick(s)}] \in Nat /\ h[Pick(s)] \in Nat
  BY <1>1, <1>2, <1>4
<1> QED
  BY <1>4, <1>5

\* The sum of the sums is the sum.
LEMMA SumAdds ==
  ASSUME NEW S, IsFiniteSet(S),
         NEW a \in [S -> Nat], NEW b \in [S -> Nat], NEW c \in [S -> Nat],
         \A x \in S : c[x] = a[x] + b[x],
         NEW f, IsSum(f, a, S), NEW g, IsSum(g, b, S), NEW k, IsSum(k, c, S)
  PROVE  k[S] = f[S] + g[S]
<1> DEFINE Bad == {s \in SUBSET S : k[s] # f[s] + g[s]}
<1> SUFFICES ASSUME Bad # {}
             PROVE  FALSE
    OBVIOUS
<1>0. \E s \in Bad : \A x \in s : s \ {x} \notin Bad
  <2>1. Bad \in SUBSET (SUBSET S)
    OBVIOUS
  <2> HIDE DEF Bad
  <2> QED
    BY <2>1, SmallestException
<1>1. PICK s \in Bad : \A x \in s : s \ {x} \notin Bad
  BY <1>0
<1>2. s \in SUBSET S
  OBVIOUS
<1>3. s # {}
  <2>1. f[{}] = 0 /\ g[{}] = 0 /\ k[{}] = 0
    BY SumOfNone
  <2>2. k[{}] = f[{}] + g[{}]
    BY <2>1
  <2> QED
    BY <2>2
<1> DEFINE p == Pick(s)
           t == s \ {Pick(s)}
<1>4. /\ p \in s /\ t \in SUBSET S
      /\ f[s] = a[p] + f[t] /\ g[s] = b[p] + g[t] /\ k[s] = c[p] + k[t]
  <2> HIDE DEF Bad
  <2> QED
    BY <1>2, <1>3, SumStep
<1>5. k[t] = f[t] + g[t]
  BY <1>1, <1>4
<1>6. f[t] \in Nat /\ g[t] \in Nat /\ k[t] \in Nat
  <2> HIDE DEF p, t, Bad
  <2> QED
    BY <1>4, SumNat
<1>7. p \in S /\ a[p] \in Nat /\ b[p] \in Nat /\ c[p] = a[p] + b[p]
  BY <1>2, <1>4
<1>8. k[s] = f[s] + g[s]
  <2> HIDE DEF p, t
  <2> QED
    BY <1>4, <1>5, <1>6, <1>7
<1> QED
  BY <1>8

-------------------------------------------------------------------------------
(* Order. A finite set of numbers has one sequence that lists it in order: *)
(* each number stands where the count of those up to it tells.             *)

UpTo(S, d) == {e \in S : e <= d}

Rank(S, d) == Cardinality(UpTo(S, d))

\* s lists S, each element once, in increasing order.
Lists(s, S) ==
  /\ s \in [1..Cardinality(S) -> S]
  /\ \A i, j \in 1..Cardinality(S) : i < j => s[i] < s[j]

\* A rank is a position.
LEMMA RankType ==
  ASSUME NEW S \in SUBSET Nat, IsFiniteSet(S), NEW d \in S
  PROVE  Rank(S, d) \in 1..Cardinality(S)
<1>1. UpTo(S, d) \in SUBSET S /\ d \in UpTo(S, d)
  BY DEF UpTo
<1>2. IsFiniteSet(UpTo(S, d)) /\ Cardinality(UpTo(S, d)) <= Cardinality(S)
  BY <1>1, FS_Subset
<1>3. Cardinality(UpTo(S, d)) \in Nat /\ Cardinality(UpTo(S, d)) # 0
  BY <1>1, <1>2, FS_CardinalityType, FS_EmptySet
<1>4. Cardinality(S) \in Nat
  BY FS_CardinalityType
<1> QED
  BY <1>2, <1>3, <1>4 DEF Rank

\* A larger element has a higher rank.
LEMMA RankIncreases ==
  ASSUME NEW S \in SUBSET Nat, IsFiniteSet(S), NEW d \in S, NEW e \in S, d < e
  PROVE  Rank(S, d) < Rank(S, e)
<1>0. S \subseteq Int /\ d \in Int /\ e \in Int
  OBVIOUS
<1>1. UpTo(S, d) \in SUBSET UpTo(S, e) /\ e \in UpTo(S, e) /\ e \notin UpTo(S, d)
  <2>1. ASSUME NEW x \in UpTo(S, d)
        PROVE  x \in UpTo(S, e)
    <3>1. x \in S /\ x <= d
      BY DEF UpTo
    <3>2. x \in Int
      BY <1>0, <3>1
    <3>3. x <= e
      BY <1>0, <3>1, <3>2
    <3> QED
      BY <3>1, <3>3 DEF UpTo
  <2>2. e \in UpTo(S, e) /\ e \notin UpTo(S, d)
    BY <1>0 DEF UpTo
  <2> QED
    BY <2>1, <2>2
<1>2. UpTo(S, e) \in SUBSET S
  BY DEF UpTo
<1>3. IsFiniteSet(UpTo(S, e))
  BY <1>2, FS_Subset
<1>4. /\ Cardinality(UpTo(S, d)) <= Cardinality(UpTo(S, e))
      /\ Cardinality(UpTo(S, e)) # Cardinality(UpTo(S, d))
  BY <1>1, <1>3, FS_Subset
<1>5. Rank(S, d) \in Int /\ Rank(S, e) \in Int
  BY RankType
<1> QED
  BY <1>4, <1>5 DEF Rank

\* Every position up to the last is the rank of an element.
LEMMA RankCovers ==
  ASSUME NEW S \in SUBSET Nat, IsFiniteSet(S), NEW i \in 1..Cardinality(S)
  PROVE  \E d \in S : Rank(S, d) = i
<1> DEFINE n == Cardinality(S)
           f == [d \in S |-> Rank(S, d)]
<1>1. n \in Nat
  BY FS_CardinalityType
<1>2. f \in [S -> 1..n]
  BY RankType
<1>3. \A a, b \in S : f[a] = f[b] => a = b
  <2> SUFFICES ASSUME NEW a \in S, NEW b \in S, a # b
               PROVE  Rank(S, a) # Rank(S, b)
      OBVIOUS
  <2>1. Rank(S, a) \in Int /\ Rank(S, b) \in Int
    BY RankType
  <2>2. CASE a < b
    BY <2>1, <2>2, RankIncreases
  <2>3. CASE b < a
    BY <2>1, <2>3, RankIncreases
  <2> QED
    BY <2>2, <2>3
<1>4. f \in Injection(S, 1..n)
  <2> HIDE DEF f, n
  <2>1. DOMAIN f = S
    BY <1>2
  <2> QED
    BY <1>2, <1>3, <2>1 DEF Injection, IsInjective
<1>5. IsFiniteSet(1..n) /\ Cardinality(1..n) = n
  BY <1>1, FS_Interval
<1>6. f \in Surjection(S, 1..n)
  <2> HIDE DEF f
  <2> QED
    BY <1>4, <1>5, FS_Injection
<1>7. \E d \in S : f[d] = i
  <2> HIDE DEF f
  <2> QED
    BY <1>6 DEF Surjection
<1> QED
  BY <1>7

\* There is a list: of the elements at their ranks.
LEMMA ListExists ==
  ASSUME NEW S \in SUBSET Nat, IsFiniteSet(S)
  PROVE  \E s : Lists(s, S)
<1> DEFINE n == Cardinality(S)
           s == [i \in 1..n |-> CHOOSE d \in S : Rank(S, d) = i]
<1>1. \A i \in 1..n : s[i] \in S /\ Rank(S, s[i]) = i
  BY RankCovers
<1>2. n \in Nat
  BY FS_CardinalityType
<1>3. ASSUME NEW i \in 1..n, NEW j \in 1..n, i < j
      PROVE  s[i] < s[j]
  <2> HIDE DEF s
  <2>1. s[i] \in S /\ s[j] \in S /\ Rank(S, s[i]) = i /\ Rank(S, s[j]) = j
    BY <1>1
  <2>2. s[i] \in Nat /\ s[j] \in Nat
    BY <2>1
  <2>3. CASE s[j] < s[i]
    <3>1. j < i
      BY <2>1, <2>3, RankIncreases
    <3> QED
      BY <1>2, <1>3, <3>1
  <2>4. CASE s[i] = s[j]
    BY <1>2, <1>3, <2>1, <2>4
  <2> QED
    BY <2>2, <2>3, <2>4
<1>4. s \in [1..n -> S]
  BY <1>1
<1> QED
  <2> HIDE DEF s
  <2> QED
    BY <1>3, <1>4 DEF Lists

\* In a list, every element stands at its rank.
LEMMA ListInPlace ==
  ASSUME NEW S \in SUBSET Nat, IsFiniteSet(S), NEW s, Lists(s, S), NEW c \in S
  PROVE  s[Rank(S, c)] = c
<1> DEFINE n == Cardinality(S)
<1>1. n \in Nat /\ IsFiniteSet(1..n) /\ Cardinality(1..n) = n
  BY FS_CardinalityType, FS_Interval
<1>2. /\ s \in [1..n -> S]
      /\ \A i, j \in 1..n : i < j => s[i] < s[j]
  BY DEF Lists
<1>3. ASSUME NEW i \in 1..n, NEW j \in 1..n, s[i] = s[j]
      PROVE  i = j
  <2> HIDE DEF n
  <2>1. s[i] \in S /\ s[j] \in S
    BY <1>2
  <2>2. s[i] \in Nat /\ s[j] \in Nat
    BY <2>1
  <2>3. ~(i < j) /\ ~(j < i)
    BY <1>2, <1>3, <2>2
  <2> QED
    BY <1>1, <2>3
<1>4. s \in Injection(1..n, S)
  <2> HIDE DEF n
  <2>1. DOMAIN s = 1..n
    BY <1>2
  <2> QED
    BY <1>2, <1>3, <2>1 DEF Injection, IsInjective
<1>5. s \in Surjection(1..n, S)
  <2> HIDE DEF n
  <2>1. IsFiniteSet(S) /\ Cardinality(1..n) = Cardinality(S)
    BY <1>1 DEF n
  <2> QED
    BY <1>4, <2>1, FS_Injection
<1>6. PICK i \in 1..n : s[i] = c
  BY <1>5 DEF Surjection
<1> DEFINE f == [j \in 1..i |-> s[j]]
<1>7. UpTo(S, c) = {s[j] : j \in 1..i}
  <2>1. ASSUME NEW j \in 1..i
        PROVE  s[j] \in UpTo(S, c)
    <3>0. j \in 1..n
      BY <1>1
    <3>1. j \in 1..n /\ s[j] \in S /\ s[j] \in Nat /\ c \in Nat
      <4> HIDE DEF n
      <4>1. s[j] \in S
        BY <1>2, <3>0
      <4> QED
        BY <3>0, <4>1
    <3>2. j < i \/ j = i
      OBVIOUS
    <3> QED
      BY <1>2, <1>6, <3>1, <3>2 DEF UpTo
  <2>2. ASSUME NEW e \in UpTo(S, c)
        PROVE  \E j \in 1..i : s[j] = e
    <3>1. e \in S /\ e <= c /\ e \in Nat /\ c \in Nat
      BY DEF UpTo
    <3>2. PICK j \in 1..n : s[j] = e
      BY <1>5, <3>1 DEF Surjection
    <3>3. ~(i < j)
      BY <1>2, <1>6, <3>1, <3>2
    <3> QED
      BY <1>1, <3>2, <3>3
  <2> QED
    BY <2>1, <2>2
<1>8. f \in [1..i -> UpTo(S, c)] /\ DOMAIN f = 1..i
  BY <1>7
<1>9. f \in Surjection(1..i, UpTo(S, c))
  <2>1. \A e \in UpTo(S, c) : \E j \in 1..i : f[j] = e
    BY <1>7
  <2> HIDE DEF f
  <2> QED
    BY <1>8, <2>1 DEF Surjection
<1>10. f \in Injection(1..i, UpTo(S, c))
  <2>1. \A j, k \in 1..i : f[j] = f[k] => j = k
    BY <1>1, <1>3
  <2> HIDE DEF f
  <2> QED
    BY <1>8, <2>1 DEF Injection, IsInjective
<1>11. IsFiniteSet(1..i) /\ Cardinality(1..i) = i
  BY <1>1, FS_Interval
<1>12. Rank(S, c) = i
  <2> HIDE DEF f
  <2> QED
    BY <1>9, <1>10, <1>11, FS_Surjection DEF Rank
<1> QED
  BY <1>6, <1>12
===============================================================================
