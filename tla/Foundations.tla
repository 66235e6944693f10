---------------------------- MODULE Foundations ----------------------------
(***************************************************************************)
(* Induction over numbers and over the subsets of a finite set, of a       *)
(* property given as the set of what has it, the recursion by which the    *)
(* folds of the models add up a finite set or run through a sequence, what *)
(* sorting does, intervals counted point by point, and what a depth-first  *)
(* search for cycles finds.                                                *)
(***************************************************************************)
EXTENDS Integers, Sequences, FiniteSets, FiniteSetTheorems, WellFoundedInduction, Ordering, TLAPS

\* A set of numbers that is not empty has a least element.
LEMMA Least == ASSUME NEW T, T \subseteq Nat, T # {} PROVE \E n \in T : \A m \in T : n <= m
<1> DEFINE R == OpToRel(<, Nat)
<1>1. IsWellFoundedOn(R, Nat)
  BY NatLessThanWellFounded, Zenon
<1>2. \A m, n \in Nat : m < n => <<m, n>> \in R
  BY DEF OpToRel
<1> HIDE DEF R
<1>3. \E n \in T : \A m \in T : <<m, n>> \notin R
  BY <1>1, WFMin, Zenon
<1>4. PICK n \in T : \A m \in T : <<m, n>> \notin R
  BY <1>3
<1>5. ASSUME NEW m \in T PROVE n <= m
  <2>1. m \in Nat /\ n \in Nat /\ ~(m < n)
    BY <1>2, <1>4, Zenon
  <2> QED BY <2>1
<1> QED BY <1>4, <1>5

\* Induction over the subsets of a finite set, of a property given as the set of
\* the subsets that have it.
LEMMA SubsetInduction ==
  ASSUME NEW S, IsFiniteSet(S), NEW F, {} \in F,
         \A T \in SUBSET S : T # {} /\ (\A x \in T : T \ {x} \in F) => T \in F
  PROVE  SUBSET S \subseteq F
<1> SUFFICES ASSUME ~(SUBSET S \subseteq F) PROVE FALSE
  OBVIOUS
<1> DEFINE N == {n \in Nat : \E T \in SUBSET S : T \notin F /\ Cardinality(T) = n}
<1>1. \A T \in SUBSET S : IsFiniteSet(T) /\ Cardinality(T) \in Nat
  BY FS_Subset, FS_CardinalityType
<1>2. N \subseteq Nat /\ N # {}
  BY <1>1
<1>3. PICK n \in N : \A m \in N : n <= m
  <2> HIDE DEF N
  <2> QED BY <1>2, Least
<1>4. PICK T \in SUBSET S : T \notin F /\ Cardinality(T) = n
  BY <1>3
<1>5. n - 1 \notin N
  BY <1>3
<1>6. ASSUME NEW x \in T PROVE T \ {x} \in F
  <2>1. T \ {x} \in SUBSET S /\ Cardinality(T \ {x}) = n - 1
    BY <1>1, <1>4, FS_RemoveElement
  <2> QED BY <1>1, <1>5, <2>1
<1> QED BY <1>4, <1>6

\* Induction over the natural numbers, of a property given as a set of them.
LEMMA NatSetInduction ==
  ASSUME NEW F, 0 \in F, \A n \in Nat : n \in F => n + 1 \in F PROVE Nat \subseteq F
<1> SUFFICES ASSUME ~(Nat \subseteq F) PROVE FALSE
  OBVIOUS
<1>1. PICK n \in Nat \ F : \A m \in Nat \ F : n <= m
  BY Least
<1>2. n - 1 \in Nat /\ n - 1 \in F
  BY <1>1
<1> QED BY <1>1, <1>2

-----------------------------------------------------------------------------
(* Sums: the function that MapThenSumSet defines by recursion over the      *)
(* subsets of S, for summands f.                                            *)
Picked(s) == CHOOSE x \in s : TRUE
Summand(f, g, s) == IF s = {} THEN 0 ELSE f[Picked(s)] + g[s \ {Picked(s)}]
Sums(f, g, D) == g = [s \in D |-> Summand(f, g, s)]
Partial(f, S) == CHOOSE g : Sums(f, g, SUBSET S)
Sum(f, S) == Partial(f, S)[S]

Small(S, n) == {s \in SUBSET S : Cardinality(s) <= n}

\* There is such a function.
LEMMA SumsExist ==
  ASSUME NEW f, NEW S, IsFiniteSet(S) PROVE \E g : Sums(f, g, SUBSET S)
<1> DEFINE F == {n \in Nat : \E g : Sums(f, g, Small(S, n))}
<1>0. \A T \in SUBSET S : IsFiniteSet(T) /\ Cardinality(T) \in Nat /\ Cardinality(T) <= Cardinality(S)
  BY FS_Subset, FS_CardinalityType
<1>1. 0 \in F
  <2> DEFINE g == [s \in Small(S, 0) |-> 0]
  <2>1. \A s \in Small(S, 0) : s = {}
    BY <1>0, FS_EmptySet DEF Small
  <2>2. Sums(f, g, Small(S, 0))
    BY <2>1 DEF Sums, Summand
  <2> HIDE DEF g
  <2> QED BY <2>2
<1>2. ASSUME NEW n \in Nat, n \in F PROVE n + 1 \in F
  <2>1. PICK g : Sums(f, g, Small(S, n))
    BY <1>2
  <2> DEFINE h == [s \in Small(S, n + 1) |-> IF Cardinality(s) <= n THEN g[s] ELSE Summand(f, g, s)]
  <2>2. ASSUME NEW s \in Small(S, n + 1) PROVE h[s] = Summand(f, h, s)
    <3>1. CASE s = {}
      <4>1. s \in Small(S, n) /\ Cardinality(s) <= n
        BY <3>1, FS_EmptySet DEF Small
      <4> QED BY <2>1, <3>1, <4>1 DEF Sums, Summand
    <3>2. CASE s # {}
      <4> DEFINE x == Picked(s)
      <4>1. x \in s
        BY <3>2 DEF Picked
      <4>2. s \ {x} \in Small(S, n) /\ s \ {x} \in Small(S, n + 1) /\ Cardinality(s \ {x}) <= n
        <5> HIDE DEF x
        <5>1. s \in SUBSET S /\ Cardinality(s) <= n + 1 /\ IsFiniteSet(s) /\ Cardinality(s) \in Nat
          BY <1>0 DEF Small
        <5>2. s \ {x} \in SUBSET S /\ Cardinality(s \ {x}) = Cardinality(s) - 1
          BY <4>1, <5>1, FS_RemoveElement
        <5> QED BY <5>1, <5>2 DEF Small
      <4>3. h[s \ {x}] = g[s \ {x}]
        BY <4>2
      <4>4. Summand(f, h, s) = Summand(f, g, s)
        <5> HIDE DEF h
        <5> QED BY <3>2, <4>3, Zenon DEF Summand
      <4>5. CASE Cardinality(s) <= n
        <5>1. s \in Small(S, n)
          BY <4>5 DEF Small
        <5>2. g[s] = Summand(f, g, s)
          BY <2>1, <5>1, Zenon DEF Sums
        <5> QED BY <4>4, <4>5, <5>2
      <4>6. CASE ~(Cardinality(s) <= n)
        BY <4>4, <4>6
      <4> QED BY <4>5, <4>6
    <3> QED BY <3>1, <3>2
  <2>3. Sums(f, h, Small(S, n + 1))
    <3>1. h = [s \in Small(S, n + 1) |-> h[s]]
      OBVIOUS
    <3> HIDE DEF h
    <3>2. h = [s \in Small(S, n + 1) |-> Summand(f, h, s)]
      BY <2>2, <3>1
    <3> QED BY <3>2 DEF Sums
  <2> HIDE DEF h
  <2>4. \E k : Sums(f, k, Small(S, n + 1))
    BY <2>3, Zenon
  <2> QED BY <2>4
<1>3. Cardinality(S) \in F
  <2>1. Nat \subseteq F
    <3> HIDE DEF F
    <3> QED BY <1>1, <1>2, NatSetInduction
  <2> QED BY <2>1, FS_CardinalityType
<1>4. Small(S, Cardinality(S)) = SUBSET S
  BY <1>0 DEF Small
<1> QED BY <1>3, <1>4

\* It follows its recursion.
LEMMA PartialSums ==
  ASSUME NEW f, NEW S, IsFiniteSet(S), NEW s \in SUBSET S
  PROVE  Partial(f, S)[s] = Summand(f, Partial(f, S), s)
<1>1. Sums(f, Partial(f, S), SUBSET S)
  BY SumsExist, Zenon DEF Partial
<1> QED BY <1>1, Zenon DEF Sums

\* Only the subsets of T count for the sum over T.
LEMMA SumOfSubset ==
  ASSUME NEW f, NEW S, IsFiniteSet(S), NEW T \in SUBSET S PROVE Partial(f, S)[T] = Sum(f, T)
<1> DEFINE F == {U \in SUBSET T : Partial(f, S)[U] = Partial(f, T)[U]}
<1>1. IsFiniteSet(T)
  BY FS_Subset
<1>2. {} \in F
  <2>1. Partial(f, S)[{}] = 0 /\ Partial(f, T)[{}] = 0
    BY <1>1, PartialSums, Zenon DEF Summand
  <2> QED BY <2>1
<1>3. ASSUME NEW U \in SUBSET T, U # {}, \A x \in U : U \ {x} \in F PROVE U \in F
  <2>1. Partial(f, S)[U] = Summand(f, Partial(f, S), U)
    BY PartialSums
  <2>2. Partial(f, T)[U] = Summand(f, Partial(f, T), U)
    BY <1>1, PartialSums
  <2>3. Partial(f, S)[U \ {Picked(U)}] = Partial(f, T)[U \ {Picked(U)}]
    BY <1>3 DEF Picked
  <2>4. Summand(f, Partial(f, S), U) = Summand(f, Partial(f, T), U)
    BY <2>3, Zenon DEF Summand
  <2> QED BY <2>1, <2>2, <2>4
<1>4. SUBSET T \subseteq F
  <2> HIDE DEF F
  <2> QED BY <1>1, <1>2, <1>3, SubsetInduction
<1> QED BY <1>4 DEF Sum

\* The sum over a set that is not empty begins with a picked element.
LEMMA SumPicks ==
  ASSUME NEW f, NEW S, IsFiniteSet(S), S # {}
  PROVE  Picked(S) \in S /\ Sum(f, S) = f[Picked(S)] + Sum(f, S \ {Picked(S)})
<1>1. Picked(S) \in S
  BY DEF Picked
<1>2. Partial(f, S)[S] = Summand(f, Partial(f, S), S)
  BY PartialSums
<1>3. Summand(f, Partial(f, S), S) = f[Picked(S)] + Partial(f, S)[S \ {Picked(S)}]
  BY Zenon DEF Summand
<1>4. Partial(f, S)[S \ {Picked(S)}] = Sum(f, S \ {Picked(S)})
  BY SumOfSubset
<1> QED BY <1>1, <1>2, <1>3, <1>4 DEF Sum

\* Nothing adds up to zero.
LEMMA SumEmpty == ASSUME NEW f PROVE Sum(f, {}) = 0
<1>1. Partial(f, {})[{}] = Summand(f, Partial(f, {}), {})
  BY PartialSums, FS_EmptySet
<1> QED BY <1>1, Zenon DEF Sum, Summand

\* Sums of numbers are numbers.
LEMMA SumType ==
  ASSUME NEW f, NEW S, IsFiniteSet(S), \A x \in S : f[x] \in Int PROVE Sum(f, S) \in Int
<1> DEFINE F == {T \in SUBSET S : Sum(f, T) \in Int}
<1>1. {} \in F
  BY SumEmpty
<1>2. ASSUME NEW T \in SUBSET S, T # {}, \A x \in T : T \ {x} \in F PROVE T \in F
  <2>1. IsFiniteSet(T)
    BY FS_Subset
  <2>2. Picked(T) \in T /\ Sum(f, T) = f[Picked(T)] + Sum(f, T \ {Picked(T)})
    BY <1>2, <2>1, SumPicks
  <2> QED BY <1>2, <2>2
<1>3. SUBSET S \subseteq F
  <2> HIDE DEF F
  <2> QED BY <1>1, <1>2, SubsetInduction
<1> QED BY <1>3

\* Any element may be taken out first.
LEMMA SumTakesOut ==
  ASSUME NEW f, NEW S, IsFiniteSet(S), \A x \in S : f[x] \in Int, NEW x \in S
  PROVE  Sum(f, S) = f[x] + Sum(f, S \ {x})
<1> DEFINE F == {T \in SUBSET S : \A y \in T : Sum(f, T) = f[y] + Sum(f, T \ {y})}
<1>0. \A T \in SUBSET S : IsFiniteSet(T) /\ Sum(f, T) \in Int
  BY FS_Subset, SumType
<1>1. {} \in F
  OBVIOUS
<1>2. ASSUME NEW T \in SUBSET S, T # {}, \A y \in T : T \ {y} \in F PROVE T \in F
  <2> DEFINE p == Picked(T)
  <2>1. p \in T /\ Sum(f, T) = f[p] + Sum(f, T \ {p})
    BY <1>0, <1>2, SumPicks
  <2> HIDE DEF p
  <2>2. ASSUME NEW y \in T, y # p PROVE Sum(f, T) = f[y] + Sum(f, T \ {y})
    <3>1. Sum(f, T \ {p}) = f[y] + Sum(f, (T \ {p}) \ {y})
      BY <1>2, <2>1, <2>2
    <3>2. Sum(f, T \ {y}) = f[p] + Sum(f, (T \ {y}) \ {p})
      BY <1>2, <2>1, <2>2
    <3>3. (T \ {p}) \ {y} = (T \ {y}) \ {p} /\ f[y] \in Int /\ f[p] \in Int
      BY <2>1
    <3>4. PICK rest \in Int : rest = Sum(f, (T \ {y}) \ {p})
      BY <1>0
    <3>5. Sum(f, T) = f[p] + (f[y] + rest) /\ Sum(f, T \ {y}) = f[p] + rest
      BY <2>1, <3>1, <3>2, <3>3, <3>4, Zenon
    <3> QED BY <3>3, <3>5
  <2> QED BY <2>1, <2>2
<1>3. SUBSET S \subseteq F
  <2> HIDE DEF F
  <2> QED BY <1>1, <1>2, SubsetInduction
<1> QED BY <1>3

\* Equal summands have equal sums.
LEMMA SumSame ==
  ASSUME NEW f, NEW g, NEW S, IsFiniteSet(S), \A x \in S : f[x] = g[x] PROVE Sum(f, S) = Sum(g, S)
<1> DEFINE F == {T \in SUBSET S : Sum(f, T) = Sum(g, T)}
<1>1. {} \in F
  BY SumEmpty
<1>2. ASSUME NEW T \in SUBSET S, T # {}, \A x \in T : T \ {x} \in F PROVE T \in F
  <2>1. IsFiniteSet(T)
    BY FS_Subset
  <2>2. /\ Picked(T) \in T /\ Sum(f, T) = f[Picked(T)] + Sum(f, T \ {Picked(T)})
        /\ Sum(g, T) = g[Picked(T)] + Sum(g, T \ {Picked(T)})
    BY <1>2, <2>1, SumPicks
  <2> QED BY <1>2, <2>2
<1>3. SUBSET S \subseteq F
  <2> HIDE DEF F
  <2> QED BY <1>1, <1>2, SubsetInduction
<1> QED BY <1>3

\* Zeros add up to zero.
LEMMA SumZero ==
  ASSUME NEW f, NEW S, IsFiniteSet(S), \A x \in S : f[x] = 0 PROVE Sum(f, S) = 0
<1> DEFINE F == {T \in SUBSET S : Sum(f, T) = 0}
<1>1. {} \in F
  BY SumEmpty
<1>2. ASSUME NEW T \in SUBSET S, T # {}, \A x \in T : T \ {x} \in F PROVE T \in F
  <2>1. IsFiniteSet(T)
    BY FS_Subset
  <2>2. Picked(T) \in T /\ Sum(f, T) = f[Picked(T)] + Sum(f, T \ {Picked(T)})
    BY <1>2, <2>1, SumPicks
  <2> QED BY <1>2, <2>2
<1>3. SUBSET S \subseteq F
  <2> HIDE DEF F
  <2> QED BY <1>1, <1>2, SubsetInduction
<1> QED BY <1>3

\* A summand that grows by one lets the sum grow by one.
LEMMA SumOneMore ==
  ASSUME NEW S, IsFiniteSet(S), NEW f \in [S -> Int], NEW x \in S
  PROVE  Sum([f EXCEPT ![x] = @ + 1], S) = Sum(f, S) + 1
<1> DEFINE g == [f EXCEPT ![x] = @ + 1]
<1>1. g \in [S -> Int] /\ g[x] = f[x] + 1 /\ \A y \in S \ {x} : g[y] = f[y]
  OBVIOUS
<1> HIDE DEF g
<1>2. Sum(g, S) = g[x] + Sum(g, S \ {x}) /\ Sum(f, S) = f[x] + Sum(f, S \ {x})
  BY <1>1, SumTakesOut
<1>3. Sum(g, S \ {x}) = Sum(f, S \ {x}) /\ Sum(f, S \ {x}) \in Int
  <2>1. IsFiniteSet(S \ {x})
    BY FS_RemoveElement
  <2> QED BY <1>1, <2>1, SumSame, SumType
<1>4. f[x] \in Int
  OBVIOUS
<1> QED BY <1>1, <1>2, <1>3, <1>4 DEF g

-----------------------------------------------------------------------------
(* Folds over sequences: the function that FoldLeft defines by recursion    *)
(* over the subsets of 1 .. n, for a step given as a function.              *)
Greatest(S) == CHOOSE x \in S : \A y \in S : x >= y
Folded(base, step, g, s) == IF s = {} THEN base ELSE step[<<Greatest(s), g[s \ {Greatest(s)}]>>]
Folding(base, step, g, n) == g = [s \in SUBSET (1 .. n) |-> Folded(base, step, g, s)]

LEMMA GreatestIn ==
  ASSUME NEW n \in Nat, NEW s \in SUBSET (1 .. n), s # {}
  PROVE  Greatest(s) \in s /\ \A y \in s : Greatest(s) >= y
<1> DEFINE bounds == {m \in Nat : \A y \in s : m >= y}
<1>1. n \in bounds
  OBVIOUS
<1>2. PICK m \in bounds : \A k \in bounds : m <= k
  <2> HIDE DEF bounds
  <2>1. bounds \subseteq Nat
    BY DEF bounds
  <2> QED BY <1>1, <2>1, Least
<1>3. m \in s
  <2> SUFFICES ASSUME m \notin s PROVE FALSE
    OBVIOUS
  <2>1. \A y \in s : m - 1 >= y
    BY <1>2
  <2>2. m - 1 \in bounds
    <3>1. PICK y \in s : TRUE
      OBVIOUS
    <3>2. m >= y /\ y >= 1 /\ m \in Nat
      BY <1>2
    <3> QED BY <2>1, <3>2
  <2> QED BY <1>2, <2>2
<1> QED BY <1>2, <1>3 DEF Greatest

\* There is such a function, and its values are accumulators.
LEMMA FoldsExist ==
  ASSUME NEW V, NEW base \in V, NEW n \in Nat, NEW step \in [(1 .. n) \X V -> V]
  PROVE  \E g \in [SUBSET (1 .. n) -> V] : Folding(base, step, g, n)
<1> DEFINE Has(k) == k <= n => \E g \in [SUBSET (1 .. k) -> V] : Folding(base, step, g, k)
           F == {k \in Nat : Has(k)}
<1>1. 0 \in F
  <2> DEFINE g == [s \in SUBSET (1 .. 0) |-> base]
  <2>1. \A s \in SUBSET (1 .. 0) : s = {}
    OBVIOUS
  <2>2. g \in [SUBSET (1 .. 0) -> V] /\ Folding(base, step, g, 0)
    BY <2>1 DEF Folding, Folded
  <2> HIDE DEF g
  <2>3. Has(0)
    BY <2>2
  <2> HIDE DEF Has
  <2> QED BY <2>3
<1>2. ASSUME NEW k \in Nat, k \in F PROVE k + 1 \in F
  <2>0. Has(k) /\ (Has(k + 1) => k + 1 \in F)
    <3> HIDE DEF Has
    <3> QED BY <1>2
  <2> HIDE DEF F
  <2> SUFFICES ASSUME k + 1 <= n
               PROVE  \E g \in [SUBSET (1 .. k + 1) -> V] : Folding(base, step, g, k + 1)
    BY <2>0
  <2>1. PICK g \in [SUBSET (1 .. k) -> V] : Folding(base, step, g, k)
    <3>1. k <= n
      OBVIOUS
    <3> QED BY <2>0, <3>1, Zenon
  <2> DEFINE h == [s \in SUBSET (1 .. k + 1) |->
                     IF k + 1 \in s THEN step[<<k + 1, g[s \ {k + 1}]>>] ELSE g[s]]
  <2>2. ASSUME NEW s \in SUBSET (1 .. k + 1) PROVE h[s] \in V /\ h[s] = Folded(base, step, h, s)
    <3>1. CASE k + 1 \in s
      <4>1. Greatest(s) = k + 1
        <5>1. k + 1 \in Nat /\ s # {}
          BY <3>1
        <5>2. Greatest(s) \in s /\ Greatest(s) >= k + 1
          BY <3>1, <5>1, GreatestIn
        <5>3. Greatest(s) \in 1 .. k + 1
          BY <5>2
        <5> HIDE DEF h
        <5> QED BY <5>2, <5>3
      <4>2. s \ {k + 1} \in SUBSET (1 .. k) /\ s \ {k + 1} \in SUBSET (1 .. k + 1)
        OBVIOUS
      <4>3. h[s \ {k + 1}] = g[s \ {k + 1}] /\ g[s \ {k + 1}] \in V
        BY <4>2
      <4>4. h[s] = step[<<k + 1, g[s \ {k + 1}]>>]
        BY <3>1
      <4>5. h[s] \in V
        <5>1. <<k + 1, g[s \ {k + 1}]>> \in (1 .. n) \X V
          BY <4>3
        <5> HIDE DEF h
        <5> QED BY <4>4, <5>1
      <4> HIDE DEF h
      <4> QED BY <3>1, <4>1, <4>3, <4>4, <4>5 DEF Folded
    <3>2. CASE k + 1 \notin s
      <4>1. s \in SUBSET (1 .. k) /\ h[s] = g[s] /\ g[s] \in V
        BY <3>2
      <4>2. h[s \ {Greatest(s)}] = g[s \ {Greatest(s)}]
        BY <3>2, <4>1
      <4>3. g[s] = Folded(base, step, g, s)
        BY <2>1, <4>1 DEF Folding
      <4> HIDE DEF h
      <4> QED BY <4>1, <4>2, <4>3 DEF Folded
    <3> QED BY <3>1, <3>2
  <2>3. h = [s \in SUBSET (1 .. k + 1) |-> h[s]] /\ DOMAIN h = SUBSET (1 .. k + 1)
    OBVIOUS
  <2> HIDE DEF h
  <2>4. h \in [SUBSET (1 .. k + 1) -> V]
    BY <2>2, <2>3
  <2>5. h = [s \in SUBSET (1 .. k + 1) |-> Folded(base, step, h, s)]
    BY <2>2, <2>3
  <2> QED BY <2>4, <2>5 DEF Folding
<1>3. Has(n)
  <2> HIDE DEF Has
  <2>1. Nat \subseteq F
    <3> HIDE DEF F
    <3> QED BY <1>1, <1>2, NatSetInduction
  <2> QED BY <2>1
<1>4. n <= n
  OBVIOUS
<1> QED BY <1>3, <1>4, Zenon

\* The subsets that the fold of a whole sequence passes through.
LEMMA Segments ==
  ASSUME NEW n \in Nat, NEW k \in 1 .. n
  PROVE  /\ (1 .. k) \in SUBSET (1 .. n) /\ 1 .. k # {}
         /\ Greatest(1 .. k) = k /\ (1 .. k) \ {k} = 1 .. k - 1
<1>1. /\ k \in Nat /\ (1 .. k) \in SUBSET (1 .. n) /\ (1 .. k) \in SUBSET (1 .. k)
      /\ k \in 1 .. k /\ 1 .. k # {} /\ (1 .. k) \ {k} = 1 .. k - 1
  OBVIOUS
<1>2. Greatest(1 .. k) \in 1 .. k /\ \A y \in 1 .. k : Greatest(1 .. k) >= y
  BY <1>1, GreatestIn, Zenon
<1>3. Greatest(1 .. k) = k
  BY <1>1, <1>2
<1> QED BY <1>1, <1>3

-----------------------------------------------------------------------------
(* Sorting: a list in the order R of the elements of S                      *)
Total(S, R) ==
  /\ \A x, y \in S : x # y => <<x, y>> \in R \/ <<y, x>> \in R
  /\ \A x \in S : <<x, x>> \notin R
  /\ \A x, y, z \in S : <<x, y>> \in R /\ <<y, z>> \in R => <<x, z>> \in R
InOrderOf(o, S, R) ==
  /\ o \in [1 .. Cardinality(S) -> S]
  /\ \A i, j \in 1 .. Cardinality(S) : i < j => <<o[i], o[j]>> \in R
  /\ \A x \in S : \E i \in 1 .. Cardinality(S) : o[i] = x

\* Ranked lists every element once, each after those before it.
LEMMA RankedInOrder ==
  ASSUME NEW S, IsFiniteSet(S), NEW R, Total(S, R) PROVE InOrderOf(Ranked(S, R), S, R)
<1> DEFINE n == Cardinality(S)
           below(x) == {y \in S : <<y, x>> \in R}
           rank == [x \in S |-> Cardinality(below(x))]
           o == Ranked(S, R)
<1>1. n \in Nat
  BY FS_CardinalityType
<1>2. ASSUME NEW x \in S PROVE IsFiniteSet(below(x)) /\ rank[x] \in 0 .. n - 1
  <2>1. below(x) \in SUBSET S /\ below(x) \in SUBSET (S \ {x})
    BY DEF Total
  <2>2. IsFiniteSet(S \ {x}) /\ Cardinality(S \ {x}) = n - 1
    BY FS_RemoveElement
  <2>3. IsFiniteSet(below(x)) /\ Cardinality(below(x)) <= n - 1
    BY <2>1, <2>2, FS_Subset
  <2>4. Cardinality(below(x)) \in Nat
    BY <2>3, FS_CardinalityType
  <2> QED BY <1>1, <2>3, <2>4
<1>3. ASSUME NEW x \in S, NEW y \in S, <<x, y>> \in R PROVE rank[x] < rank[y]
  <2>1. below(x) \in SUBSET below(y) /\ below(x) # below(y)
    <3>1. x \in below(y) /\ x \notin below(x)
      BY <1>3 DEF Total
    <3>2. \A z \in below(x) : z \in below(y)
      BY <1>3 DEF Total
    <3> QED BY <3>1, <3>2
  <2>2. Cardinality(below(x)) <= Cardinality(below(y)) /\ Cardinality(below(x)) # Cardinality(below(y))
    BY <1>2, <2>1, FS_Subset
  <2>3. rank[x] = Cardinality(below(x)) /\ rank[y] = Cardinality(below(y))
    OBVIOUS
  <2> HIDE DEF rank, below
  <2>4. rank[x] \in Int /\ rank[y] \in Int
    BY <1>1, <1>2
  <2> QED BY <2>2, <2>3, <2>4
<1>4. \A x, y \in S : rank[x] = rank[y] => x = y
  <2> SUFFICES ASSUME NEW x \in S, NEW y \in S, rank[x] = rank[y], x # y PROVE FALSE
    OBVIOUS
  <2> HIDE DEF rank, below
  <2>1. rank[x] \in Int /\ rank[y] \in Int
    BY <1>1, <1>2
  <2>2. <<x, y>> \in R \/ <<y, x>> \in R
    BY DEF Total
  <2>3. rank[x] < rank[y] \/ rank[y] < rank[x]
    BY <1>3, <2>2
  <2> QED BY <2>1, <2>3
<1>5. rank \in Injection(S, 0 .. n - 1)
  <2>1. rank \in [S -> 0 .. n - 1]
    BY <1>2
  <2> HIDE DEF rank
  <2> QED BY <1>4, <2>1 DEF Injection, IsInjective
<1>6. \A i \in 0 .. n - 1 : \E x \in S : rank[x] = i
  <2>1. IsFiniteSet(0 .. n - 1) /\ Cardinality(0 .. n - 1) = n
    BY <1>1, FS_Interval
  <2>2. rank \in Surjection(S, 0 .. n - 1)
    BY <1>5, <2>1, FS_Injection
  <2> HIDE DEF rank
  <2> QED BY <2>2 DEF Surjection
<1>7. ASSUME NEW i \in 1 .. n PROVE o[i] \in S /\ rank[o[i]] = i - 1
  <2>1. o[i] = CHOOSE x \in S : Cardinality(below(x)) = i - 1
    BY DEF Ranked
  <2>2. i - 1 \in 0 .. n - 1
    BY <1>1
  <2>3. \E x \in S : rank[x] = i - 1
    BY <1>6, <2>2
  <2>4. \E x \in S : Cardinality(below(x)) = i - 1
    BY <2>3
  <2>5. o[i] \in S /\ Cardinality(below(o[i])) = i - 1
    BY <2>1, <2>4, Zenon
  <2> HIDE DEF o
  <2> QED BY <2>5
<1>8. o \in [1 .. n -> S]
  <2> DEFINE c(i) == CHOOSE x \in S : Cardinality(below(x)) = i - 1
  <2>0. o = [i \in 1 .. n |-> c(i)]
    BY DEF Ranked
  <2> HIDE DEF o, c, n
  <2>1. o = [i \in 1 .. n |-> o[i]]
    BY <2>0
  <2> HIDE DEF o
  <2> QED BY <1>7, <2>1
<1>9. ASSUME NEW i \in 1 .. n, NEW j \in 1 .. n, i < j PROVE <<o[i], o[j]>> \in R
  <2>1. /\ o[i] \in S /\ o[j] \in S /\ rank[o[i]] = i - 1 /\ rank[o[j]] = j - 1
    BY <1>7
  <2> HIDE DEF rank, o
  <2>2. rank[o[i]] # rank[o[j]] /\ ~(rank[o[j]] < rank[o[i]])
    BY <1>9, <2>1
  <2>3. o[i] # o[j] /\ <<o[j], o[i]>> \notin R
    BY <1>3, <2>1, <2>2, Zenon
  <2> QED BY <2>1, <2>3 DEF Total
<1>10. ASSUME NEW x \in S PROVE \E i \in 1 .. n : o[i] = x
  <2>1. rank[x] \in 0 .. n - 1
    BY <1>2
  <2> DEFINE i == rank[x] + 1
  <2> HIDE DEF rank, o
  <2>2. i \in 1 .. n /\ i - 1 = rank[x]
    BY <1>1, <2>1
  <2>3. o[i] \in S /\ rank[o[i]] = rank[x]
    BY <1>7, <2>2
  <2>4. o[i] = x
    BY <1>4, <2>3
  <2> QED BY <2>2, <2>4
<1> HIDE DEF o, n
<1> QED BY <1>8, <1>9, <1>10 DEF InOrderOf, o, n

\* Numbers, and rows of three numbers, are totally ordered.
LEMMA LessTotal == ASSUME NEW S \in SUBSET Int PROVE Total(S, Less(S))
BY DEF Total, Less

LEMMA EarlierTotal ==
  ASSUME NEW S \in SUBSET (Int \X Int \X Int) PROVE Total(S, Earlier(S))
<1>1. \A x \in S : x = <<x[1], x[2], x[3]>> /\ x[1] \in Int /\ x[2] \in Int /\ x[3] \in Int
  OBVIOUS
<1>2. ASSUME NEW x \in S, NEW y \in S PROVE <<x, y>> \in Earlier(S) <=> Precedes(x, y)
  BY DEF Earlier
<1>3. ASSUME NEW x \in S, NEW y \in S, x # y PROVE Precedes(x, y) \/ Precedes(y, x)
  <2>1. x[1] # y[1] \/ x[2] # y[2] \/ x[3] # y[3]
    BY <1>1, <1>3
  <2> QED BY <1>1, <2>1 DEF Precedes
<1>4. \A x \in S : ~Precedes(x, x)
  BY <1>1 DEF Precedes
<1>5. ASSUME NEW x \in S, NEW y \in S, NEW z \in S, Precedes(x, y), Precedes(y, z) PROVE Precedes(x, z)
  BY <1>1, <1>5 DEF Precedes
<1> QED BY <1>2, <1>3, <1>4, <1>5 DEF Total

LEMMA ImageFinite == ASSUME NEW S, IsFiniteSet(S), NEW f PROVE IsFiniteSet({f[x] : x \in S})
<1> DEFINE image == {f[x] : x \in S}
           g == [x \in S |-> f[x]]
<1>1. g \in Surjection(S, image)
  BY DEF Surjection
<1> HIDE DEF g, image
<1>2. IsFiniteSet(image)
  BY <1>1, FS_Surjection
<1> QED BY <1>2 DEF image

LEMMA GreatestOf ==
  ASSUME NEW S, IsFiniteSet(S), S \subseteq Int, S # {} PROVE \E x \in S : \A y \in S : y <= x
<1> DEFINE F == {A \in SUBSET S : A # {} => \E x \in A : \A y \in A : y <= x}
<1>1. {} \in F
  OBVIOUS
<1>2. ASSUME NEW A \in SUBSET S, A # {}, \A x \in A : A \ {x} \in F PROVE A \in F
  <2>1. PICK x \in A : TRUE
    BY <1>2
  <2>2. CASE A \ {x} = {}
    <3>1. \A y \in A : y = x
      BY <2>2
    <3>2. x \in Int /\ x <= x
      BY <2>1
    <3> QED BY <2>1, <3>1, <3>2
  <2>3. CASE A \ {x} # {}
    <3>1. PICK z \in A \ {x} : \A y \in A \ {x} : y <= z
      BY <1>2, <2>3
    <3>2. \A y \in A : y \in Int /\ (y = x \/ y <= z)
      BY <3>1
    <3>3. x \in A /\ z \in A /\ x \in Int /\ z \in Int
      BY <2>1, <3>1
    <3>4. CASE x <= z
      BY <3>2, <3>3, <3>4
    <3>5. CASE ~(x <= z)
      <4>1. \A y \in A : y <= x
        BY <3>2, <3>3, <3>5
      <4> QED BY <3>3, <4>1
    <3> QED BY <3>4, <3>5
  <2> QED BY <2>2, <2>3
<1>3. S \in F
  <2> HIDE DEF F
  <2>1. SUBSET S \subseteq F
    BY <1>1, <1>2, SubsetInduction
  <2> QED BY <2>1
<1> QED BY <1>3

-----------------------------------------------------------------------------
(* Points on a line, and the intervals between them                        *)
\* The sum over an interval of which the tail has one value.
TailAdds(f, a, b, c, v) == Sum(f, a .. c - 1) = Sum(f, a .. b - 1) + v * (c - b)

LEMMA SumConstantTail ==
  ASSUME NEW f, NEW a \in Int, NEW b \in Int, NEW c \in Int, a <= b, b <= c, NEW v \in Int,
         \A t \in a .. c - 1 : f[t] \in Int, \A t \in b .. c - 1 : f[t] = v
  PROVE  TailAdds(f, a, b, c, v)
<1> DEFINE F == {d \in Nat : b + d <= c => Sum(f, a .. (b + d) - 1) = Sum(f, a .. b - 1) + v * d}
<1>0. \A d \in Nat : b + d <= c => IsFiniteSet(a .. (b + d) - 1) /\ Sum(f, a .. (b + d) - 1) \in Int
  <2> SUFFICES ASSUME NEW d \in Nat, b + d <= c
               PROVE  IsFiniteSet(a .. (b + d) - 1) /\ Sum(f, a .. (b + d) - 1) \in Int
    OBVIOUS
  <2>1. (b + d) - 1 \in Int /\ \A t \in a .. (b + d) - 1 : t \in a .. c - 1
    OBVIOUS
  <2>2. IsFiniteSet(a .. (b + d) - 1)
    BY <2>1, FS_Interval
  <2>3. \A t \in a .. (b + d) - 1 : f[t] \in Int
    BY <2>1
  <2> QED BY <2>2, <2>3, SumType
<1>1. 0 \in F
  <2>1. (b + 0) - 1 = b - 1 /\ v * 0 = 0 /\ b + 0 <= c
    OBVIOUS
  <2>2. Sum(f, a .. b - 1) \in Int
    BY <1>0, <2>1
  <2>3. Sum(f, a .. (b + 0) - 1) = Sum(f, a .. b - 1) + v * 0
    BY <2>1, <2>2
  <2> QED BY <2>3
<1>2. ASSUME NEW d \in Nat, d \in F PROVE d + 1 \in F
  <2> SUFFICES ASSUME b + (d + 1) <= c
               PROVE  Sum(f, a .. (b + (d + 1)) - 1) = Sum(f, a .. b - 1) + v * (d + 1)
    OBVIOUS
  <2> DEFINE x == b + d
             S == a .. x
  <2>1. /\ x \in S /\ x \in b .. c - 1 /\ S \ {x} = a .. (b + d) - 1 /\ (b + (d + 1)) - 1 = x
        /\ b + d <= c /\ \A t \in S : t \in a .. c - 1
    OBVIOUS
  <2>2. f[x] = v /\ \A t \in S : f[t] \in Int
    BY <2>1
  <2>3. IsFiniteSet(S)
    BY FS_Interval
  <2>4. Sum(f, S) = f[x] + Sum(f, S \ {x})
    <3> HIDE DEF S, x
    <3> QED BY <2>1, <2>2, <2>3, SumTakesOut
  <2>5. Sum(f, a .. (b + d) - 1) = Sum(f, a .. b - 1) + v * d
    BY <1>2, <2>1
  <2>6. Sum(f, a .. b - 1) \in Int
    <3>1. (b + 0) - 1 = b - 1 /\ b + 0 <= c
      OBVIOUS
    <3> QED BY <1>0, <3>1
  <2>7. v * (d + 1) = v * d + v /\ v * d \in Int
    OBVIOUS
  <2>8. Sum(f, S) = v + (Sum(f, a .. b - 1) + v * d)
    BY <2>1, <2>2, <2>4, <2>5
  <2>9. Sum(f, a .. (b + (d + 1)) - 1) = Sum(f, S)
    BY <2>1, Zenon
  <2> HIDE DEF S, x
  <2> QED BY <2>6, <2>7, <2>8, <2>9
<1> HIDE DEF F
<1> DEFINE d == c - b
<1>3. d \in Nat /\ b + d = c
  OBVIOUS
<1>4. d \in F
  BY <1>1, <1>2, <1>3, NatSetInduction
<1> HIDE DEF d
<1>5. b + d <= c /\ (b + d) - 1 = c - 1 /\ c - b = d
  BY <1>3
<1>6. Sum(f, a .. (b + d) - 1) = Sum(f, a .. b - 1) + v * d
  BY <1>4, <1>5 DEF F
<1> QED BY <1>5, <1>6, Zenon DEF TailAdds

\* Of the intervals of K, from l to r, those that are open at t.
OpenAt(K, l, r, t) == Cardinality({k \in K : l[k] <= t /\ t < r[k]})
EndsAt(K, l, r, p, n) ==
  /\ IsFiniteSet(K) /\ \A k \in K : l[k] \in Int /\ r[k] \in Int /\ l[k] < r[k] /\ p[1] <= l[k] /\ r[k] <= p[n]
  /\ n \in Nat /\ n >= 1 /\ p \in [1 .. n -> Int] /\ \A i, j \in 1 .. n : i < j => p[i] < p[j]
  /\ \A k \in K : (\E i \in 1 .. n : p[i] = l[k]) /\ (\E i \in 1 .. n : p[i] = r[k])

LEMMA OpenNat ==
  ASSUME NEW K, NEW l, NEW r, NEW p, NEW n, EndsAt(K, l, r, p, n), NEW t
  PROVE  IsFiniteSet({k \in K : l[k] <= t /\ t < r[k]}) /\ OpenAt(K, l, r, t) \in Nat
<1>1. IsFiniteSet({k \in K : l[k] <= t /\ t < r[k]})
  BY FS_Subset DEF EndsAt
<1> QED BY <1>1, FS_CardinalityType DEF OpenAt

\* Between two points nothing opens or closes.
LEMMA OpenBetween ==
  ASSUME NEW K, NEW l, NEW r, NEW p, NEW n, EndsAt(K, l, r, p, n),
         NEW i \in 1 .. n, i + 1 \in 1 .. n, NEW t \in p[i] .. p[i + 1] - 1
  PROVE  OpenAt(K, l, r, t) = OpenAt(K, l, r, p[i])
<1>1. p[i] \in Int /\ p[i + 1] \in Int /\ t \in Int /\ p[i] <= t /\ t < p[i + 1]
  BY DEF EndsAt
<1>2. ASSUME NEW j \in 1 .. n PROVE (p[j] <= t <=> p[j] <= p[i]) /\ (t < p[j] <=> p[i] < p[j]) /\ p[j] \in Int
  <2>1. p[j] \in Int /\ i \in Int /\ j \in Int
    BY DEF EndsAt
  <2>2. CASE j <= i
    <3>1. p[j] <= p[i]
      BY <1>1, <2>1, <2>2 DEF EndsAt
    <3> QED BY <1>1, <2>1, <3>1
  <2>3. CASE ~(j <= i)
    <3>1. p[i + 1] <= p[j]
      <4>1. i + 1 = j \/ i + 1 < j
        BY <2>1, <2>3
      <4> QED BY <1>1, <2>1, <4>1 DEF EndsAt
    <3> QED BY <1>1, <2>1, <3>1
  <2> QED BY <2>2, <2>3
<1>3. ASSUME NEW k \in K PROVE (l[k] <= t /\ t < r[k]) <=> (l[k] <= p[i] /\ p[i] < r[k])
  <2>1. PICK a \in 1 .. n : p[a] = l[k]
    BY DEF EndsAt
  <2>2. PICK b \in 1 .. n : p[b] = r[k]
    BY DEF EndsAt
  <2> QED BY <1>2, <2>1, <2>2
<1>4. {k \in K : l[k] <= t /\ t < r[k]} = {k \in K : l[k] <= p[i] /\ p[i] < r[k]}
  BY <1>3
<1> QED BY <1>4, Zenon DEF OpenAt

Change(K, l, r, t) == Cardinality({k \in K : l[k] = t}) - Cardinality({k \in K : r[k] = t})

\* Two disjoint parts of two sets that are the same set together.
LEMMA DisjointParts ==
  ASSUME NEW A, NEW B, NEW C, NEW D, IsFiniteSet(A), IsFiniteSet(B), IsFiniteSet(C), IsFiniteSet(D),
         A \cup B = C \cup D, A \cap B = {}, C \cap D = {}
  PROVE  /\ Cardinality(A) = Cardinality(C) + (Cardinality(D) - Cardinality(B))
         /\ Cardinality(A) \in Nat /\ Cardinality(B) \in Nat /\ Cardinality(C) \in Nat /\ Cardinality(D) \in Nat
<1>1. /\ Cardinality(A) \in Nat /\ Cardinality(B) \in Nat /\ Cardinality(C) \in Nat /\ Cardinality(D) \in Nat
      /\ Cardinality({}) = 0
  BY FS_CardinalityType, FS_EmptySet
<1>2. Cardinality(A \cup B) = Cardinality(A) + Cardinality(B) - Cardinality(A \cap B)
  BY FS_Union
<1>3. Cardinality(C \cup D) = Cardinality(C) + Cardinality(D) - Cardinality(C \cap D)
  BY FS_Union
<1>4. Cardinality(A \cap B) = 0 /\ Cardinality(C \cap D) = 0 /\ Cardinality(A \cup B) = Cardinality(C \cup D)
  BY <1>1, Zenon
<1> QED BY <1>1, <1>2, <1>3, <1>4

\* At a point, what is open changes by what opens and closes there.
LEMMA OpenChanges ==
  ASSUME NEW K, NEW l, NEW r, NEW p, NEW n, EndsAt(K, l, r, p, n), NEW i \in 1 .. n, i + 1 \in 1 .. n
  PROVE  OpenAt(K, l, r, p[i + 1]) = OpenAt(K, l, r, p[i]) + Change(K, l, r, p[i + 1])
<1> DEFINE A == {k \in K : l[k] <= p[i + 1] /\ p[i + 1] < r[k]}
           B == {k \in K : r[k] = p[i + 1]}
           C == {k \in K : l[k] <= p[i] /\ p[i] < r[k]}
           D == {k \in K : l[k] = p[i + 1]}
<1>1. IsFiniteSet(A) /\ IsFiniteSet(B) /\ IsFiniteSet(C) /\ IsFiniteSet(D)
  BY FS_Subset DEF EndsAt
<1>2. p[i] \in Int /\ p[i + 1] \in Int /\ p[i] < p[i + 1] /\ i \in Int
  BY DEF EndsAt
<1>3. ASSUME NEW j \in 1 .. n PROVE p[j] \in Int /\ (p[j] <= p[i] \/ p[j] >= p[i + 1])
  <2>1. p[j] \in Int /\ j \in Int
    BY DEF EndsAt
  <2>2. j < i \/ j = i \/ j = i + 1 \/ i + 1 < j
    BY <1>2, <2>1
  <2> QED BY <1>2, <2>1, <2>2 DEF EndsAt
<1>4. ASSUME NEW k \in K
      PROVE  /\ l[k] \in Int /\ r[k] \in Int /\ l[k] < r[k]
             /\ l[k] <= p[i] \/ l[k] >= p[i + 1]
             /\ r[k] <= p[i] \/ r[k] >= p[i + 1]
  <2>1. PICK a \in 1 .. n : p[a] = l[k]
    BY DEF EndsAt
  <2>2. PICK b \in 1 .. n : p[b] = r[k]
    BY DEF EndsAt
  <2>3. l[k] < r[k]
    BY DEF EndsAt
  <2> QED BY <1>3, <2>1, <2>2, <2>3
<1>5. A \cup B = C \cup D /\ A \cap B = {} /\ C \cap D = {}
  <2>1. ASSUME NEW k \in K
        PROVE  /\ k \in A \/ k \in B <=> k \in C \/ k \in D
               /\ ~(k \in A /\ k \in B) /\ ~(k \in C /\ k \in D)
    BY <1>2, <1>4
  <2>2. A \subseteq K /\ B \subseteq K /\ C \subseteq K /\ D \subseteq K
    OBVIOUS
  <2> HIDE DEF A, B, C, D
  <2> QED BY <2>1, <2>2
<1> HIDE DEF A, B, C, D
<1>6. Cardinality(A) = Cardinality(C) + (Cardinality(D) - Cardinality(B))
  BY <1>1, <1>5, DisjointParts
<1> QED BY <1>6, Zenon DEF OpenAt, Change, A, B, C, D

LEMMA PointBefore ==
  ASSUME NEW n \in Nat, n >= 1, NEW p \in [1 .. n -> Int], NEW t \in Int, p[1] <= t, t < p[n]
  PROVE  \E i \in 1 .. n : i + 1 \in 1 .. n /\ p[i] <= t /\ t < p[i + 1]
<1> DEFINE S == {i \in 1 .. n : p[i] <= t}
           g == Greatest(S)
<1>1. S \in SUBSET (1 .. n) /\ 1 \in S
  OBVIOUS
<1> HIDE DEF S
<1>2. g \in S /\ \A i \in S : i <= g
  BY <1>1, GreatestIn
<1> HIDE DEF g
<1>3. g \in 1 .. n /\ p[g] <= t
  BY <1>2 DEF S
<1>4. g # n
  BY <1>3
<1>5. g + 1 \in 1 .. n
  BY <1>3, <1>4
<1>6. g + 1 \notin S
  BY <1>2, <1>3
<1>7. ~(p[g + 1] <= t) /\ p[g + 1] \in Int
  BY <1>5, <1>6 DEF S
<1> QED BY <1>3, <1>5, <1>7

-----------------------------------------------------------------------------
(* A search, visit by visit: visit is a function from what is visited and   *)
(* the state of the search to its next state                               *)
Visiting(g, visit, base, seq) ==
  g = [s \in SUBSET DOMAIN seq |->
         IF s = {} THEN base ELSE visit[<<seq[Greatest(s)], g[s \ {Greatest(s)}]>>]]
AllVisited(visit, base, seq) == CHOOSE g : Visiting(g, visit, base, seq)
Visited(visit, base, seq) == AllVisited(visit, base, seq)[DOMAIN seq]
VisitSteps(f, visit, base, seq) == f[0] = base /\ \A k \in 1 .. Len(seq) : f[k] = visit[<<seq[k], f[k - 1]>>]
Stays(visit, N, V) == \A p \in N, s \in V : visit[<<p, s>>] \in V
SameVisits(other, visit, N, V) == \A p \in N, s \in V : other[<<p, s>>] = visit[<<p, s>>]
StepByStep(visit, V, base, seq) ==
  \E f \in [0 .. Len(seq) -> V] : VisitSteps(f, visit, base, seq) /\ Visited(visit, base, seq) = f[Len(seq)]

\* The fold over what is visited is a state for every visit, each made from the last.
LEMMA VisitStepwise ==
  ASSUME NEW N, NEW V, NEW visit, Stays(visit, N, V), NEW base \in V, NEW seq \in Seq(N)
  PROVE  StepByStep(visit, V, base, seq)
<1> USE DEF Stays
<1> DEFINE n == Len(seq)
           step == [x \in (1 .. n) \X V |-> visit[<<seq[x[1]], x[2]>>]]
           all == AllVisited(visit, base, seq)
<1>1. n \in Nat /\ DOMAIN seq = 1 .. n /\ \A k \in 1 .. n : seq[k] \in N
  OBVIOUS
<1> HIDE DEF n
<1>2. step \in [(1 .. n) \X V -> V]
  BY <1>1
<1>3. PICK g \in [SUBSET (1 .. n) -> V] : Folding(base, step, g, n)
  <2> HIDE DEF step
  <2> QED BY <1>1, <1>2, FoldsExist
<1>4. Visiting(g, visit, base, seq)
  <2>1. ASSUME NEW s \in SUBSET (1 .. n), s # {}
        PROVE  Folded(base, step, g, s) = visit[<<seq[Greatest(s)], g[s \ {Greatest(s)}]>>]
    <3>1. Greatest(s) \in 1 .. n
      BY <1>1, <2>1, GreatestIn
    <3>2. g[s \ {Greatest(s)}] \in V
      BY <1>3
    <3> QED BY <2>1, <3>1, <3>2 DEF Folded
  <2>2. Folded(base, step, g, {}) = base
    BY DEF Folded
  <2> HIDE DEF step
  <2> QED BY <1>1, <1>3, <2>1, <2>2 DEF Visiting, Folding
<1>5. Visiting(all, visit, base, seq)
  BY <1>4, Zenon DEF AllVisited
<1>6. Visited(visit, base, seq) = all[1 .. n]
  BY <1>1 DEF Visited
<1> HIDE DEF all
<1> DEFINE f == [k \in 0 .. n |-> all[1 .. k]]
           F == {k \in Nat : k <= n => f[k] \in V}
<1>7. f[0] = base
  <2>1. {} \in SUBSET DOMAIN seq /\ 1 .. 0 = {} /\ 0 \in 0 .. n
    BY <1>1
  <2> QED BY <1>5, <2>1 DEF Visiting
<1>8. ASSUME NEW k \in 1 .. n PROVE f[k] = visit[<<seq[k], f[k - 1]>>]
  <2>1. /\ (1 .. k) \in SUBSET DOMAIN seq /\ 1 .. k # {}
        /\ Greatest(1 .. k) = k /\ (1 .. k) \ {k} = 1 .. k - 1
    BY <1>1, Segments
  <2>2. k \in 0 .. n /\ k - 1 \in 0 .. n
    BY <1>1
  <2>3. all[1 .. k] = visit[<<seq[k], all[1 .. k - 1]>>]
    BY <1>5, <2>1 DEF Visiting
  <2> QED BY <2>2, <2>3
<1>9. f = [k \in 0 .. n |-> f[k]] /\ f[n] = all[1 .. n]
  BY <1>1
<1> HIDE DEF f
<1>10. Nat \subseteq F
  <2>1. 0 \in F
    BY <1>7
  <2>2. ASSUME NEW k \in Nat, k \in F PROVE k + 1 \in F
    <3> SUFFICES ASSUME k + 1 <= n PROVE f[k + 1] \in V
      OBVIOUS
    <3>1. k + 1 \in 1 .. n /\ (k + 1) - 1 = k /\ f[k] \in V
      BY <1>1, <2>2
    <3>2. f[k + 1] = visit[<<seq[k + 1], f[k]>>] /\ seq[k + 1] \in N
      BY <1>1, <1>8, <3>1
    <3> QED BY <3>1, <3>2
  <2> HIDE DEF F
  <2> QED BY <2>1, <2>2, NatSetInduction
<1>11. f \in [0 .. n -> V]
  <2>1. \A k \in 0 .. n : f[k] \in V
    BY <1>10
  <2> QED BY <1>9, <2>1
<1>12. VisitSteps(f, visit, base, seq)
  BY <1>7, <1>8 DEF VisitSteps, n
<1> QED BY <1>6, <1>9, <1>11, <1>12 DEF n, StepByStep

\* Visits that do the same on the way have the same result.
LEMMA VisitsAgree ==
  ASSUME NEW N, NEW V, NEW visit, NEW other, Stays(visit, N, V),
         SameVisits(other, visit, N, V),
         NEW base \in V, NEW seq \in Seq(N)
  PROVE  Visited(other, base, seq) = Visited(visit, base, seq)
<1> DEFINE n == Len(seq)
<1>1. n \in Nat /\ \A k \in 1 .. n : seq[k] \in N
  OBVIOUS
<1>2. PICK f \in [0 .. n -> V] : VisitSteps(f, visit, base, seq) /\ Visited(visit, base, seq) = f[n]
  BY VisitStepwise DEF StepByStep
<1>3. PICK g \in [0 .. n -> V] : VisitSteps(g, other, base, seq) /\ Visited(other, base, seq) = g[n]
  <2>1. Stays(other, N, V)
    BY DEF Stays, SameVisits
  <2>2. StepByStep(other, V, base, seq)
    BY <2>1, VisitStepwise
  <2> QED BY <2>2 DEF StepByStep
<1> DEFINE F == {k \in Nat : k <= n => f[k] = g[k]}
<1>4. /\ f[0] = base /\ \A k \in 1 .. n : f[k] = visit[<<seq[k], f[k - 1]>>]
      /\ g[0] = base /\ \A k \in 1 .. n : g[k] = other[<<seq[k], g[k - 1]>>]
  BY <1>2, <1>3 DEF VisitSteps
<1> HIDE DEF n
<1>5. 0 \in F
  BY <1>4
<1>6. ASSUME NEW k \in Nat, k \in F PROVE k + 1 \in F
  <2> SUFFICES ASSUME k + 1 <= n PROVE f[k + 1] = g[k + 1]
    OBVIOUS
  <2>1. k + 1 \in 1 .. n /\ (k + 1) - 1 = k /\ k \in 0 .. n /\ f[k] = g[k]
    BY <1>1, <1>6
  <2>2. f[k] \in V /\ seq[k + 1] \in N
    BY <1>1, <1>2, <2>1
  <2>3. f[k + 1] = visit[<<seq[k + 1], f[k]>>] /\ g[k + 1] = other[<<seq[k + 1], g[k]>>]
    BY <1>4, <2>1
  <2> QED BY <2>1, <2>2, <2>3 DEF SameVisits
<1>7. n \in F
  <2> HIDE DEF F
  <2> QED BY <1>1, <1>5, <1>6, NatSetInduction
<1> QED BY <1>1, <1>2, <1>3, <1>7

-----------------------------------------------------------------------------
(* A depth-first search for cycles, over the graph in which each of ids has *)
(* a list of parents: visit is the function from a node and a state of the  *)
(* search to the state after the visit.                                     *)
SearchStates(ids) == [visiting : SUBSET ids, visited : SUBSET ids, cycle : BOOLEAN]
OnEntry(s, n) == [s EXCEPT !.visiting = @ \cup {n}]
Done(t, n) == [t EXCEPT !.visiting = @ \ {n}, !.visited = @ \cup {n}]
AfterVisit(s, n, inner) ==
  IF s.cycle THEN s
  ELSE IF n \in s.visiting THEN [s EXCEPT !.cycle = TRUE]
  ELSE IF n \in s.visited THEN s
  ELSE IF inner.cycle THEN inner
  ELSE Done(inner, n)
VisitOf(visit, parents, n, s) == AfterVisit(s, n, Visited(visit, OnEntry(s, n), parents[n]))
Visits(visit, ids, parents) ==
  visit = [x \in ids \X SearchStates(ids) |-> VisitOf(visit, parents, x[1], x[2])]

Graph(ids, parents) == IsFiniteSet(ids) /\ \A n \in ids : parents[n] \in Seq(ids)
Up(parents, n) == {parents[n][i] : i \in DOMAIN parents[n]}
ClosedUp(parents, C) == \A m \in C : Up(parents, m) \subseteq C
HasSinks(parents, C) == \A S \in SUBSET C : S # {} => \E n \in S : Up(parents, n) \cap S = {}
Settled(parents, s) ==
  s.visited \cap s.visiting = {} /\ ClosedUp(parents, s.visited) /\ HasSinks(parents, s.visited)

\* What is being visited leads to n; no node leads to itself.
OnPath(ids, parents, visiting, n) ==
  \A m \in visiting, C \in SUBSET ids : ClosedUp(parents, C) /\ Up(parents, m) \subseteq C => n \in C
Apart(ids, parents) ==
  \A n \in ids : \E C \in SUBSET ids : ClosedUp(parents, C) /\ Up(parents, n) \subseteq C /\ n \notin C

\* From base the search has visited the nodes "done" and is in state t.
WithoutCycle(parents, base, done, t) ==
  /\ ~base.cycle /\ t.visiting = base.visiting /\ base.visited \subseteq t.visited /\ done \subseteq t.visited
  /\ Settled(parents, base) => Settled(parents, t)
Searched(ids, parents, base, done, t) ==
  /\ base.visiting \subseteq t.visiting
  /\ ~t.cycle => WithoutCycle(parents, base, done, t)
  /\ Apart(ids, parents) /\ ~base.cycle /\ (\A p \in done : OnPath(ids, parents, base.visiting, p)) => ~t.cycle

\* Reaching one more node.
LEMMA ReachedOn ==
  ASSUME NEW ids, NEW parents, NEW base, NEW D, NEW t, NEW p, NEW u,
         Searched(ids, parents, base, D, t), Searched(ids, parents, t, {p}, u)
  PROVE  Searched(ids, parents, base, D \cup {p}, u)
<1>1. base.visiting \subseteq u.visiting
  BY DEF Searched
<1>2. ASSUME ~u.cycle PROVE WithoutCycle(parents, base, D \cup {p}, u)
  <2>1. WithoutCycle(parents, t, {p}, u)
    BY <1>2, Zenon DEF Searched
  <2>2. ~t.cycle
    BY <2>1, Zenon DEF WithoutCycle
  <2>3. WithoutCycle(parents, base, D, t)
    BY <2>2, Zenon DEF Searched
  <2> QED BY <2>1, <2>3 DEF WithoutCycle
<1>3. ASSUME Apart(ids, parents), ~base.cycle, \A q \in D \cup {p} : OnPath(ids, parents, base.visiting, q)
      PROVE  ~u.cycle
  <2>1. ~t.cycle
    BY <1>3, Zenon DEF Searched
  <2>2. t.visiting = base.visiting
    BY <2>1, Zenon DEF Searched, WithoutCycle
  <2>3. \A q \in {p} : OnPath(ids, parents, t.visiting, q)
    BY <1>3, <2>2
  <2> QED BY <1>3, <2>1, <2>3, Zenon DEF Searched
<1> QED BY <1>1, <1>2, <1>3, Zenon DEF Searched

\* A visit, given what the visits of the parents do.
LEMMA VisitReaches ==
  ASSUME NEW ids, NEW parents, NEW n \in ids, NEW s \in SearchStates(ids), NEW inner,
         n \notin s.visiting =>
           inner \in SearchStates(ids) /\ Searched(ids, parents, OnEntry(s, n), Up(parents, n), inner)
  PROVE  AfterVisit(s, n, inner) \in SearchStates(ids) /\ Searched(ids, parents, s, {n}, AfterVisit(s, n, inner))
<1> DEFINE t == AfterVisit(s, n, inner)
<1>1. s.visiting \in SUBSET ids /\ s.visited \in SUBSET ids /\ s.cycle \in BOOLEAN
  BY DEF SearchStates
<1>2. CASE s.cycle
  <2>1. t = s
    BY <1>2, Zenon DEF AfterVisit
  <2>2. Searched(ids, parents, s, {n}, s)
    BY <1>2, Zenon DEF Searched
  <2> QED BY <2>1, <2>2
<1>3. CASE ~s.cycle /\ n \in s.visiting
  <2> DEFINE u == [s EXCEPT !.cycle = TRUE]
  <2>1. t = u
    BY <1>3, Zenon DEF AfterVisit
  <2>2. u \in SearchStates(ids) /\ u.visiting = s.visiting /\ u.cycle
    BY DEF SearchStates
  <2> HIDE DEF u
  <2>3. ~(Apart(ids, parents) /\ OnPath(ids, parents, s.visiting, n))
    BY <1>3, Zenon DEF Apart, OnPath
  <2>4. Searched(ids, parents, s, {n}, u)
    BY <2>2, <2>3, Zenon DEF Searched
  <2> QED BY <2>1, <2>2, <2>4
<1>4. CASE ~s.cycle /\ n \notin s.visiting /\ n \in s.visited
  <2>1. t = s
    BY <1>4, Zenon DEF AfterVisit
  <2>2. Searched(ids, parents, s, {n}, s)
    BY <1>4 DEF Searched, WithoutCycle
  <2> QED BY <2>1, <2>2
<1>5. CASE ~s.cycle /\ n \notin s.visiting /\ n \notin s.visited
  <2> DEFINE e == OnEntry(s, n)
  <2>1. /\ e.visiting = s.visiting \cup {n} /\ e.visited = s.visited /\ e.cycle = s.cycle
        /\ e \in SearchStates(ids)
    BY DEF OnEntry, SearchStates
  <2> HIDE DEF e
  <2>2. inner \in SearchStates(ids) /\ Searched(ids, parents, e, Up(parents, n), inner)
    BY <1>5 DEF e
  <2>3. ASSUME Apart(ids, parents), \A p \in {n} : OnPath(ids, parents, s.visiting, p) PROVE ~inner.cycle
    <3>1. OnPath(ids, parents, s.visiting, n)
      BY <2>3
    <3>2. \A p \in Up(parents, n) : OnPath(ids, parents, e.visiting, p)
      BY <2>1, <3>1 DEF OnPath, ClosedUp
    <3> QED BY <1>5, <2>1, <2>2, <2>3, <3>2, Zenon DEF Searched
  <2>4. CASE inner.cycle
    <3>1. t = inner
      BY <1>5, <2>4, Zenon DEF AfterVisit
    <3>2. s.visiting \subseteq inner.visiting
      BY <2>1, <2>2 DEF Searched
    <3>3. Searched(ids, parents, s, {n}, inner)
      BY <2>3, <2>4, <3>2, Zenon DEF Searched
    <3> QED BY <2>2, <3>1, <3>3
  <2>5. CASE ~inner.cycle
    <3> DEFINE d == Done(inner, n)
    <3>1. t = d
      BY <1>5, <2>5, Zenon DEF AfterVisit
    <3>2. /\ d.visiting = inner.visiting \ {n} /\ d.visited = inner.visited \cup {n} /\ d.cycle = inner.cycle
          /\ d \in SearchStates(ids)
      BY <1>1, <2>2 DEF Done, SearchStates
    <3> HIDE DEF d
    <3>3. WithoutCycle(parents, e, Up(parents, n), inner)
      BY <2>2, <2>5, Zenon DEF Searched
    <3>4. /\ inner.visiting = e.visiting /\ e.visited \subseteq inner.visited
          /\ Up(parents, n) \subseteq inner.visited
          /\ Settled(parents, e) => Settled(parents, inner)
      BY <3>3, Zenon DEF WithoutCycle
    <3>5. d.visiting = s.visiting
      BY <1>5, <2>1, <3>2, <3>4
    <3>6. ASSUME Settled(parents, s) PROVE Settled(parents, d)
      <4>1. Settled(parents, e)
        BY <1>5, <2>1, <3>6 DEF Settled
      <4>2. /\ inner.visited \cap inner.visiting = {} /\ ClosedUp(parents, inner.visited)
            /\ HasSinks(parents, inner.visited)
        BY <3>4, <4>1, Zenon DEF Settled
      <4>3. n \notin inner.visited
        BY <2>1, <3>4, <4>2
      <4>4. d.visited \cap d.visiting = {} /\ ClosedUp(parents, d.visited)
        BY <2>1, <3>2, <3>4, <3>5, <4>2, <1>5 DEF ClosedUp
      <4>5. ASSUME NEW S \in SUBSET d.visited, S # {} PROVE \E m \in S : Up(parents, m) \cap S = {}
        <5>1. CASE S \ {n} = {}
          <6>1. n \in S /\ Up(parents, n) \cap S = {}
            BY <3>4, <4>3, <4>5, <5>1
          <6> QED BY <6>1
        <5>2. CASE S \ {n} # {}
          <6>1. S \ {n} \in SUBSET inner.visited
            BY <3>2
          <6>2. PICK m \in S \ {n} : Up(parents, m) \cap (S \ {n}) = {}
            BY <4>2, <5>2, <6>1 DEF HasSinks
          <6>3. Up(parents, m) \subseteq inner.visited
            BY <4>2, <6>1 DEF ClosedUp
          <6>4. Up(parents, m) \cap S = {}
            BY <4>3, <6>2, <6>3
          <6> QED BY <6>4
        <5> QED BY <5>1, <5>2
      <4> QED BY <4>4, <4>5 DEF Settled, HasSinks
    <3>7. WithoutCycle(parents, s, {n}, d)
      <4>1. s.visited \subseteq d.visited /\ {n} \subseteq d.visited
        BY <2>1, <3>2, <3>4
      <4> QED BY <1>5, <3>5, <3>6, <4>1, Zenon DEF WithoutCycle
    <3>8. ~d.cycle
      BY <2>5, <3>2
    <3>9. Searched(ids, parents, s, {n}, d)
      BY <3>5, <3>7, <3>8 DEF Searched
    <3> QED BY <3>1, <3>2, <3>9
  <2> QED BY <2>4, <2>5
<1> QED BY <1>2, <1>3, <1>4, <1>5

\* Visits one after another, given what each does.
Beyond(ids, base) == {t \in SearchStates(ids) : base.visiting \subseteq t.visiting}
VisitsReach(ids, parents, visit, V) ==
  \A p \in ids, t \in V :
    visit[<<p, t>>] \in SearchStates(ids) /\ Searched(ids, parents, t, {p}, visit[<<p, t>>])
Grows(ids, visit, V) ==
  \A p \in ids, t \in V : visit[<<p, t>>] \in SearchStates(ids) /\ t.visiting \subseteq visit[<<p, t>>].visiting

\* Visits that only add to what is being visited, one after another.
LEMMA VisitedGrows ==
  ASSUME NEW ids, NEW visit, NEW base \in SearchStates(ids), NEW seq \in Seq(ids),
         Grows(ids, visit, Beyond(ids, base))
  PROVE  Stays(visit, ids, Beyond(ids, base)) /\ Visited(visit, base, seq) \in Beyond(ids, base)
<1> DEFINE V == Beyond(ids, base)
<1>1. base \in V
  BY DEF Beyond
<1>2. Stays(visit, ids, V)
  BY DEF Stays, Grows, Beyond
<1> HIDE DEF V
<1>3. StepByStep(visit, V, base, seq)
  BY <1>1, <1>2, VisitStepwise
<1>4. PICK f \in [0 .. Len(seq) -> V] : Visited(visit, base, seq) = f[Len(seq)]
  BY <1>3 DEF StepByStep
<1>5. Len(seq) \in 0 .. Len(seq)
  OBVIOUS
<1> QED BY <1>2, <1>4, <1>5 DEF V

\* The same for what they find.
LEMMA VisitedReaches ==
  ASSUME NEW ids, NEW parents, NEW visit, NEW base \in SearchStates(ids), NEW seq \in Seq(ids),
         VisitsReach(ids, parents, visit, Beyond(ids, base))
  PROVE  /\ Visited(visit, base, seq) \in SearchStates(ids)
         /\ Searched(ids, parents, base, {seq[i] : i \in DOMAIN seq}, Visited(visit, base, seq))
<1> DEFINE V == Beyond(ids, base)
           n == Len(seq)
           first(k) == {seq[i] : i \in 1 .. k}
<1>1. Grows(ids, visit, V)
  BY DEF Grows, VisitsReach, Searched
<1>2. base \in V /\ Stays(visit, ids, V)
  <2>1. Stays(visit, ids, Beyond(ids, base))
    BY <1>1, VisitedGrows
  <2> QED BY <2>1 DEF Beyond
<1> HIDE DEF V
<1>3. StepByStep(visit, V, base, seq)
  BY <1>2, VisitStepwise
<1>4. PICK f \in [0 .. n -> V] : VisitSteps(f, visit, base, seq) /\ Visited(visit, base, seq) = f[n]
  BY <1>3 DEF StepByStep
<1>5. f[0] = base /\ \A k \in 1 .. n : f[k] = visit[<<seq[k], f[k - 1]>>]
  BY <1>4 DEF VisitSteps
<1>6. n \in Nat /\ DOMAIN seq = 1 .. n /\ \A k \in 1 .. n : seq[k] \in ids
  OBVIOUS
<1> DEFINE F == {k \in Nat : k <= n => Searched(ids, parents, base, first(k), f[k])}
<1> HIDE DEF n
<1>7. 0 \in F
  <2>1. first(0) = {}
    OBVIOUS
  <2>2. Searched(ids, parents, base, {}, base)
    BY DEF Searched, WithoutCycle
  <2> HIDE DEF first
  <2> QED BY <1>5, <2>1, <2>2
<1>8. ASSUME NEW k \in Nat, k \in F PROVE k + 1 \in F
  <2> SUFFICES ASSUME k + 1 <= n PROVE Searched(ids, parents, base, first(k + 1), f[k + 1])
    OBVIOUS
  <2>1. k + 1 \in 1 .. n /\ (k + 1) - 1 = k /\ k \in 0 .. n
    BY <1>6
  <2>2. f[k] \in V /\ seq[k + 1] \in ids /\ f[k + 1] = visit[<<seq[k + 1], f[k]>>]
    BY <1>4, <1>5, <1>6, <2>1
  <2>3. Searched(ids, parents, f[k], {seq[k + 1]}, f[k + 1])
    BY <2>2 DEF VisitsReach, V
  <2>4. Searched(ids, parents, base, first(k), f[k])
    BY <1>8, <2>1
  <2>5. first(k + 1) = first(k) \cup {seq[k + 1]}
    <3>1. 1 .. k + 1 = (1 .. k) \cup {k + 1}
      OBVIOUS
    <3> QED BY <3>1
  <2> HIDE DEF first
  <2>6. Searched(ids, parents, base, first(k) \cup {seq[k + 1]}, f[k + 1])
    BY <2>3, <2>4, ReachedOn
  <2> QED BY <2>5, <2>6
<1>9. n \in F
  <2> HIDE DEF F
  <2> QED BY <1>6, <1>7, <1>8, NatSetInduction
<1>10. Searched(ids, parents, base, first(n), f[n])
  BY <1>6, <1>9
<1>11. f[n] \in SearchStates(ids)
  <2>1. f[n] \in V
    BY <1>4, <1>6
  <2> QED BY <2>1 DEF V, Beyond
<1>12. {seq[i] : i \in DOMAIN seq} = first(n)
  BY <1>6
<1> HIDE DEF first
<1> QED BY <1>4, <1>10, <1>11, <1>12

\* The states with fewer than k nodes that are not being visited.
Roomy(ids, k) == {s \in SearchStates(ids) : Cardinality(ids \ s.visiting) < k}
Searches(visit, ids, parents, k) ==
  \A n \in ids, s \in Roomy(ids, k) : visit[<<n, s>>] = VisitOf(visit, parents, n, s)

\* All states are among these for some k,
LEMMA AllRoomy ==
  ASSUME NEW ids, IsFiniteSet(ids)
  PROVE  Cardinality(ids) + 1 \in Nat /\ SearchStates(ids) \subseteq Roomy(ids, Cardinality(ids) + 1)
<1> DEFINE States == SearchStates(ids)
<1>1. \A s \in States : Cardinality(ids \ s.visiting) \in Nat /\ Cardinality(ids \ s.visiting) <= Cardinality(ids)
  <2>1. \A s \in States : ids \ s.visiting \in SUBSET ids
    OBVIOUS
  <2> QED BY <2>1, FS_Subset, FS_CardinalityType
<1>2. Cardinality(ids) \in Nat
  BY FS_CardinalityType
<1> QED BY <1>1, <1>2 DEF Roomy

\* and a visit makes room for one node fewer.
LEMMA LessRoom ==
  ASSUME NEW ids, IsFiniteSet(ids), NEW k \in Nat, NEW s \in Roomy(ids, k + 1), NEW n \in ids, n \notin s.visiting
  PROVE  OnEntry(s, n) \in SearchStates(ids) /\ Beyond(ids, OnEntry(s, n)) \subseteq Roomy(ids, k)
<1> DEFINE e == OnEntry(s, n)
<1>1. s \in SearchStates(ids) /\ Cardinality(ids \ s.visiting) < k + 1
  BY DEF Roomy
<1>2. e \in SearchStates(ids) /\ e.visiting = s.visiting \cup {n}
  BY <1>1 DEF OnEntry, SearchStates
<1> HIDE DEF e
<1>3. ASSUME NEW t \in Beyond(ids, e) PROVE t \in Roomy(ids, k)
  <2>1. t \in SearchStates(ids) /\ n \in t.visiting /\ s.visiting \subseteq t.visiting
    BY <1>2 DEF Beyond
  <2> DEFINE A == ids \ s.visiting
             B == ids \ t.visiting
  <2>2. B \in SUBSET (A \ {n}) /\ n \in A
    BY <2>1
  <2>3. IsFiniteSet(A) /\ Cardinality(A) \in Nat /\ Cardinality(A) < k + 1
    BY <1>1, FS_Difference, FS_CardinalityType
  <2> HIDE DEF A, B
  <2>4. IsFiniteSet(A \ {n}) /\ Cardinality(A \ {n}) = Cardinality(A) - 1
    BY <2>2, <2>3, FS_RemoveElement
  <2>5. IsFiniteSet(B) /\ Cardinality(B) <= Cardinality(A \ {n})
    BY <2>2, <2>4, FS_Subset
  <2>6. Cardinality(B) \in Nat
    BY <2>5, FS_CardinalityType
  <2>7. Cardinality(B) < k
    BY <2>3, <2>4, <2>5, <2>6
  <2> QED BY <2>1, <2>7 DEF Roomy, B
<1> QED BY <1>2, <1>3 DEF e

\* The visits of a search only add to what is being visited.
LEMMA VisitGrows ==
  ASSUME NEW ids, NEW n \in ids, NEW s \in SearchStates(ids), NEW inner,
         n \notin s.visiting => inner \in Beyond(ids, OnEntry(s, n))
  PROVE  AfterVisit(s, n, inner) \in Beyond(ids, s)
<1>1. CASE n \in s.visiting
  <2>1. AfterVisit(s, n, inner) = s \/ AfterVisit(s, n, inner) = [s EXCEPT !.cycle = TRUE]
    BY <1>1, Zenon DEF AfterVisit
  <2>2. [s EXCEPT !.cycle = TRUE] \in Beyond(ids, s) /\ s \in Beyond(ids, s)
    BY DEF SearchStates, Beyond
  <2> QED BY <2>1, <2>2, Zenon
<1>2. CASE n \notin s.visiting
  <2>1. inner \in SearchStates(ids) /\ s.visiting \cup {n} \subseteq inner.visiting
    BY <1>2 DEF Beyond, OnEntry, SearchStates
  <2>2. \/ AfterVisit(s, n, inner) = s \/ AfterVisit(s, n, inner) = inner
        \/ AfterVisit(s, n, inner) = Done(inner, n)
    BY <1>2, Zenon DEF AfterVisit
  <2>3. s \in Beyond(ids, s) /\ inner \in Beyond(ids, s)
    BY <2>1 DEF Beyond
  <2>4. Done(inner, n) \in Beyond(ids, s)
    BY <1>2, <2>1 DEF Beyond, Done, SearchStates
  <2> QED BY <2>2, <2>3, <2>4, Zenon
<1> QED BY <1>1, <1>2

\* There is such a search.
LEMMA SearchExists ==
  ASSUME NEW ids, NEW parents, Graph(ids, parents) PROVE \E visit : Visits(visit, ids, parents)
<1> DEFINE States == SearchStates(ids)
           Table(g) == g = [x \in ids \X States |-> g[x]]
           Some(k) == \E g : Table(g) /\ Grows(ids, g, States) /\ Searches(g, ids, parents, k)
           F == {k \in Nat : Some(k)}
<1>0. IsFiniteSet(ids) /\ \A n \in ids : parents[n] \in Seq(ids)
  BY DEF Graph
<1>1. 0 \in F
  <2> DEFINE g == [x \in ids \X States |-> x[2]]
  <2>1. Grows(ids, g, States)
    BY DEF Grows
  <2>2. Roomy(ids, 0) = {}
    <3>1. \A s \in States : Cardinality(ids \ s.visiting) \in Nat
      BY <1>0, FS_Difference, FS_CardinalityType
    <3> QED BY <3>1 DEF Roomy
  <2>3. Searches(g, ids, parents, 0)
    BY <2>2 DEF Searches
  <2>4. Table(g)
    OBVIOUS
  <2> HIDE DEF g, Table
  <2>5. Some(0)
    BY <2>1, <2>3, <2>4
  <2> HIDE DEF Some
  <2> QED BY <2>5
<1>2. ASSUME NEW k \in Nat, k \in F PROVE k + 1 \in F
  <2>1. PICK g : Grows(ids, g, States) /\ Searches(g, ids, parents, k)
    BY <1>2
  <2> DEFINE h == [x \in ids \X States |-> VisitOf(g, parents, x[1], x[2])]
  <2>2. ASSUME NEW n \in ids, NEW s \in States
        PROVE  h[<<n, s>>] = VisitOf(g, parents, n, s)
    <3>1. <<n, s>> \in ids \X States /\ <<n, s>>[1] = n /\ <<n, s>>[2] = s
      OBVIOUS
    <3> QED BY <3>1, Zenon
  <2>0. Table(h)
    OBVIOUS
  <2> HIDE DEF h, Table
  <2>3. ASSUME NEW n \in ids, NEW s \in States, n \notin s.visiting
        PROVE  /\ Grows(ids, g, Beyond(ids, OnEntry(s, n))) /\ OnEntry(s, n) \in States
               /\ Stays(g, ids, Beyond(ids, OnEntry(s, n)))
               /\ Visited(g, OnEntry(s, n), parents[n]) \in Beyond(ids, OnEntry(s, n))
    <3>1. Grows(ids, g, Beyond(ids, OnEntry(s, n))) /\ OnEntry(s, n) \in States
      BY <2>1 DEF Grows, Beyond, OnEntry, SearchStates
    <3>2. parents[n] \in Seq(ids)
      BY <1>0
    <3> QED BY <3>1, <3>2, VisitedGrows
  <2>4. Grows(ids, h, States)
    <3>1. ASSUME NEW n \in ids, NEW s \in States PROVE h[<<n, s>>] \in Beyond(ids, s)
      <4>1. VisitOf(g, parents, n, s) \in Beyond(ids, s)
        BY <2>3, VisitGrows DEF VisitOf
      <4> QED BY <2>2, <4>1
    <3> QED BY <3>1 DEF Grows, Beyond
  <2>5. ASSUME NEW n \in ids, NEW s \in Roomy(ids, k + 1) PROVE h[<<n, s>>] = VisitOf(h, parents, n, s)
    <3>1. s \in States /\ h[<<n, s>>] = VisitOf(g, parents, n, s)
      BY <2>2 DEF Roomy
    <3>2. CASE n \in s.visiting
      BY <3>1, <3>2, Zenon DEF VisitOf, AfterVisit
    <3>3. CASE n \notin s.visiting
      <4> DEFINE e == OnEntry(s, n)
                 V == Beyond(ids, e)
      <4>1. V \subseteq Roomy(ids, k) /\ V \subseteq States
        BY <1>0, <3>3, LessRoom DEF Beyond
      <4>2. SameVisits(h, g, ids, V)
        BY <2>1, <2>2, <4>1 DEF Searches, SameVisits
      <4>3. Stays(g, ids, V) /\ e \in V /\ parents[n] \in Seq(ids)
        BY <1>0, <2>3, <3>1, <3>3 DEF Beyond
      <4> HIDE DEF V, e
      <4>4. Visited(h, e, parents[n]) = Visited(g, e, parents[n])
        BY <4>2, <4>3, VisitsAgree
      <4> QED BY <3>1, <4>4, Zenon DEF VisitOf, e
    <3> QED BY <3>2, <3>3
  <2>6. Searches(h, ids, parents, k + 1)
    BY <2>5 DEF Searches
  <2>7. Some(k + 1)
    BY <2>0, <2>4, <2>6
  <2> HIDE DEF Some
  <2> QED BY <2>7
<1> DEFINE k == Cardinality(ids) + 1
<1>3. k \in Nat /\ States \subseteq Roomy(ids, k)
  BY <1>0, AllRoomy
<1> HIDE DEF k
<1>4. k \in F
  <2> HIDE DEF F
  <2> QED BY <1>1, <1>2, <1>3, NatSetInduction
<1>5. PICK g : Table(g) /\ Searches(g, ids, parents, k)
  BY <1>4
<1>6. ASSUME NEW x \in ids \X States PROVE g[x] = VisitOf(g, parents, x[1], x[2])
  <2>1. x[1] \in ids /\ x[2] \in Roomy(ids, k) /\ x = <<x[1], x[2]>>
    BY <1>3
  <2> QED BY <1>5, <2>1, Zenon DEF Searches
<1>7. Visits(g, ids, parents)
  BY <1>5, <1>6 DEF Visits
<1> QED BY <1>7

Searching(ids, parents) == CHOOSE visit : Visits(visit, ids, parents)

\* What it does in every state.
LEMMA SearchReaches ==
  ASSUME NEW ids, NEW parents, Graph(ids, parents)
  PROVE  VisitsReach(ids, parents, Searching(ids, parents), SearchStates(ids))
<1> DEFINE States == SearchStates(ids)
           visit == Searching(ids, parents)
           F == {k \in Nat : VisitsReach(ids, parents, visit, Roomy(ids, k))}
<1>0. IsFiniteSet(ids) /\ \A n \in ids : parents[n] \in Seq(ids)
  BY DEF Graph
<1>1. Visits(visit, ids, parents)
  BY SearchExists, Zenon DEF Searching
<1> HIDE DEF visit
<1>2. ASSUME NEW n \in ids, NEW s \in States PROVE visit[<<n, s>>] = VisitOf(visit, parents, n, s)
  <2>1. <<n, s>> \in ids \X States /\ <<n, s>>[1] = n /\ <<n, s>>[2] = s
    OBVIOUS
  <2> QED BY <1>1, <2>1, Zenon DEF Visits
<1>3. 0 \in F
  <2>1. \A s \in States : Cardinality(ids \ s.visiting) \in Nat
    BY <1>0, FS_Difference, FS_CardinalityType
  <2>2. Roomy(ids, 0) = {}
    BY <2>1 DEF Roomy
  <2> QED BY <2>2 DEF VisitsReach
<1>4. ASSUME NEW k \in Nat, k \in F PROVE k + 1 \in F
  <2>1. ASSUME NEW n \in ids, NEW s \in Roomy(ids, k + 1)
        PROVE  visit[<<n, s>>] \in States /\ Searched(ids, parents, s, {n}, visit[<<n, s>>])
    <3> DEFINE e == OnEntry(s, n)
               inner == Visited(visit, e, parents[n])
    <3>1. s \in States
      BY DEF Roomy
    <3>2. ASSUME n \notin s.visiting PROVE inner \in States /\ Searched(ids, parents, e, Up(parents, n), inner)
      <4>1. e \in States /\ Beyond(ids, e) \subseteq Roomy(ids, k)
        BY <1>0, <3>2, LessRoom
      <4>2. VisitsReach(ids, parents, visit, Beyond(ids, e))
        BY <1>4, <4>1 DEF VisitsReach
      <4>3. parents[n] \in Seq(ids)
        BY <1>0
      <4> HIDE DEF e
      <4> QED BY <4>1, <4>2, <4>3, VisitedReaches DEF Up
    <3> HIDE DEF inner
    <3>3. AfterVisit(s, n, inner) \in States /\ Searched(ids, parents, s, {n}, AfterVisit(s, n, inner))
      BY <3>1, <3>2, VisitReaches
    <3>4. visit[<<n, s>>] = AfterVisit(s, n, inner)
      BY <1>2, <3>1, Zenon DEF VisitOf, inner
    <3> QED BY <3>3, <3>4
  <2>2. VisitsReach(ids, parents, visit, Roomy(ids, k + 1))
    BY <2>1 DEF VisitsReach
  <2> HIDE DEF visit
  <2> QED BY <2>2
<1> DEFINE k == Cardinality(ids) + 1
<1>5. k \in Nat /\ States \subseteq Roomy(ids, k)
  BY <1>0, AllRoomy
<1> HIDE DEF k
<1>6. k \in F
  <2> HIDE DEF F
  <2> QED BY <1>3, <1>4, <1>5, NatSetInduction
<1>7. VisitsReach(ids, parents, visit, Roomy(ids, k))
  BY <1>6
<1>8. VisitsReach(ids, parents, visit, States)
  BY <1>5, <1>7 DEF VisitsReach
<1> QED BY <1>8 DEF visit

\* If every set of nodes has one without parents in it, no node leads to itself.
LEMMA SinksApart ==
  ASSUME NEW ids, NEW parents, Graph(ids, parents), HasSinks(parents, ids) PROVE Apart(ids, parents)
<1> DEFINE Good(n, C) == ClosedUp(parents, C) /\ Up(parents, n) \subseteq C /\ n \notin C
           Bad == {n \in ids : \A C \in SUBSET ids : ~Good(n, C)}
<1>1. \A n \in ids : Up(parents, n) \subseteq ids
  BY DEF Graph, Up
<1> SUFFICES ASSUME Bad # {} PROVE FALSE
  BY DEF Apart
<1>2. PICK m \in Bad : Up(parents, m) \cap Bad = {}
  BY DEF HasSinks
<1>3. m \in ids /\ \A C \in SUBSET ids : ~Good(m, C)
  BY <1>2
<1> DEFINE C == {x \in ids : \E p \in Up(parents, m), D \in SUBSET ids : Good(p, D) /\ (x = p \/ x \in D)}
<1>4. \A p \in Up(parents, m) : p \in ids /\ \E D \in SUBSET ids : Good(p, D)
  BY <1>1, <1>2, <1>3
<1>5. ClosedUp(parents, C)
  <2> SUFFICES ASSUME NEW x \in C, NEW y \in Up(parents, x) PROVE y \in C
    BY DEF ClosedUp
  <2>1. PICK p \in Up(parents, m), D \in SUBSET ids : Good(p, D) /\ (x = p \/ x \in D)
    OBVIOUS
  <2>2. y \in D
    BY <2>1 DEF ClosedUp
  <2> QED BY <2>1, <2>2
<1>6. Up(parents, m) \subseteq C
  BY <1>4
<1>7. m \notin C
  <2> SUFFICES ASSUME m \in C PROVE FALSE
    OBVIOUS
  <2>1. PICK p \in Up(parents, m), D \in SUBSET ids : Good(p, D) /\ (m = p \/ m \in D)
    OBVIOUS
  <2>2. m # p
    BY <1>2, <2>1
  <2>3. p \in D
    BY <2>1, <2>2 DEF ClosedUp
  <2> QED BY <2>1, <2>3
<1>8. C \in SUBSET ids
  OBVIOUS
<1> HIDE DEF C
<1> QED BY <1>3, <1>5, <1>6, <1>7, <1>8

\* A search that has visited nothing yet.
Begin == [visiting |-> {}, visited |-> {}, cycle |-> FALSE]

\* An outermost search of every node finds a cycle exactly when some nodes of
\* the graph all wait for another one of them.
LEMMA SearchDecides ==
  ASSUME NEW ids, NEW parents, Graph(ids, parents), NEW roots \in Seq(ids), {roots[i] : i \in DOMAIN roots} = ids
  PROVE  ~Visited(Searching(ids, parents), Begin, roots).cycle <=> HasSinks(parents, ids)
<1> DEFINE visit == Searching(ids, parents)
           t == Visited(visit, Begin, roots)
<1>1. Begin \in SearchStates(ids) /\ Begin.visiting = {} /\ Begin.visited = {} /\ ~Begin.cycle
  BY DEF Begin, SearchStates
<1>2. VisitsReach(ids, parents, visit, Beyond(ids, Begin))
  <2>1. VisitsReach(ids, parents, visit, SearchStates(ids))
    BY SearchReaches
  <2> HIDE DEF visit
  <2> QED BY <2>1 DEF VisitsReach, Beyond
<1> HIDE DEF visit
<1>3. t \in SearchStates(ids) /\ Searched(ids, parents, Begin, ids, t)
  BY <1>1, <1>2, VisitedReaches
<1> HIDE DEF t
<1>4. ASSUME ~t.cycle PROVE HasSinks(parents, ids)
  <2>1. WithoutCycle(parents, Begin, ids, t)
    BY <1>3, <1>4, Zenon DEF Searched
  <2>2. Settled(parents, Begin)
    BY <1>1 DEF Settled, ClosedUp, HasSinks
  <2>3. Settled(parents, t) /\ ids \subseteq t.visited
    BY <2>1, <2>2, Zenon DEF WithoutCycle
  <2> QED BY <2>3 DEF Settled, HasSinks
<1>5. ASSUME HasSinks(parents, ids) PROVE ~t.cycle
  <2>1. Apart(ids, parents)
    BY <1>5, SinksApart
  <2>2. \A p \in ids : OnPath(ids, parents, Begin.visiting, p)
    BY <1>1 DEF OnPath
  <2> QED BY <1>1, <1>3, <2>1, <2>2, Zenon DEF Searched
<1> QED BY <1>4, <1>5, Zenon DEF t, visit

\* What is listed without repetition is as many as the list is long.
LEMMA ImageCounted ==
  ASSUME NEW n \in Nat, NEW f
  PROVE  Cardinality({f[i] : i \in 1 .. n}) = n <=> \A i, j \in 1 .. n : f[i] = f[j] => i = j
<1> DEFINE S == 1 .. n
           V == {f[i] : i \in S}
           g == [i \in S |-> f[i]]
<1>1. IsFiniteSet(S) /\ Cardinality(S) = n
  <2>1. 1 \in Int /\ n \in Int /\ n - 1 + 1 = n
    OBVIOUS
  <2> QED BY <2>1, FS_Interval
<1>2. g \in Surjection(S, V)
  BY DEF Surjection
<1>3. Cardinality(V) = Cardinality(S) <=> g \in Injection(S, V)
  <2> HIDE DEF S, V, g
  <2> QED BY <1>1, <1>2, FS_Surjection
<1>4. g \in Injection(S, V) <=> \A i, j \in S : f[i] = f[j] => i = j
  BY DEF Injection, IsInjective
<1> QED BY <1>1, <1>3, <1>4

\* What every step keeps is kept.
LEMMA StepsStay ==
  ASSUME NEW V, NEW n \in Nat, NEW f, f = [k \in 0 .. n |-> f[k]], f[0] \in V,
         \A k \in 1 .. n : f[k - 1] \in V => f[k] \in V
  PROVE  f \in [0 .. n -> V]
<1> DEFINE F == {k \in Nat : k <= n => f[k] \in V}
<1>1. 0 \in F
  OBVIOUS
<1>2. ASSUME NEW k \in Nat, k \in F PROVE k + 1 \in F
  <2> SUFFICES ASSUME k + 1 <= n PROVE f[k + 1] \in V
    OBVIOUS
  <2>1. k + 1 \in 1 .. n /\ (k + 1) - 1 = k /\ f[k] \in V
    BY <1>2
  <2> QED BY <2>1
<1>3. Nat \subseteq F
  <2> HIDE DEF F
  <2> QED BY <1>1, <1>2, NatSetInduction
<1>4. \A k \in 0 .. n : f[k] \in V
  BY <1>3
<1> QED BY <1>4
=============================================================================
