------------------------ MODULE Computations_proofs ------------------------
(***************************************************************************)
(* What the parts of Records compute is right, for every value of the      *)
(* constants: sums over finite sets first, then the contexts, the numbers  *)
(* of the dashboard, the evaluations and the routes.                       *)
(***************************************************************************)
EXTENDS Records_proofs

-----------------------------------------------------------------------------
(* Induction over numbers and over the parts of a finite set. *)

\* A set of numbers that has 0, and with each number the next, has them all.
LEMMA Induction ==
  ASSUME NEW S \in SUBSET Nat, 0 \in S, \A n \in S : n + 1 \in S PROVE S = Nat
<1> SUFFICES ASSUME S # Nat PROVE FALSE
  OBVIOUS
<1>1. OpToRel(<, Nat) = Less
  BY DEF OpToRel, Less
<1>2. IsWellFoundedOn(Less, Nat)
  BY <1>1, NatLessThanWellFounded
<1>3. PICK least \in Nat \ S : \A y \in Nat \ S : ~(<<y, least>> \in Less)
  BY <1>2, WFMin
<1>4. least - 1 \in Nat /\ <<least - 1, least>> \in Less
  BY <1>3 DEF Less
<1>5. least - 1 \in S
  BY <1>3, <1>4
<1>6. (least - 1) + 1 = least
  BY <1>3
<1> QED
  BY <1>3, <1>5, <1>6

LEMMA PartSize ==
  ASSUME NEW S, IsFiniteSet(S), NEW s \in SUBSET S
  PROVE  /\ IsFiniteSet(s) /\ Cardinality(s) \in Nat /\ Cardinality(s) <= Cardinality(S) /\ Cardinality(S) \in Nat
         /\ Cardinality(s) = 0 <=> s = {}
         /\ \A x \in s : Cardinality(s \ {x}) = Cardinality(s) - 1
<1>1. IsFiniteSet(s) /\ Cardinality(s) \in Nat /\ Cardinality(s) <= Cardinality(S) /\ Cardinality(S) \in Nat
  BY FS_Subset, FS_CardinalityType
<1>2. Cardinality(s) = 0 <=> s = {}
  BY <1>1, FS_EmptySet
<1>3. \A x \in s : Cardinality(s \ {x}) = Cardinality(s) - 1
  BY <1>1, FS_RemoveElement
<1> QED
  BY <1>1, <1>2, <1>3

\* What holds of a part whenever it holds of that part but for any of its elements holds of every part.
LEMMA PartInduction ==
  ASSUME NEW S, IsFiniteSet(S), NEW P, \A s \in SUBSET S : (\A x \in s : s \ {x} \in P) => s \in P
  PROVE  SUBSET S \subseteq P
<1> DEFINE N == {n \in Nat : \A s \in SUBSET S : Cardinality(s) <= n => s \in P}
<1>1. 0 \in N
  <2> SUFFICES ASSUME NEW s \in SUBSET S, Cardinality(s) <= 0 PROVE s \in P
    OBVIOUS
  <2>1. s = {}
    BY PartSize
  <2> QED
    BY <2>1
<1>2. ASSUME NEW n \in N PROVE n + 1 \in N
  <2> SUFFICES ASSUME NEW s \in SUBSET S, Cardinality(s) <= n + 1 PROVE s \in P
    BY <1>2
  <2>1. ASSUME NEW x \in s PROVE s \ {x} \in P
    <3>1. s \ {x} \in SUBSET S /\ Cardinality(s \ {x}) <= n
      BY PartSize
    <3> QED
      BY <3>1
  <2> QED
    BY <2>1
<1>3. N = Nat
  <2>1. N \in SUBSET Nat
    OBVIOUS
  <2> HIDE DEF N
  <2> QED
    BY <1>1, <1>2, <2>1, Induction
<1>4. \A s \in SUBSET S : Cardinality(s) \in N /\ Cardinality(s) <= Cardinality(s)
  <2> HIDE DEF N
  <2> QED
    BY <1>3, PartSize
<1> QED
  BY <1>4

-----------------------------------------------------------------------------
(* Folds over finite sets. *)

\* What is folded of a set that is not empty is a step from what is folded of the others.
FoldOn(g, choice, step, first, S) ==
  g = [s \in SUBSET S |-> IF s = {} THEN first ELSE step[<<choice[s], g[s \ {choice[s]}]>>]]

LEMMA Folding ==
  ASSUME NEW S, IsFiniteSet(S), NEW V, NEW first \in V, NEW step \in [S \X V -> V],
         NEW choice, \A s \in SUBSET S : s # {} => choice[s] \in s
  PROVE  \E g \in [SUBSET S -> V] : FoldOn(g, choice, step, first, S)
<1> DEFINE To(g, s) == IF s = {} THEN first ELSE step[<<choice[s], g[s \ {choice[s]}]>>]
           N == {n \in Nat : \E g \in [SUBSET S -> V] : \A s \in SUBSET S : Cardinality(s) <= n => g[s] = To(g, s)}
<1>1. 0 \in N
  <2> DEFINE g == [s \in SUBSET S |-> first]
  <2>1. g \in [SUBSET S -> V]
    OBVIOUS
  <2>2. ASSUME NEW s \in SUBSET S, Cardinality(s) <= 0 PROVE g[s] = To(g, s)
    BY <2>2, PartSize
  <2> HIDE DEF g, To
  <2> QED
    BY <2>1, <2>2
<1>2. ASSUME NEW n \in N PROVE n + 1 \in N
  <2>1. n \in Nat
    BY <1>2
  <2>2. PICK g \in [SUBSET S -> V] : \A s \in SUBSET S : Cardinality(s) <= n => g[s] = To(g, s)
    BY <1>2
  <2> DEFINE h == [s \in SUBSET S |-> To(g, s)]
  <2>3. ASSUME NEW s \in SUBSET S PROVE To(g, s) \in V
    <3>1. s # {} => choice[s] \in S /\ s \ {choice[s]} \in SUBSET S
      OBVIOUS
    <3> QED
      BY <3>1
  <2>4. h \in [SUBSET S -> V]
    <3> HIDE DEF To
    <3> QED
      BY <2>3
  <2>5. ASSUME NEW s \in SUBSET S, Cardinality(s) <= n PROVE h[s] = g[s]
    <3> HIDE DEF To
    <3> QED
      BY <2>2, <2>5
  <2>6. ASSUME NEW s \in SUBSET S, Cardinality(s) <= n + 1 PROVE h[s] = To(h, s)
    <3>1. CASE s = {}
      BY <3>1
    <3>2. CASE s # {}
      <4>1. choice[s] \in s /\ s \ {choice[s]} \in SUBSET S
        BY <3>2
      <4>2. Cardinality(s \ {choice[s]}) <= n
        BY <2>1, <2>6, <4>1, PartSize
      <4>3. h[s \ {choice[s]}] = g[s \ {choice[s]}]
        BY <2>5, <4>1, <4>2
      <4>4. h[s] = To(g, s)
        OBVIOUS
      <4> HIDE DEF h
      <4> QED
        BY <4>3, <4>4
    <3> QED
      BY <3>1, <3>2
  <2> HIDE DEF h, To
  <2> QED
    BY <2>1, <2>4, <2>6
<1>3. N = Nat
  <2>1. N \in SUBSET Nat
    OBVIOUS
  <2> HIDE DEF N
  <2> QED
    BY <1>1, <1>2, <2>1, Induction
<1>4. Cardinality(S) \in N
  <2> HIDE DEF N
  <2> QED
    BY <1>3, FS_CardinalityType
<1>5. PICK g \in [SUBSET S -> V] : \A s \in SUBSET S : Cardinality(s) <= Cardinality(S) => g[s] = To(g, s)
  <2> HIDE DEF To
  <2> QED
    BY <1>4
<1>6. \A s \in SUBSET S : g[s] = To(g, s)
  <2> HIDE DEF To
  <2> QED
    BY <1>5, PartSize
<1>7. g = [s \in SUBSET S |-> To(g, s)]
  <2> HIDE DEF To
  <2> QED
    BY <1>6
<1> QED
  BY <1>7 DEF FoldOn

-----------------------------------------------------------------------------
(* Sums of what a function w gives the elements of a finite set. *)

One(s) == CHOOSE x \in s : TRUE
SumOn(g, w, S) == g = [s \in SUBSET S |-> IF s = {} THEN 0 ELSE w[One(s)] + g[s \ {One(s)}]]
Sum(w, S) == (CHOOSE g : SumOn(g, w, S))[S]

LEMMA SumExists ==
  ASSUME NEW S, IsFiniteSet(S), NEW w, \A x \in S : w[x] \in Int PROVE \E g : SumOn(g, w, S)
<1> DEFINE choice == [s \in SUBSET S |-> One(s)]
           step == [p \in S \X Int |-> w[p[1]] + p[2]]
<1>1. \A s \in SUBSET S : s # {} => One(s) \in s
  BY DEF One
<1>2. \A s \in SUBSET S : s # {} => choice[s] \in s
  BY <1>1
<1>3. step \in [S \X Int -> Int]
  OBVIOUS
<1>4. PICK g \in [SUBSET S -> Int] : FoldOn(g, choice, step, 0, S)
  <2>1. 0 \in Int
    OBVIOUS
  <2> HIDE DEF choice, step
  <2> QED
    BY <1>2, <1>3, <2>1, Folding, Zenon
<1>5. g = [s \in SUBSET S |-> IF s = {} THEN 0 ELSE step[<<choice[s], g[s \ {choice[s]}]>>]]
  BY <1>4 DEF FoldOn
<1>6. ASSUME NEW s \in SUBSET S, s # {} PROVE step[<<choice[s], g[s \ {choice[s]}]>>] = w[One(s)] + g[s \ {One(s)}]
  <2>1. choice[s] = One(s) /\ One(s) \in S /\ s \ {One(s)} \in SUBSET S
    BY <1>1, <1>6
  <2>2. g[s \ {One(s)}] \in Int
    BY <1>4, <2>1
  <2> HIDE DEF choice
  <2> QED
    BY <2>1, <2>2
<1>7. \A s \in SUBSET S : g[s] = IF s = {} THEN 0 ELSE w[One(s)] + g[s \ {One(s)}]
  <2>1. \A s \in SUBSET S : g[s] = IF s = {} THEN 0 ELSE step[<<choice[s], g[s \ {choice[s]}]>>]
    BY <1>5
  <2> HIDE DEF choice, step
  <2> QED
    BY <1>6, <2>1
<1> QED
  BY <1>4, <1>7 DEF SumOn

\* Any element may be taken out first.
Adds(g, w, S) == g[{}] = 0 /\ \A s \in SUBSET S : g[s] \in Int /\ \A x \in s : g[s] = w[x] + g[s \ {x}]

LEMMA SumOnFacts ==
  ASSUME NEW S, IsFiniteSet(S), NEW w, \A x \in S : w[x] \in Int, NEW g, SumOn(g, w, S)
  PROVE  Adds(g, w, S)
<1>1. \A s \in SUBSET S : g[s] = IF s = {} THEN 0 ELSE w[One(s)] + g[s \ {One(s)}]
  BY DEF SumOn
<1>2. \A s \in SUBSET S : s # {} => One(s) \in s
  BY DEF One
<1>3. \A s \in SUBSET S : g[s] \in Int
  <2> DEFINE P == {s \in SUBSET S : g[s] \in Int}
  <2>1. ASSUME NEW s \in SUBSET S, \A x \in s : s \ {x} \in P PROVE s \in P
    <3>1. CASE s = {}
      BY <1>1, <3>1
    <3>2. CASE s # {}
      <4>1. One(s) \in s /\ g[s \ {One(s)}] \in Int /\ g[s] = w[One(s)] + g[s \ {One(s)}]
        BY <1>1, <1>2, <2>1, <3>2
      <4> QED
        BY <4>1
    <3> QED
      BY <3>1, <3>2
  <2>2. SUBSET S \subseteq P
    <3> HIDE DEF P
    <3> QED
      BY <2>1, PartInduction
  <2> QED
    BY <2>2
<1> DEFINE Taken(s, x) == g[s] = w[x] + g[s \ {x}]
           P == {s \in SUBSET S : \A x \in s : Taken(s, x)}
<1>4. ASSUME NEW s \in SUBSET S, \A x \in s : s \ {x} \in P, NEW x \in s PROVE Taken(s, x)
  <2> DEFINE y == One(s)
  <2>1. y \in s /\ Taken(s, y)
    BY <1>1, <1>2
  <2> HIDE DEF y
  <2>2. CASE x = y
    BY <2>1, <2>2
  <2>3. CASE x # y
    <3> DEFINE both == (s \ {y}) \ {x}
    <3>1. x \in s \ {y} /\ y \in s \ {x} /\ (s \ {x}) \ {y} = both /\ both \in SUBSET S
      BY <2>1, <2>3
    <3>2. s \ {y} \in P /\ s \ {x} \in P
      BY <1>4, <2>1
    <3>3. Taken(s \ {y}, x) /\ Taken(s \ {x}, y)
      BY <3>1, <3>2
    <3>4. g[s \ {y}] = w[x] + g[both] /\ g[s \ {x}] = w[y] + g[both] /\ g[s] = w[y] + g[s \ {y}]
      BY <2>1, <3>1, <3>3
    <3>5. w[x] \in Int /\ w[y] \in Int /\ g[both] \in Int
      BY <1>3, <2>1, <3>1
    <3> HIDE DEF both
    <3>6. g[s] = w[x] + g[s \ {x}]
      BY <3>4, <3>5
    <3> QED
      BY <3>6
  <2> QED
    BY <2>2, <2>3
<1>5. SUBSET S \subseteq P
  <2>1. \A s \in SUBSET S : (\A x \in s : s \ {x} \in P) => s \in P
    <3>1. \A s : s \in P <=> s \in SUBSET S /\ \A x \in s : Taken(s, x)
      OBVIOUS
    <3> HIDE DEF P, Taken
    <3> QED
      BY <1>4, <3>1
  <2> HIDE DEF P
  <2> QED
    BY <2>1, PartInduction
<1> QED
  BY <1>1, <1>3, <1>5 DEF Adds

\* A sum over a part is what the sum over the whole gives it.
LEMMA SumOfPart ==
  ASSUME NEW S, IsFiniteSet(S), NEW w, \A x \in S : w[x] \in Int, NEW g, SumOn(g, w, S), NEW T \in SUBSET S
  PROVE  Sum(w, T) = g[T]
<1>4. Adds(g, w, S)
  BY SumOnFacts
<1>1. IsFiniteSet(T)
  BY FS_Subset
<1>2. PICK h : h = (CHOOSE f : SumOn(f, w, T)) /\ SumOn(h, w, T)
  BY <1>1, SumExists
<1>3. Adds(h, w, T)
  BY <1>1, <1>2, SumOnFacts
<1> DEFINE P == {s \in SUBSET T : h[s] = g[s]}
<1>5. ASSUME NEW s \in SUBSET T, \A x \in s : s \ {x} \in P PROVE s \in P
  <2>1. CASE s = {}
    BY <1>3, <1>4, <2>1 DEF Adds
  <2>2. CASE s # {}
    <3>1. PICK x \in s : TRUE
      BY <2>2
    <3>2. h[s] = w[x] + h[s \ {x}] /\ g[s] = w[x] + g[s \ {x}] /\ h[s \ {x}] = g[s \ {x}]
      BY <1>3, <1>4, <1>5, <3>1 DEF Adds
    <3> QED
      BY <3>2
  <2> QED
    BY <2>1, <2>2
<1>6. SUBSET T \subseteq P
  <2> HIDE DEF P
  <2> QED
    BY <1>1, <1>5, PartInduction
<1> QED
  BY <1>2, <1>6 DEF Sum

LEMMA SumFacts ==
  ASSUME NEW S, IsFiniteSet(S), NEW w, \A x \in S : w[x] \in Int
  PROVE  /\ Sum(w, {}) = 0 /\ Sum(w, S) \in Int
         /\ \A T \in SUBSET S : Sum(w, T) \in Int /\ \A x \in T : Sum(w, T) = w[x] + Sum(w, T \ {x})
<1>1. PICK g : SumOn(g, w, S)
  BY SumExists
<1>2. Adds(g, w, S)
  BY <1>1, SumOnFacts
<1>3. \A T \in SUBSET S : Sum(w, T) = g[T]
  BY <1>1, SumOfPart
<1> QED
  BY <1>2, <1>3 DEF Adds

\* The sum over a part and the sum over the rest are the whole.
LEMMA SumSplit ==
  ASSUME NEW S, IsFiniteSet(S), NEW w, \A x \in S : w[x] \in Int, NEW T \in SUBSET S
  PROVE  Sum(w, S) = Sum(w, T) + Sum(w, S \ T)
<1> DEFINE P == {s \in SUBSET S : Sum(w, S) = Sum(w, s) + Sum(w, S \ s)}
<1>1. Sum(w, {}) = 0 /\ \A s \in SUBSET S : Sum(w, s) \in Int /\ \A x \in s : Sum(w, s) = w[x] + Sum(w, s \ {x})
  BY SumFacts
<1>2. ASSUME NEW s \in SUBSET S, \A x \in s : s \ {x} \in P PROVE s \in P
  <2>1. CASE s = {}
    <3>1. S \ s = S /\ Sum(w, S) \in Int
      BY <1>1, <2>1
    <3> QED
      BY <1>1, <2>1, <3>1
  <2>2. CASE s # {}
    <3>1. PICK x \in s : TRUE
      BY <2>2
    <3> DEFINE rest == S \ s  more == S \ (s \ {x})  less == s \ {x}
    <3>2. x \in more /\ more \in SUBSET S /\ more \ {x} = rest /\ rest \in SUBSET S /\ less \in SUBSET S /\ x \in S
      BY <3>1
    <3>3. Sum(w, more) = w[x] + Sum(w, rest) /\ Sum(w, s) = w[x] + Sum(w, less)
      BY <1>1, <3>1, <3>2
    <3>4. Sum(w, S) = Sum(w, less) + Sum(w, more)
      BY <1>2, <3>1
    <3>5. w[x] \in Int /\ Sum(w, rest) \in Int /\ Sum(w, less) \in Int
      BY <1>1, <3>2
    <3> HIDE DEF rest, more, less
    <3>6. Sum(w, S) = Sum(w, s) + Sum(w, rest)
      BY <3>3, <3>4, <3>5
    <3> QED
      BY <3>6 DEF rest
  <2> QED
    BY <2>1, <2>2
<1>3. SUBSET S \subseteq P
  <2> HIDE DEF P
  <2> QED
    BY <1>2, PartInduction
<1> QED
  BY <1>3

\* Sums grow with what is summed up.
LEMMA SumLess ==
  ASSUME NEW S, IsFiniteSet(S), NEW w, NEW v, \A x \in S : w[x] \in Int /\ v[x] \in Int /\ w[x] <= v[x]
  PROVE  Sum(w, S) <= Sum(v, S)
<1> DEFINE P == {s \in SUBSET S : Sum(w, s) <= Sum(v, s)}
<1>1. Sum(w, {}) = 0 /\ \A s \in SUBSET S : Sum(w, s) \in Int /\ \A x \in s : Sum(w, s) = w[x] + Sum(w, s \ {x})
  BY SumFacts
<1>2. Sum(v, {}) = 0 /\ \A s \in SUBSET S : Sum(v, s) \in Int /\ \A x \in s : Sum(v, s) = v[x] + Sum(v, s \ {x})
  BY SumFacts
<1>3. ASSUME NEW s \in SUBSET S, \A x \in s : s \ {x} \in P PROVE s \in P
  <2>1. CASE s = {}
    BY <1>1, <1>2, <2>1
  <2>2. CASE s # {}
    <3>1. PICK x \in s : TRUE
      BY <2>2
    <3>2. Sum(w, s) = w[x] + Sum(w, s \ {x}) /\ Sum(v, s) = v[x] + Sum(v, s \ {x})
      BY <1>1, <1>2, <3>1
    <3>3. Sum(w, s \ {x}) <= Sum(v, s \ {x}) /\ w[x] <= v[x]
      BY <1>3, <3>1
    <3>4. Sum(w, s \ {x}) \in Int /\ Sum(v, s \ {x}) \in Int /\ w[x] \in Int /\ v[x] \in Int
      BY <1>1, <1>2, <3>1
    <3>5. Sum(w, s) <= Sum(v, s)
      BY <3>2, <3>3, <3>4
    <3> QED
      BY <3>5
  <2> QED
    BY <2>1, <2>2
<1>4. SUBSET S \subseteq P
  <2> HIDE DEF P
  <2> QED
    BY <1>3, PartInduction
<1> QED
  BY <1>4

\* Of what is never negative, a part adds up to no more than the whole.
LEMMA SumNat ==
  ASSUME NEW S, IsFiniteSet(S), NEW w, \A x \in S : w[x] \in Nat, NEW T \in SUBSET S
  PROVE  Sum(w, T) \in Nat /\ Sum(w, S) \in Nat /\ Sum(w, T) <= Sum(w, S)
<1> DEFINE P == {s \in SUBSET S : Sum(w, s) \in Nat}
<1>1. Sum(w, {}) = 0 /\ \A s \in SUBSET S : Sum(w, s) \in Int /\ \A x \in s : Sum(w, s) = w[x] + Sum(w, s \ {x})
  BY SumFacts
<1>2. ASSUME NEW s \in SUBSET S, \A x \in s : s \ {x} \in P PROVE s \in P
  <2>1. CASE s = {}
    BY <1>1, <2>1
  <2>2. CASE s # {}
    <3>1. PICK x \in s : TRUE
      BY <2>2
    <3>2. Sum(w, s) = w[x] + Sum(w, s \ {x}) /\ Sum(w, s \ {x}) \in Nat /\ w[x] \in Nat
      BY <1>1, <1>2, <3>1
    <3> QED
      BY <3>2
  <2> QED
    BY <2>1, <2>2
<1>3. SUBSET S \subseteq P
  <2> HIDE DEF P
  <2> QED
    BY <1>2, PartInduction
<1>4. Sum(w, S) = Sum(w, T) + Sum(w, S \ T)
  BY SumSplit
<1>5. Sum(w, T) \in Nat /\ Sum(w, S \ T) \in Nat /\ Sum(w, S) \in Nat
  BY <1>3
<1> QED
  BY <1>4, <1>5

\* The same under one name.
Summed(w, S) == Sum(w, {}) = 0 /\ \A s \in SUBSET S : Sum(w, s) \in Int /\ \A x \in s : Sum(w, s) = w[x] + Sum(w, s \ {x})

LEMMA SumIsSummed ==
  ASSUME NEW S, IsFiniteSet(S), NEW w, \A x \in S : w[x] \in Int PROVE Summed(w, S)
BY SumFacts DEF Summed

LEMMA SumSame ==
  ASSUME NEW S, IsFiniteSet(S), NEW w, NEW v, \A x \in S : w[x] \in Int /\ v[x] = w[x]
  PROVE  Sum(v, S) = Sum(w, S)
<1>1. \A x \in S : w[x] \in Int /\ v[x] \in Int /\ w[x] <= v[x] /\ v[x] <= w[x]
  OBVIOUS
<1>2. Sum(w, S) <= Sum(v, S)
  BY <1>1, SumLess
<1>3. Sum(v, S) <= Sum(w, S)
  BY <1>1, SumLess
<1>4. Sum(w, S) \in Int /\ Sum(v, S) \in Int
  BY <1>1, SumFacts
<1> QED
  BY <1>2, <1>3, <1>4

\* Sums are added up element by element.
LEMMA SumAdd ==
  ASSUME NEW S, IsFiniteSet(S), NEW u, NEW w, NEW v, \A x \in S : w[x] \in Int /\ v[x] \in Int /\ u[x] = w[x] + v[x]
  PROVE  Sum(u, S) = Sum(w, S) + Sum(v, S)
<1> DEFINE P == {s \in SUBSET S : Sum(u, s) = Sum(w, s) + Sum(v, s)}
<1>1. Sum(w, {}) = 0 /\ \A s \in SUBSET S : Sum(w, s) \in Int /\ \A x \in s : Sum(w, s) = w[x] + Sum(w, s \ {x})
  <2>1. \A x \in S : w[x] \in Int
    OBVIOUS
  <2> QED
    BY <2>1, SumIsSummed DEF Summed
<1>2. Sum(v, {}) = 0 /\ \A s \in SUBSET S : Sum(v, s) \in Int /\ \A x \in s : Sum(v, s) = v[x] + Sum(v, s \ {x})
  <2>1. \A x \in S : v[x] \in Int
    OBVIOUS
  <2> QED
    BY <2>1, SumIsSummed DEF Summed
<1>3. Sum(u, {}) = 0 /\ \A s \in SUBSET S : Sum(u, s) \in Int /\ \A x \in s : Sum(u, s) = u[x] + Sum(u, s \ {x})
  <2>1. \A x \in S : u[x] \in Int
    OBVIOUS
  <2>2. Summed(u, S)
    BY <2>1, SumIsSummed
  <2> QED
    BY <2>2 DEF Summed
<1>4. ASSUME NEW s \in SUBSET S, \A x \in s : s \ {x} \in P PROVE Sum(u, s) = Sum(w, s) + Sum(v, s)
  <2>1. CASE s = {}
    BY <1>1, <1>2, <1>3, <2>1
  <2>2. CASE s # {}
    <3>1. PICK x \in s : TRUE
      BY <2>2
    <3> DEFINE rest == s \ {x}
    <3>2. Sum(w, s) = w[x] + Sum(w, rest) /\ Sum(v, s) = v[x] + Sum(v, rest) /\ Sum(u, s) = u[x] + Sum(u, rest)
      BY <1>1, <1>2, <1>3, <3>1
    <3>3. Sum(u, rest) = Sum(w, rest) + Sum(v, rest)
      BY <1>4, <3>1
    <3>4. Sum(w, rest) \in Int /\ Sum(v, rest) \in Int /\ w[x] \in Int /\ v[x] \in Int /\ u[x] = w[x] + v[x]
      BY <1>1, <1>2, <3>1
    <3> HIDE DEF rest
    <3> QED
      BY <3>2, <3>3, <3>4
  <2> QED
    BY <2>1, <2>2
<1>5. SUBSET S \subseteq P
  <2>1. \A s \in SUBSET S : (\A x \in s : s \ {x} \in P) => s \in P
    BY <1>4
  <2> HIDE DEF P
  <2> QED
    BY <2>1, PartInduction
<1> QED
  BY <1>5

\* What is summed up by a key adds up to the whole.
Keyed(S, key, k) == {x \in S : key[x] = k}

LEMMA SumByKey ==
  ASSUME NEW S, IsFiniteSet(S), NEW w, \A x \in S : w[x] \in Int, NEW key, NEW K, IsFiniteSet(K), NEW v,
         \A k \in K : v[k] = Sum(w, Keyed(S, key, k)), \A x \in S : key[x] \in K
  PROVE  Sum(v, K) = Sum(w, S)
<1> USE DEF Keyed
<1> DEFINE Those(A) == {x \in S : key[x] \in A}
           P == {A \in SUBSET K : Sum(v, A) = Sum(w, Those(A))}
<1>1. Sum(w, {}) = 0 /\ \A s \in SUBSET S : Sum(w, s) \in Int
  BY SumFacts
<1>2. \A k \in K : v[k] \in Int
  <2>1. \A k \in K : {x \in S : key[x] = k} \in SUBSET S
    OBVIOUS
  <2> QED
    BY <1>1, <2>1
<1>3. Sum(v, {}) = 0 /\ \A A \in SUBSET K : Sum(v, A) \in Int /\ \A k \in A : Sum(v, A) = v[k] + Sum(v, A \ {k})
  BY <1>2, SumIsSummed DEF Summed
<1>4. ASSUME NEW A \in SUBSET K, \A k \in A : A \ {k} \in P PROVE Sum(v, A) = Sum(w, Those(A))
  <2>1. CASE A = {}
    <3>1. Those(A) = {}
      BY <2>1
    <3> QED
      BY <1>1, <1>3, <2>1, <3>1
  <2>2. CASE A # {}
    <3>1. PICK k \in A : TRUE
      BY <2>2
    <3> DEFINE own == {x \in S : key[x] = k}
    <3>2. own \in SUBSET Those(A) /\ Those(A) \ own = Those(A \ {k}) /\ Those(A) \in SUBSET S
      BY <3>1
    <3>3. IsFiniteSet(Those(A)) /\ \A x \in Those(A) : w[x] \in Int
      BY <3>2, FS_Subset
    <3>4. Sum(v, A) = v[k] + Sum(v, A \ {k}) /\ v[k] = Sum(w, own)
      BY <1>3, <3>1
    <3>5. Sum(v, A \ {k}) = Sum(w, Those(A \ {k}))
      BY <1>4, <3>1
    <3> HIDE DEF Those, own
    <3>6. Sum(w, Those(A)) = Sum(w, own) + Sum(w, Those(A) \ own)
      BY <3>2, <3>3, SumSplit
    <3> QED
      BY <3>2, <3>4, <3>5, <3>6
  <2> QED
    BY <2>1, <2>2
<1>5. SUBSET K \subseteq P
  <2>1. \A A \in SUBSET K : (\A k \in A : A \ {k} \in P) => A \in P
    BY <1>4
  <2> HIDE DEF P
  <2> QED
    BY <2>1, PartInduction
<1>6. Those(K) = S
  OBVIOUS
<1>7. K \in P
  <2> HIDE DEF P
  <2> QED
    BY <1>5
<1> QED
  BY <1>6, <1>7

-----------------------------------------------------------------------------
(* Packets: fragments, their sizes and the order in which they are taken. *)

Frags == {Packets!Normalized(f) : f \in Fragment}
Length == [f \in Frags |-> Chars(f.content)]

LEMMA FragFacts ==
  \A f \in Frags : f.id \in Int /\ f.priority \in Int /\ f.must_keep \in BOOLEAN /\ Chars(f.content) \in Nat /\ Length[f] = Chars(f.content)
<1>1. ASSUME NEW f \in Fragment
      PROVE  LET n == Packets!Normalized(f) IN
             n.id \in Int /\ n.priority \in Int /\ n.must_keep \in BOOLEAN /\ Chars(n.content) \in Nat
  <2>1. f.id \in Int /\ f.priority \in Int \cup {None} /\ Chars(f.content) \in Nat
    BY PacketsAssumption
  <2>2. Packets!DefaultPriority(f.category) \in Int
    BY DEF Packets!DefaultPriority
  <2> QED
    BY <2>1, <2>2 DEF Packets!Normalized
<1> QED
  BY <1>1 DEF Frags, Length

\* The sum over the fragments, in the order of the library, is one of their lengths.
LEMMA SizeIsSum == ASSUME NEW fs \in SUBSET Frags PROVE Packets!Size(fs) = Sum(Length, fs)
<1>1. Packets!Size(fs) = (CHOOSE g : g = [s \in SUBSET fs |->
        IF s = {} THEN 0 ELSE LET x == CHOOSE y \in s : TRUE IN Chars(x.content) + g[s \ {x}]])[fs]
  BY DEF Packets!Size, Packets!FoldSet, Packets!MapThenFoldSet
<1>2. ASSUME NEW g, NEW s \in SUBSET fs
      PROVE  (IF s = {} THEN 0 ELSE LET x == CHOOSE y \in s : TRUE IN Chars(x.content) + g[s \ {x}])
             = IF s = {} THEN 0 ELSE Length[One(s)] + g[s \ {One(s)}]
  <2>1. CASE s # {}
    <3>1. One(s) \in s /\ One(s) = CHOOSE y \in s : TRUE
      BY <2>1 DEF One
    <3>2. Length[One(s)] = Chars(One(s).content)
      BY <3>1 DEF Length
    <3> QED
      BY <2>1, <3>1, <3>2
  <2>2. CASE s = {}
    BY <2>2
  <2> QED
    BY <2>1, <2>2
<1>3. \A g : SumOn(g, Length, fs) <=> g = [s \in SUBSET fs |->
        IF s = {} THEN 0 ELSE LET x == CHOOSE y \in s : TRUE IN Chars(x.content) + g[s \ {x}]]
  BY <1>2 DEF SumOn
<1>4. (CHOOSE g : SumOn(g, Length, fs)) = CHOOSE g : g = [s \in SUBSET fs |->
        IF s = {} THEN 0 ELSE LET x == CHOOSE y \in s : TRUE IN Chars(x.content) + g[s \ {x}]]
  BY <1>3
<1> QED
  BY <1>1, <1>4 DEF Sum

LEMMA SizeFacts ==
  ASSUME NEW fs \in SUBSET Frags, IsFiniteSet(fs)
  PROVE  /\ Packets!Size({}) = 0 /\ Packets!Size(fs) \in Nat
         /\ \A some \in SUBSET fs : /\ Packets!Size(some) \in Nat /\ Packets!Size(some) <= Packets!Size(fs)
                                    /\ Packets!Size(fs) = Packets!Size(some) + Packets!Size(fs \ some)
         /\ \A f \in fs : Packets!Size(fs) = Chars(f.content) + Packets!Size(fs \ {f})
<1>1. \A f \in fs : Length[f] \in Nat /\ Length[f] \in Int /\ Length[f] = Chars(f.content)
  BY FragFacts
<1>2. \A some \in SUBSET fs : Packets!Size(some) = Sum(Length, some)
  BY SizeIsSum
<1>3. Sum(Length, {}) = 0 /\ \A f \in fs : Sum(Length, fs) = Length[f] + Sum(Length, fs \ {f})
  BY <1>1, SumFacts
<1>4. \A some \in SUBSET fs : /\ Sum(Length, some) \in Nat /\ Sum(Length, some) <= Sum(Length, fs)
                              /\ Sum(Length, fs) = Sum(Length, some) + Sum(Length, fs \ some)
  BY <1>1, SumNat, SumSplit
<1>5. \A some \in SUBSET fs : fs \ some \in SUBSET fs
  OBVIOUS
<1> QED
  BY <1>1, <1>2, <1>3, <1>4, <1>5

Unique(fs) == fs \in SUBSET Frags /\ IsFiniteSet(fs) /\ \A f, g \in fs : f.id = g.id => f = g

LEMMA UniquePart == \A fs, some : Unique(fs) /\ some \subseteq fs => Unique(some)
BY FS_Subset DEF Unique

\* The fragments of different ids are in order, and the last of some is after all others.
LEMMA Ordered ==
  ASSUME NEW fs, Unique(fs)
  PROVE  /\ \A f, g \in fs : f # g => (Packets!Before(f, g) \/ Packets!Before(g, f))
         /\ \A f, g \in fs : ~ (Packets!Before(f, g) /\ Packets!Before(g, f))
         /\ \A f, g, h \in fs : Packets!Before(f, g) /\ Packets!Before(g, h) => Packets!Before(f, h)
<1>1. \A f \in fs : f.id \in Int /\ f.priority \in Int
  BY FragFacts DEF Unique
<1>2. \A f, g \in fs : f # g => f.id # g.id
  BY DEF Unique
<1> QED
  BY <1>1, <1>2 DEF Packets!Before

LEMMA LastIsLast ==
  ASSUME NEW fs, Unique(fs), NEW some \in SUBSET fs, some # {}
  PROVE  Packets!Last(some) \in some /\ \A g \in some \ {Packets!Last(some)} : Packets!Before(g, Packets!Last(some))
<1> DEFINE P == {s \in SUBSET fs : s # {} => \E f \in s : \A g \in s \ {f} : Packets!Before(g, f)}
<1>1. ASSUME NEW s \in SUBSET fs, \A x \in s : s \ {x} \in P, s # {}
      PROVE  \E f \in s : \A g \in s \ {f} : Packets!Before(g, f)
  <2>1. PICK x \in s : TRUE
    BY <1>1
  <2>2. CASE s \ {x} = {}
    BY <2>1, <2>2
  <2>3. CASE s \ {x} # {}
    <3>1. PICK f \in s \ {x} : \A g \in (s \ {x}) \ {f} : Packets!Before(g, f)
      BY <1>1, <2>1, <2>3
    <3>2. f # x /\ f \in fs /\ x \in fs
      BY <2>1, <3>1
    <3>3. CASE Packets!Before(x, f)
      BY <3>1, <3>3
    <3>4. CASE Packets!Before(f, x)
      <4>1. \A g \in s \ {x} : Packets!Before(g, x)
        BY <3>1, <3>2, <3>4, Ordered
      <4> QED
        BY <2>1, <4>1
    <3> QED
      BY <3>2, <3>3, <3>4, Ordered
  <2> QED
    BY <2>2, <2>3
<1>2. \A s \in SUBSET fs : (\A x \in s : s \ {x} \in P) => s \in P
  BY <1>1
<1>3. SUBSET fs \subseteq P
  <2> HIDE DEF P
  <2> QED
    BY <1>2, PartInduction DEF Unique
<1>4. \E f \in some : \A g \in some \ {f} : Packets!Before(g, f)
  BY <1>3
<1> QED
  BY <1>4 DEF Packets!Last

-----------------------------------------------------------------------------
(* What is kept of fragments that are taken in order while they fit. *)

FitOn(g, fs, first, limit) ==
  g = [s \in SUBSET fs |-> IF s = {} THEN first ELSE Packets!Fit(g[s \ {Packets!Last(s)}], Packets!Last(s), limit)]

LEMMA FittingIs ==
  ASSUME NEW fs, NEW first, NEW limit
  PROVE  Packets!Fitting(fs, first, limit) = (CHOOSE g : FitOn(g, fs, first, limit))[fs]
BY DEF FitOn, Packets!Fitting, Packets!MapThenFoldSet

LEMMA FitExists ==
  ASSUME NEW fs, Unique(fs), NEW first \in SUBSET Frags, NEW limit
  PROVE  \E g : FitOn(g, fs, first, limit)
<1> DEFINE choice == [s \in SUBSET fs |-> Packets!Last(s)]
           step == [p \in fs \X SUBSET Frags |-> Packets!Fit(p[2], p[1], limit)]
<1>1. \A s \in SUBSET fs : s # {} => Packets!Last(s) \in s
  BY LastIsLast
<1>2. \A s \in SUBSET fs : s # {} => choice[s] \in s
  BY <1>1
<1>3. step \in [fs \X SUBSET Frags -> SUBSET Frags]
  <2>1. ASSUME NEW f \in fs, NEW kept \in SUBSET Frags PROVE Packets!Fit(kept, f, limit) \in SUBSET Frags
    BY DEF Packets!Fit, Unique
  <2> QED
    BY <2>1
<1>4. PICK g \in [SUBSET fs -> SUBSET Frags] : FoldOn(g, choice, step, first, fs)
  <2>1. IsFiniteSet(fs)
    BY DEF Unique
  <2> HIDE DEF choice, step
  <2> QED
    BY <1>2, <1>3, <2>1, Folding
<1>5. \A s \in SUBSET fs : g[s] = IF s = {} THEN first ELSE step[<<choice[s], g[s \ {choice[s]}]>>]
  BY <1>4 DEF FoldOn
<1>6. ASSUME NEW s \in SUBSET fs, s # {}
      PROVE  step[<<choice[s], g[s \ {choice[s]}]>>] = Packets!Fit(g[s \ {Packets!Last(s)}], Packets!Last(s), limit)
  <2>1. choice[s] = Packets!Last(s) /\ Packets!Last(s) \in fs /\ s \ {Packets!Last(s)} \in SUBSET fs
    BY <1>1, <1>6
  <2>2. g[s \ {Packets!Last(s)}] \in SUBSET Frags
    BY <1>4, <2>1
  <2> HIDE DEF choice
  <2> QED
    BY <2>1, <2>2
<1>7. \A s \in SUBSET fs : g[s] = IF s = {} THEN first ELSE Packets!Fit(g[s \ {Packets!Last(s)}], Packets!Last(s), limit)
  <2> HIDE DEF choice, step
  <2> QED
    BY <1>5, <1>6
<1> QED
  BY <1>4, <1>7 DEF FitOn

\* Fragments are taken or left out, and the first are all kept.
LEMMA FitParts ==
  ASSUME NEW fs, Unique(fs), NEW first \in SUBSET Frags, NEW limit, NEW g, FitOn(g, fs, first, limit)
  PROVE  /\ g[{}] = first
         /\ \A s \in SUBSET fs : s # {} => g[s] = Packets!Fit(g[s \ {Packets!Last(s)}], Packets!Last(s), limit)
         /\ \A s \in SUBSET fs : first \subseteq g[s] /\ g[s] \subseteq first \cup s
<1>1. \A s \in SUBSET fs : g[s] = IF s = {} THEN first ELSE Packets!Fit(g[s \ {Packets!Last(s)}], Packets!Last(s), limit)
  BY DEF FitOn
<1> DEFINE P == {s \in SUBSET fs : first \subseteq g[s] /\ g[s] \subseteq first \cup s}
<1>2. ASSUME NEW s \in SUBSET fs, \A x \in s : s \ {x} \in P PROVE s \in P
  <2>1. CASE s = {}
    BY <1>1, <2>1
  <2>2. CASE s # {}
    <3> DEFINE x == Packets!Last(s)
    <3>1. x \in s /\ g[s] = Packets!Fit(g[s \ {x}], x, limit)
      BY <1>1, <2>2, LastIsLast
    <3>2. first \subseteq g[s \ {x}] /\ g[s \ {x}] \subseteq first \cup (s \ {x})
      BY <1>2, <3>1
    <3>3. g[s] = g[s \ {x}] \/ g[s] = g[s \ {x}] \cup {x}
      BY <3>1 DEF Packets!Fit
    <3> HIDE DEF x
    <3> QED
      BY <3>1, <3>2, <3>3
  <2> QED
    BY <2>1, <2>2
<1>3. SUBSET fs \subseteq P
  <2> HIDE DEF P
  <2> QED
    BY <1>2, PartInduction DEF Unique
<1> QED
  BY <1>1, <1>3

\* The limit yields only to the first.
LEMMA FitBound ==
  ASSUME NEW fs, Unique(fs), NEW first \in SUBSET Frags, IsFiniteSet(first), NEW limit \in Nat,
         NEW g, FitOn(g, fs, first, limit), NEW most \in Nat, limit <= most, Packets!Size(first) <= most
  PROVE  \A s \in SUBSET fs : IsFiniteSet(g[s]) /\ g[s] \in SUBSET Frags /\ Packets!Size(g[s]) <= most
<1> DEFINE P == {s \in SUBSET fs : Packets!Size(g[s]) <= most}
<1>1. /\ g[{}] = first
      /\ \A s \in SUBSET fs : s # {} => g[s] = Packets!Fit(g[s \ {Packets!Last(s)}], Packets!Last(s), limit)
      /\ \A s \in SUBSET fs : first \subseteq g[s] /\ g[s] \subseteq first \cup s
  BY FitParts
<1>2. ASSUME NEW s \in SUBSET fs PROVE IsFiniteSet(g[s]) /\ g[s] \in SUBSET Frags
  <2>1. IsFiniteSet(s) /\ IsFiniteSet(first \cup s)
    BY FS_Subset, FS_Union DEF Unique
  <2> QED
    BY <1>1, <2>1, FS_Subset DEF Unique
<1>3. ASSUME NEW s \in SUBSET fs, \A x \in s : s \ {x} \in P PROVE Packets!Size(g[s]) <= most
  <2>1. CASE s = {}
    BY <1>1, <2>1
  <2>2. CASE s # {}
    <3> DEFINE x == Packets!Last(s)
               kept == g[s \ {x}]
    <3>1. x \in s /\ g[s] = Packets!Fit(kept, x, limit)
      BY <1>1, <2>2, LastIsLast
    <3>2. Packets!Size(kept) <= most /\ IsFiniteSet(kept) /\ kept \in SUBSET Frags
      BY <1>2, <1>3, <3>1
    <3>3. x \in Frags /\ Chars(x.content) \in Nat
      BY <3>1, FragFacts DEF Unique
    <3> HIDE DEF x, kept
    <3>4. CASE Packets!Size(kept) + Chars(x.content) <= limit /\ x \notin kept
      <4>1. IsFiniteSet(kept \cup {x}) /\ kept \cup {x} \in SUBSET Frags /\ (kept \cup {x}) \ {x} = kept
        BY <3>2, <3>3, <3>4, FS_AddElement
      <4>2. Packets!Size(kept \cup {x}) = Chars(x.content) + Packets!Size((kept \cup {x}) \ {x})
        BY <4>1, SizeFacts
      <4>3. Packets!Size(kept) \in Nat
        BY <3>2, SizeFacts
      <4>4. Packets!Size(kept \cup {x}) = Chars(x.content) + Packets!Size(kept)
        BY <4>1, <4>2
      <4>5. g[s] = kept \cup {x}
        BY <3>1, <3>4 DEF Packets!Fit
      <4> QED
        BY <3>3, <3>4, <4>3, <4>4, <4>5
    <3>5. CASE ~ (Packets!Size(kept) + Chars(x.content) <= limit) \/ x \in kept
      <4>1. g[s] = kept
        BY <3>1, <3>5 DEF Packets!Fit
      <4> QED
        BY <3>2, <4>1
    <3> QED
      BY <3>4, <3>5
  <2> QED
    BY <2>1, <2>2
<1>4. SUBSET fs \subseteq P
  <2>1. \A s \in SUBSET fs : (\A x \in s : s \ {x} \in P) => s \in P
    BY <1>3
  <2> HIDE DEF P
  <2> QED
    BY <2>1, PartInduction DEF Unique
<1> QED
  BY <1>2, <1>4

\* What is left out would not have fitted beside the first and those that come before it.
LEMMA FitPriority ==
  ASSUME NEW fs, Unique(fs), NEW first \in SUBSET Frags, IsFiniteSet(first), first \cap fs = {}, NEW limit \in Nat,
         NEW g, FitOn(g, fs, first, limit)
  PROVE  \A s \in SUBSET fs : \A f \in s \ g[s] :
           Packets!Size({k \in g[s] : k \in first \/ Packets!Before(k, f)}) + Chars(f.content) > limit
<1> DEFINE Beside(s, f) == {k \in g[s] : k \in first \/ Packets!Before(k, f)}
           P == {s \in SUBSET fs : \A f \in s \ g[s] : Packets!Size(Beside(s, f)) + Chars(f.content) > limit}
<1>1. /\ g[{}] = first
      /\ \A s \in SUBSET fs : s # {} => g[s] = Packets!Fit(g[s \ {Packets!Last(s)}], Packets!Last(s), limit)
      /\ \A s \in SUBSET fs : first \subseteq g[s] /\ g[s] \subseteq first \cup s
  BY FitParts
<1>2. ASSUME NEW s \in SUBSET fs, \A x \in s : s \ {x} \in P, NEW f \in s \ g[s]
      PROVE  Packets!Size(Beside(s, f)) + Chars(f.content) > limit
  <2> DEFINE x == Packets!Last(s)
             rest == s \ {x}
  <2>1. x \in s /\ (\A k \in rest : Packets!Before(k, x)) /\ g[s] = Packets!Fit(g[rest], x, limit) /\ rest \in SUBSET fs
    BY <1>1, LastIsLast
  <2> HIDE DEF x
  <2>2. first \subseteq g[rest] /\ g[rest] \subseteq first \cup rest
    BY <1>1, <2>1
  <2>3. CASE f = x
    <3>1. ~ (Packets!Size(g[rest]) + Chars(x.content) <= limit) /\ g[s] = g[rest]
      BY <2>1, <2>3 DEF Packets!Fit
    <3>2. Beside(s, f) = g[rest]
      BY <2>1, <2>2, <2>3, <3>1
    <3>3. IsFiniteSet(g[rest]) /\ g[rest] \in SUBSET Frags
      <4>1. IsFiniteSet(rest) /\ IsFiniteSet(first \cup rest)
        BY FS_Subset, FS_Union DEF Unique
      <4> QED
        BY <2>2, <4>1, FS_Subset DEF Unique
    <3>4. Packets!Size(g[rest]) \in Nat /\ Chars(x.content) \in Nat
      <4>1. Packets!Size(g[rest]) \in Nat
        BY <3>3, SizeFacts
      <4>2. x \in Frags
        BY <2>1 DEF Unique
      <4> QED
        BY <4>1, <4>2, FragFacts
    <3> HIDE DEF Beside
    <3> QED
      BY <2>3, <3>1, <3>2, <3>4
  <2>4. CASE f # x
    <3>1. f \in rest /\ rest \in P /\ f \notin g[rest]
      BY <1>2, <2>1, <2>4 DEF Packets!Fit
    <3>2. Packets!Size(Beside(rest, f)) + Chars(f.content) > limit
      BY <3>1
    <3>3. ~ Packets!Before(x, f)
      BY <2>1, <3>1, Ordered
    <3>4. x \notin first
      BY <2>1
    <3>5. Beside(s, f) = Beside(rest, f)
      BY <2>1, <3>3, <3>4 DEF Packets!Fit
    <3> HIDE DEF Beside
    <3> QED
      BY <3>2, <3>5
  <2> QED
    BY <2>3, <2>4
<1>3. SUBSET fs \subseteq P
  <2>1. \A s \in SUBSET fs : (\A x \in s : s \ {x} \in P) => s \in P
    <3>1. \A s : s \in P <=> s \in SUBSET fs /\ \A f \in s \ g[s] : Packets!Size(Beside(s, f)) + Chars(f.content) > limit
      OBVIOUS
    <3> HIDE DEF P, Beside
    <3> QED
      BY <1>2, <3>1
  <2> HIDE DEF P, Beside
  <2> QED
    BY <2>1, PartInduction DEF Unique
<1> QED
  BY <1>3

\* When all that is offered fits, all of it is kept.
LEMMA FitAll ==
  ASSUME NEW fs, Unique(fs), NEW limit \in Nat, Packets!Size(fs) <= limit, NEW g, FitOn(g, fs, {}, limit)
  PROVE  g[fs] = fs
<1> DEFINE P == {s \in SUBSET fs : g[s] = s}
<1>1. /\ g[{}] = {}
      /\ \A s \in SUBSET fs : s # {} => g[s] = Packets!Fit(g[s \ {Packets!Last(s)}], Packets!Last(s), limit)
  BY FitParts
<1>2. ASSUME NEW s \in SUBSET fs, \A x \in s : s \ {x} \in P PROVE g[s] = s
  <2>1. CASE s = {}
    BY <1>1, <2>1
  <2>2. CASE s # {}
    <3> DEFINE x == Packets!Last(s)
    <3>1. x \in s /\ g[s] = Packets!Fit(g[s \ {x}], x, limit) /\ g[s \ {x}] = s \ {x}
      BY <1>1, <1>2, <2>2, LastIsLast
    <3> HIDE DEF x
    <3>2. s \in SUBSET Frags /\ IsFiniteSet(s) /\ x \in Frags /\ fs \in SUBSET Frags /\ IsFiniteSet(fs)
      BY <3>1, FS_Subset DEF Unique
    <3>3. Packets!Size(s) = Chars(x.content) + Packets!Size(s \ {x}) /\ Packets!Size(s \ {x}) \in Nat
      BY <3>1, <3>2, SizeFacts
    <3>4. Packets!Size(s) <= Packets!Size(fs) /\ Packets!Size(s) \in Nat /\ Packets!Size(fs) \in Nat
      BY <3>2, SizeFacts
    <3>5. Chars(x.content) \in Nat
      BY <3>2, FragFacts
    <3>6. Packets!Size(s \ {x}) + Chars(x.content) <= limit
      BY <3>3, <3>4, <3>5
    <3> QED
      BY <3>1, <3>6 DEF Packets!Fit
  <2> QED
    BY <2>1, <2>2
<1>3. SUBSET fs \subseteq P
  <2>1. \A s \in SUBSET fs : (\A x \in s : s \ {x} \in P) => s \in P
    BY <1>2
  <2> HIDE DEF P
  <2> QED
    BY <2>1, PartInduction DEF Unique
<1> QED
  BY <1>3

-----------------------------------------------------------------------------
(* Compilations and packets. *)

LEMMA FittingFits ==
  ASSUME NEW fs, Unique(fs), NEW first \in SUBSET Frags, NEW limit
  PROVE  \E g : FitOn(g, fs, first, limit) /\ Packets!Fitting(fs, first, limit) = g[fs]
<1>1. \E g : FitOn(g, fs, first, limit)
  BY FitExists
<1> DEFINE g == CHOOSE g : FitOn(g, fs, first, limit)
<1>2. FitOn(g, fs, first, limit)
  BY <1>1
<1>3. Packets!Fitting(fs, first, limit) = g[fs]
  BY FittingIs
<1> HIDE DEF g
<1> QED
  BY <1>2, <1>3

LEMMA SelectedIs ==
  ASSUME NEW fs, Unique(fs), NEW limit \in Nat
  PROVE  LET kept == Packets!Selected(fs, limit)  must == {f \in kept : f.must_keep} IN
         /\ Unique(kept) /\ kept \subseteq Packets!Deduplicated(fs)
         /\ Packets!Size(kept) <= (IF Packets!Size(must) > limit THEN Packets!Size(must) ELSE limit)
         /\ \A f \in Packets!Deduplicated(fs) \ kept :
              /\ ~ f.must_keep
              /\ Packets!Size({k \in kept : k.must_keep \/ Packets!Before(k, f)}) + Chars(f.content) > limit
<1> DEFINE all == Packets!Deduplicated(fs)
           some == {f \in all : ~ f.must_keep}
           first == {f \in all : f.must_keep}
           kept == Packets!Selected(fs, limit)
           must == {f \in kept : f.must_keep}
<1>1. all \subseteq fs /\ some \subseteq all /\ first \subseteq all
  BY DEF Packets!Deduplicated
<1> HIDE DEF all
<1>2. Unique(all) /\ Unique(some) /\ Unique(first) /\ first \in SUBSET Frags /\ IsFiniteSet(first)
  <2>1. Unique(all)
    BY <1>1, UniquePart
  <2>2. Unique(some) /\ Unique(first)
    BY <2>1, UniquePart
  <2> QED
    BY <2>1, <2>2 DEF Unique
<1>3. kept = Packets!Fitting(some, first, limit)
  BY DEF Packets!Selected, all
<1> HIDE DEF kept
<1>4. first \cap some = {} /\ first \cup some = all
  <2>1. \A f \in all : f.must_keep \in BOOLEAN
    BY <1>2, FragFacts DEF Unique
  <2> QED
    BY <2>1
<1>5. \A f \in some : ~ f.must_keep
  OBVIOUS
<1>6. \A f \in first : f.must_keep
  OBVIOUS
<1> HIDE DEF some, first
<1>7. PICK g : FitOn(g, some, first, limit) /\ kept = g[some]
  BY <1>2, <1>3, FittingFits
<1>8. first \subseteq kept /\ kept \subseteq all
  BY <1>2, <1>4, <1>7, FitParts
<1>9. must = first
  BY <1>4, <1>5, <1>6, <1>8
<1> HIDE DEF must
<1>10. Packets!Size(must) \in Nat
  BY <1>2, <1>9, SizeFacts
<1>11. Packets!Size(kept) <= (IF Packets!Size(must) > limit THEN Packets!Size(must) ELSE limit)
  <2> DEFINE most == IF Packets!Size(must) > limit THEN Packets!Size(must) ELSE limit
  <2>1. most \in Nat /\ limit <= most /\ Packets!Size(first) <= most
    BY <1>9, <1>10
  <2> HIDE DEF most
  <2>2. Packets!Size(g[some]) <= most
    BY <1>2, <1>7, <2>1, FitBound
  <2> QED
    BY <1>7, <2>2 DEF most
<1>12. ASSUME NEW f \in all \ kept
       PROVE  /\ ~ f.must_keep
              /\ Packets!Size({k \in kept : k.must_keep \/ Packets!Before(k, f)}) + Chars(f.content) > limit
  <2>1. f \in some /\ f \notin kept
    BY <1>4, <1>8, <1>12
  <2>2. \A s \in SUBSET some : \A h \in s \ g[s] :
          Packets!Size({k \in g[s] : k \in first \/ Packets!Before(k, h)}) + Chars(h.content) > limit
    BY <1>2, <1>4, <1>7, FitPriority
  <2>3. Packets!Size({k \in kept : k \in first \/ Packets!Before(k, f)}) + Chars(f.content) > limit
    BY <1>7, <2>1, <2>2
  <2>4. {k \in kept : k \in first \/ Packets!Before(k, f)} = {k \in kept : k.must_keep \/ Packets!Before(k, f)}
    BY <1>4, <1>5, <1>6, <1>8
  <2> QED
    BY <1>5, <2>1, <2>3, <2>4
<1>13. Unique(kept)
  BY <1>2, <1>8, UniquePart
<1> QED
  BY <1>8, <1>11, <1>12, <1>13 DEF all, kept, must

\* No content is kept twice.
LEMMA OncePerContent ==
  ASSUME NEW fs, Unique(fs), NEW kept, kept \subseteq Packets!Deduplicated(fs)
  PROVE  Packets!Cardinality({f.content : f \in kept}) = Packets!Cardinality(kept)
<1> DEFINE T == {f.content : f \in kept}
           c == [f \in kept |-> f.content]
<1>1. kept \subseteq fs
  BY DEF Packets!Deduplicated
<1>2. IsFiniteSet(kept)
  BY <1>1, FS_Subset DEF Unique
<1>3. \A f, g \in kept : f.content = g.content => f = g
  BY <1>1, Ordered DEF Packets!Deduplicated
<1>4. c \in Surjection(kept, T) /\ c \in Injection(kept, T)
  BY <1>3 DEF Surjection, Injection, IsInjective
<1>5. Cardinality(T) = Cardinality(kept)
  <2> HIDE DEF T, c
  <2> QED
    BY <1>2, <1>4, FS_Surjection
<1> QED
  BY <1>5 DEF Packets!Cardinality, Cardinality

\* A higher level allows more.
LEMMA AllowedMore ==
  ASSUME NEW fs, NEW low \in 0..3 PROVE Packets!Allowed(fs, low) \subseteq Packets!Allowed(fs, low + 1)
<1>1. low = 0 \/ low = 1 \/ low = 2 \/ low = 3
  OBVIOUS
<1>2. \A kind : Packets!allowedAtLevel(kind, low) => Packets!allowedAtLevel(kind, low + 1)
  BY <1>1 DEF Packets!allowedAtLevel
<1> QED
  BY <1>2 DEF Packets!Allowed

LEMMA ReferencesFit ==
  ASSUME NEW fs, Unique(fs), NEW limit \in Nat, NEW level
  PROVE  /\ Packets!References(fs, limit, level) \subseteq Packets!Allowed(fs, level)
         /\ Packets!Size(Packets!References(fs, limit, level)) <= limit
         /\ Packets!Size(Packets!Allowed(fs, level)) <= limit =>
              Packets!References(fs, limit, level) = Packets!Allowed(fs, level)
<1> DEFINE some == Packets!Allowed(fs, level)
           kept == Packets!References(fs, limit, level)
<1>1. Unique(some)
  BY UniquePart DEF Packets!Allowed
<1>2. kept = Packets!Fitting(some, {}, limit)
  BY DEF Packets!References
<1> HIDE DEF some, kept
<1>3. {} \in SUBSET Frags /\ IsFiniteSet({}) /\ Packets!Size({}) = 0
  <2>1. {} \in SUBSET Frags /\ IsFiniteSet({})
    BY FS_EmptySet
  <2> QED
    BY <2>1, SizeFacts
<1>4. PICK g : FitOn(g, some, {}, limit) /\ kept = g[some]
  BY <1>1, <1>2, <1>3, FittingFits
<1>5. kept \subseteq some
  BY <1>1, <1>3, <1>4, FitParts
<1>6. limit <= limit /\ Packets!Size({}) <= limit
  BY <1>3
<1>7. \A s \in SUBSET some : Packets!Size(g[s]) <= limit
  BY <1>1, <1>3, <1>4, <1>6, FitBound
<1>8. Packets!Size(kept) <= limit
  BY <1>4, <1>7
<1>9. Packets!Size(some) <= limit => kept = some
  BY <1>1, <1>4, FitAll
<1> QED
  BY <1>5, <1>8, <1>9 DEF some, kept

LEMMA ExpansionTrue ==
  ASSUME Unique(input) PROVE Packets!ExpansionAdds
<1> SUFFICES ASSUME NEW limit \in Budget, NEW low \in 0..3
             PROVE  /\ Packets!Size(Packets!Allowed(input, low + 1)) <= limit =>
                         Packets!References(input, limit, low) \subseteq Packets!References(input, limit, low + 1)
                    /\ \A f \in Packets!References(input, limit, low) : Packets!allowedAtLevel(Kind(f.id), low)
                    /\ Packets!Size(Packets!References(input, limit, low)) <= limit
  BY DEF Packets!ExpansionAdds
<1>1. limit \in Nat
  BY PacketsAssumption
<1>2. /\ Packets!References(input, limit, low) \subseteq Packets!Allowed(input, low)
      /\ Packets!Size(Packets!References(input, limit, low)) <= limit
      /\ Packets!Size(Packets!Allowed(input, low + 1)) <= limit =>
           Packets!References(input, limit, low + 1) = Packets!Allowed(input, low + 1)
  BY <1>1, ReferencesFit
<1>3. Packets!Allowed(input, low) \subseteq Packets!Allowed(input, low + 1)
  BY AllowedMore
<1>4. \A f \in Packets!Allowed(input, low) : Packets!allowedAtLevel(Kind(f.id), low)
  BY DEF Packets!Allowed
<1> QED
  BY <1>2, <1>3, <1>4

-----------------------------------------------------------------------------
\* The fragments offered and given have different ids, and what was compiled is what the budget selects.
OfferedOK == offered \subseteq Fragment /\ IsFiniteSet(offered) /\ \A f, g \in offered : f.id = g.id => f = g
PacketInv ==
  /\ OfferedOK /\ Unique(previous) /\ Unique(input) /\ compiles \in Nat
  /\ budget # None => budget \in Nat /\ previous = Packets!Selected(input, budget)

LEMMA PacketInit == Init => PacketInv
<1> SUFFICES ASSUME Init PROVE PacketInv
  OBVIOUS
<1>1. offered = {} /\ previous = {} /\ input = {} /\ budget = None /\ compiles = 0
  BY DEF Init, Packets!Init
<1> QED
  BY <1>1, FS_EmptySet DEF PacketInv, OfferedOK, Unique

LEMMA NormalizedUnique ==
  ASSUME OfferedOK PROVE Unique({Packets!Normalized(f) : f \in offered})
<1> DEFINE n == [f \in offered |-> Packets!Normalized(f)]
           fs == {Packets!Normalized(f) : f \in offered}
<1>1. \A f : Packets!Normalized(f).id = f.id
  BY DEF Packets!Normalized
<1>2. fs \in SUBSET Frags
  BY DEF OfferedOK, Frags
<1>3. \A f, g \in fs : f.id = g.id => f = g
  BY <1>1 DEF OfferedOK
<1>4. IsFiniteSet(fs)
  <2>1. n \in Surjection(offered, fs)
    BY DEF Surjection
  <2> HIDE DEF n, fs
  <2> QED
    BY <2>1, FS_Surjection DEF OfferedOK
<1> QED
  BY <1>2, <1>3, <1>4 DEF Unique

LEMMA PacketCompiled ==
  ASSUME PacketInv, NEW c \in Call, Packets!Compile(c)
  PROVE  /\ PacketInv' /\ diff' = Packets!Diff(previous, previous')
<1>1. PICK limit \in Budget :
        LET fs == {Packets!Normalized(f) : f \in offered}  kept == Packets!Selected(fs, limit) IN
        budget' = limit /\ input' = fs /\ previous' = kept /\ diff' = Packets!Diff(previous, kept)
  BY DEF Packets!Compile
<1>2. UNCHANGED offered /\ compiles' = compiles + 1
  BY DEF Packets!Compile
<1> DEFINE fs == {Packets!Normalized(f) : f \in offered}
<1>3. Unique(fs) /\ limit \in Nat
  BY NormalizedUnique, PacketsAssumption DEF PacketInv
<1>4. budget' = limit /\ input' = fs /\ previous' = Packets!Selected(fs, limit) /\ diff' = Packets!Diff(previous, previous')
  BY <1>1
<1> HIDE DEF fs
<1>5. Unique(Packets!Selected(fs, limit))
  BY <1>3, SelectedIs
<1>6. Unique(previous') /\ Unique(input')
  BY <1>3, <1>4, <1>5
<1>7. Unique(previous)' /\ Unique(input)' /\ OfferedOK' /\ compiles' \in Nat
  BY <1>2, <1>6 DEF PacketInv, OfferedOK, Unique
<1>8. (budget # None => budget \in Nat /\ previous = Packets!Selected(input, budget))'
  BY <1>3, <1>4
<1> QED
  BY <1>4, <1>7, <1>8 DEF PacketInv

LEMMA PacketKept == PacketInv /\ [Next]_vars => PacketInv'
<1> SUFFICES ASSUME PacketInv, [Next]_vars PROVE PacketInv'
  OBVIOUS
<1>1. CASE OfferedOK' /\ UNCHANGED <<previous, input, budget, compiles>>
  BY <1>1 DEF PacketInv, Unique
<1>2. ASSUME NEW f \in Fragment, Packets!Offer(f) PROVE OfferedOK' /\ UNCHANGED <<previous, input, budget, compiles>>
  <2>1. offered' = {g \in offered : g.id # f.id} \cup {f} /\ UNCHANGED <<previous, input, budget, compiles>>
    BY <1>2 DEF Packets!Offer
  <2>2. IsFiniteSet({g \in offered : g.id # f.id}) /\ IsFiniteSet(offered')
    <3>1. IsFiniteSet({g \in offered : g.id # f.id})
      BY FS_Subset DEF PacketInv, OfferedOK
    <3> QED
      BY <2>1, <3>1, FS_AddElement
  <2> QED
    BY <2>1, <2>2 DEF PacketInv, OfferedOK
<1>3. ASSUME NEW f \in Fragment, Packets!Withdraw(f) PROVE OfferedOK' /\ UNCHANGED <<previous, input, budget, compiles>>
  <2>1. offered' = offered \ {f} /\ UNCHANGED <<previous, input, budget, compiles>>
    BY <1>3 DEF Packets!Withdraw
  <2>2. IsFiniteSet(offered')
    BY <2>1, FS_Subset DEF PacketInv, OfferedOK
  <2> QED
    BY <2>1, <2>2 DEF PacketInv, OfferedOK
<1>4. ASSUME NEW c \in Call, Packets!OpenCache(c) \/ Packets!CacheContext(c) \/ Packets!Die(c)
      PROVE  OfferedOK' /\ UNCHANGED <<previous, input, budget, compiles>>
  BY <1>4 DEF Packets!OpenCache, Packets!CacheContext, Packets!Store, Packets!Die, PacketInv, OfferedOK
<1>5. UNCHANGED Packets!vars => OfferedOK' /\ UNCHANGED <<previous, input, budget, compiles>>
  BY DEF Packets!vars, PacketInv, OfferedOK
<1> QED
  BY <1>1, <1>2, <1>3, <1>4, <1>5, PacketCompiled, PacketsStep DEF Packets!Next

\* The budget of a context yields only to what must be kept and is spent by priority, whatever fragments are offered;
\* a packet that is expanded adds to what it showed, when all of it fits.
THEOREM BudgetIsAlwaysSpentByPriority == Spec => []BudgetIsSpentByPriority
<1>1. Init => PacketInv
  BY PacketInit
<1>2. PacketInv /\ [Next]_vars => PacketInv'
  BY PacketKept
<1>3. PacketInv => BudgetIsSpentByPriority
  <2> SUFFICES ASSUME PacketInv PROVE Packets!BudgetIsSpentByPriority /\ Packets!ExpansionAdds
    BY DEF BudgetIsSpentByPriority
  <2>1. Packets!ExpansionAdds
    BY ExpansionTrue DEF PacketInv
  <2>2. ASSUME budget # None
        PROVE  LET must == {f \in previous : f.must_keep} IN
               /\ Packets!Size(previous) <= (IF Packets!Size(must) > budget THEN Packets!Size(must) ELSE budget)
               /\ Packets!Cardinality({f.content : f \in previous}) = Packets!Cardinality(previous)
               /\ \A f \in Packets!Deduplicated(input) \ previous :
                    ~f.must_keep /\ Packets!Size({g \in previous : g.must_keep \/ Packets!Before(g, f)}) + Chars(f.content) > budget
    <3>1. Unique(input) /\ budget \in Nat /\ previous = Packets!Selected(input, budget)
      BY <2>2 DEF PacketInv
    <3>2. previous \subseteq Packets!Deduplicated(input)
      BY <3>1, SelectedIs
    <3> QED
      BY <3>1, <3>2, SelectedIs, OncePerContent
  <2> QED
    BY <2>1, <2>2 DEF Packets!BudgetIsSpentByPriority
<1> QED
  BY <1>1, <1>2, <1>3, PTL DEF Spec

-----------------------------------------------------------------------------
(* The difference between two compilations. *)

LEMMA DiffRebuilds ==
  ASSUME NEW before, NEW after, Unique(before), Unique(after), NEW d, d = Packets!Diff(before, after)
  PROVE  /\ {<<f.id, f.content>> : f \in after} =
              {<<f.id, f.content>> : f \in (d.added \cup d.changed \cup {g \in before : g.id \notin Packets!Ids(d.removed \cup d.changed)})}
         /\ Packets!Size(d.added) + Packets!Size(d.changed) + Packets!Size(d.unchanged) = Packets!Size(after)
<1>1. /\ d.added = {f \in after : f.id \notin Packets!Ids(before)}
      /\ d.removed = {f \in before : f.id \notin Packets!Ids(after)}
      /\ d.changed = {f \in after : f.id \in Packets!Ids(before) /\ Packets!Of(before, f.id).content # f.content}
      /\ d.unchanged = {f \in after : f.id \in Packets!Ids(before) /\ Packets!Of(before, f.id).content = f.content}
  BY DEF Packets!Diff
<1>2. \A g \in before : g.id \in Packets!Ids(before) /\ Packets!Of(before, g.id) = g
  BY DEF Unique, Packets!Ids, Packets!Of
<1>3. \A id \in Packets!Ids(before) : \E g \in before : g.id = id
  BY DEF Packets!Ids
<1>4. \A f \in after : f.id \in Packets!Ids(after)
  BY DEF Packets!Ids
<1>5. ASSUME NEW f \in after
      PROVE  \E h \in (d.added \cup d.changed \cup {g \in before : g.id \notin Packets!Ids(d.removed \cup d.changed)}) :
               h.id = f.id /\ h.content = f.content
  <2>1. CASE f \in d.added \cup d.changed
    BY <2>1
  <2>2. CASE f \in d.unchanged
    <3>1. PICK g \in before : g.id = f.id /\ g.content = f.content
      BY <1>1, <1>2, <1>3, <2>2
    <3>2. g.id \notin Packets!Ids(d.removed \cup d.changed)
      <4>1. \A h \in d.removed : h.id # f.id
        BY <1>1, <1>4
      <4>2. \A h \in d.changed : h.id # f.id
        BY <1>1, <2>2 DEF Unique
      <4> QED
        BY <3>1, <4>1, <4>2 DEF Packets!Ids
    <3> QED
      BY <3>1, <3>2
  <2> QED
    BY <1>1, <2>1, <2>2
<1>6. ASSUME NEW h \in (d.added \cup d.changed \cup {g \in before : g.id \notin Packets!Ids(d.removed \cup d.changed)})
      PROVE  \E f \in after : h.id = f.id /\ h.content = f.content
  <2>1. CASE h \in d.added \cup d.changed
    BY <1>1, <2>1
  <2>2. CASE h \in before /\ h.id \notin Packets!Ids(d.removed \cup d.changed)
    <3>1. h \notin d.removed
      BY <2>2 DEF Packets!Ids
    <3>2. PICK f \in after : f.id = h.id
      BY <1>1, <2>2, <3>1 DEF Packets!Ids
    <3>3. f \notin d.changed
      BY <2>2, <3>2 DEF Packets!Ids
    <3> QED
      BY <1>1, <1>2, <2>2, <3>2, <3>3
  <2> QED
    BY <2>1, <2>2
<1>7. Packets!Size(d.added) + Packets!Size(d.changed) + Packets!Size(d.unchanged) = Packets!Size(after)
  <2> DEFINE rest == after \ d.added
  <2>1. d.added \subseteq after /\ rest \subseteq after /\ d.changed \subseteq rest /\ d.unchanged = rest \ d.changed
    BY <1>1
  <2>2. after \in SUBSET Frags /\ IsFiniteSet(after) /\ rest \in SUBSET Frags /\ IsFiniteSet(rest)
    BY FS_Subset DEF Unique
  <2>3. Packets!Size(after) = Packets!Size(d.added) + Packets!Size(rest)
    BY <2>1, <2>2, SizeFacts
  <2> HIDE DEF rest
  <2>4. Packets!Size(rest) = Packets!Size(d.changed) + Packets!Size(d.unchanged)
    BY <2>1, <2>2, SizeFacts
  <2>5. Packets!Size(d.added) \in Nat
    BY <2>1, <2>2, SizeFacts
  <2>6. Packets!Size(d.changed) \in Nat /\ Packets!Size(d.unchanged) \in Nat
    BY <2>1, <2>2, SizeFacts
  <2> QED
    BY <2>3, <2>4, <2>5, <2>6
<1> DEFINE built == d.added \cup d.changed \cup {g \in before : g.id \notin Packets!Ids(d.removed \cup d.changed)}
<1>8. \A f \in after : <<f.id, f.content>> \in {<<h.id, h.content>> : h \in built}
  <2>1. \A f \in after : \E h \in built : h.id = f.id /\ h.content = f.content
    BY <1>5
  <2> HIDE DEF built
  <2> QED
    BY <2>1
<1>9. \A h \in built : <<h.id, h.content>> \in {<<f.id, f.content>> : f \in after}
  <2>1. \A h \in built : \E f \in after : h.id = f.id /\ h.content = f.content
    BY <1>6
  <2> HIDE DEF built
  <2> QED
    BY <2>1
<1>10. {<<f.id, f.content>> : f \in after} = {<<h.id, h.content>> : h \in built}
  <2> HIDE DEF built
  <2> QED
    BY <1>8, <1>9
<1> QED
  BY <1>7, <1>10

\* Who holds the compilation before and is sent the difference has the new one, and is sent no character it has.
THEOREM DeltaAlwaysRebuilds == Spec => DeltaRebuilds
<1> DEFINE Rebuilt == compiles' > compiles =>
             LET d == diff' IN
             /\ {<<f.id, f.content>> : f \in previous'} =
                  {<<f.id, f.content>> : f \in (d.added \cup d.changed \cup {g \in previous : g.id \notin Packets!Ids(d.removed \cup d.changed)})}
             /\ Packets!delta_chars' + Packets!Size(d.unchanged) = Packets!Size(previous')
<1>1. Init => PacketInv
  BY PacketInit
<1>2. PacketInv /\ [Next]_vars => PacketInv'
  BY PacketKept
<1>3. PacketInv /\ [Next]_vars => [Rebuilt]_(Packets!vars)
  <2> SUFFICES ASSUME PacketInv, Packets!Next, compiles' > compiles PROVE Rebuilt
    BY PacketsStep
  <2>1. PICK c \in Call : Packets!Compile(c)
    <3>1. ASSUME NEW c \in Call, Packets!OpenCache(c) \/ Packets!CacheContext(c) \/ Packets!Die(c)
          PROVE  compiles' = compiles
      BY <3>1 DEF Packets!OpenCache, Packets!CacheContext, Packets!Store, Packets!Die
    <3>2. ASSUME NEW f \in Fragment, Packets!Offer(f) \/ Packets!Withdraw(f)
          PROVE  compiles' = compiles
      BY <3>2 DEF Packets!Offer, Packets!Withdraw
    <3>3. compiles' # compiles
      BY DEF PacketInv
    <3> QED
      BY <3>1, <3>2, <3>3, Zenon DEF Packets!Next
  <2>2. PacketInv' /\ diff' = Packets!Diff(previous, previous')
    BY <2>1, PacketCompiled
  <2>3. Unique(previous) /\ Unique(previous')
    BY <2>2 DEF PacketInv, Unique
  <2>4. Packets!delta_chars' = Packets!Size(diff'.added) + Packets!Size(diff'.changed)
    BY DEF Packets!delta_chars
  <2> QED
    BY <2>2, <2>3, <2>4, DiffRebuilds
<1> QED
  BY <1>1, <1>2, <1>3, PTL DEF Spec, DeltaRebuilds, Packets!DeltaRebuilds

-----------------------------------------------------------------------------
(* Stats: the telemetry events and their sums. *)

Row == [executor : Executor, task : Task \cup {None}, in : Nat \cup {None}, out : Nat \cup {None},
        input : Nat \cup {None}, total : Nat \cup {None}, day : Nat]

\* Sizes come in pairs.
StatsInv ==
  /\ statsDay \in Nat /\ executions \in Seq(Usage \cup {None}) /\ statsEvents \in Seq(Row)
  /\ \A i \in DOMAIN statsEvents : statsEvents[i].in # None => statsEvents[i].out # None

LEMMA StatsInit == Init => StatsInv
BY DEF Init, Stats!Init, StatsInv

LEMMA StatsStep == StatsInv /\ Next => StatsInv'
<1> SUFFICES ASSUME StatsInv, Next PROVE StatsInv'
  OBVIOUS
<1>1. ASSUME Stats!RecordTelemetry PROVE StatsInv'
  <2>1. PICK row : /\ statsEvents' = Append(statsEvents, row) /\ row \in Row /\ (row.in # None => row.out # None)
    <3>1. PICK e \in Executor, t \in Task \cup {None} :
       \/ \E c \in CompileSize : statsEvents' = Append(statsEvents,
            [executor |-> e, task |-> t, in |-> c[1], out |-> c[2], input |-> None, total |-> None, day |-> statsDay])
       \/ statsEvents' = Append(statsEvents,
            [executor |-> e, task |-> t, in |-> None, out |-> None, input |-> None, total |-> None, day |-> statsDay])
       \/ \E u \in Usage : statsEvents' = Append(statsEvents,
            [executor |-> e, task |-> t, in |-> None, out |-> None, input |-> u[1], total |-> u[2], day |-> statsDay])
      BY <1>1 DEF Stats!RecordTelemetry
    <3>2. statsDay \in Nat /\ None \notin Nat
      BY StatsAssumption DEF StatsInv
    <3>3. \A c \in CompileSize : c[1] \in Nat /\ c[2] \in Nat
      BY StatsAssumption
    <3>4. \A u \in Usage : u[1] \in Nat \cup {None} /\ u[2] \in Nat
      BY StatsAssumption
    <3>5. CASE \E c \in CompileSize : statsEvents' = Append(statsEvents,
            [executor |-> e, task |-> t, in |-> c[1], out |-> c[2], input |-> None, total |-> None, day |-> statsDay])
      BY <3>2, <3>3, <3>5 DEF Row
    <3>6. CASE statsEvents' = Append(statsEvents,
            [executor |-> e, task |-> t, in |-> None, out |-> None, input |-> None, total |-> None, day |-> statsDay])
      BY <3>2, <3>6 DEF Row
    <3>7. CASE \E u \in Usage : statsEvents' = Append(statsEvents,
            [executor |-> e, task |-> t, in |-> None, out |-> None, input |-> u[1], total |-> u[2], day |-> statsDay])
      BY <3>2, <3>4, <3>7 DEF Row
    <3> QED
      BY <3>1, <3>5, <3>6, <3>7
  <2>2. statsEvents \in Seq(Row) /\ \A i \in DOMAIN statsEvents : statsEvents[i].in # None => statsEvents[i].out # None
    BY DEF StatsInv
  <2>3. statsEvents' \in Seq(Row) /\ \A i \in DOMAIN statsEvents' : statsEvents'[i].in # None => statsEvents'[i].out # None
    <3> HIDE DEF StatsInv
    <3> QED
      BY <2>1, <2>2
  <2>4. UNCHANGED <<executions, statsDay>>
    BY <1>1 DEF Stats!RecordTelemetry
  <2> QED
    BY <2>3, <2>4 DEF StatsInv
<1>2. ASSUME Stats!Execution PROVE StatsInv'
  BY <1>2 DEF Stats!Execution, StatsInv
<1>3. ASSUME Stats!NextDay PROVE StatsInv'
  BY <1>3 DEF Stats!NextDay, StatsInv
<1>4. ASSUME UNCHANGED <<statsEvents, executions, statsDay>> PROVE StatsInv'
  BY <1>4 DEF StatsInv
<1>5. \/ Stats!RecordTelemetry \/ Stats!Execution \/ Stats!NextDay
      \/ UNCHANGED <<statsEvents, executions, statsDay>>
  <2>1. CASE UNCHANGED statsVars
    BY <2>1 DEF statsVars
  <2>2. CASE Stats!Next
    BY <2>2 DEF Stats!Next, Stats!TaskMoves
  <2> QED
    BY <2>1, <2>2 DEF Next
<1> QED
  BY <1>1, <1>2, <1>3, <1>4, <1>5

\* The sum in the order of the library is the one of the lemmas.
LEMMA SumOfIsSum == ASSUME NEW f, NEW S PROVE Stats!SumOf(f, S) = Sum(f, S)
<1>1. Stats!SumOf(f, S) = (CHOOSE g : g = [s \in SUBSET S |->
        IF s = {} THEN 0 ELSE LET x == CHOOSE y \in s : TRUE IN f[x] + g[s \ {x}]])[S]
  BY DEF Stats!SumOf, Stats!FoldSet, Stats!MapThenFoldSet
<1>2. \A g : SumOn(g, f, S) <=> g = [s \in SUBSET S |->
        IF s = {} THEN 0 ELSE LET x == CHOOSE y \in s : TRUE IN f[x] + g[s \ {x}]]
  BY DEF SumOn, One
<1>3. (CHOOSE g : SumOn(g, f, S)) = CHOOSE g : g = [s \in SUBSET S |->
        IF s = {} THEN 0 ELSE LET x == CHOOSE y \in s : TRUE IN f[x] + g[s \ {x}]]
  BY <1>2
<1> QED
  BY <1>1, <1>3 DEF Sum

\* Numbers are known, and their total is their sum.
LEMMA TotalIsSum ==
  ASSUME NEW S, IsFiniteSet(S), NEW w, \A x \in S : w[x] \in Int
  PROVE  Stats!Total([x \in S |-> w[x]]) = Sum(w, S)
<1> DEFINE v == [x \in S |-> w[x]]
           u == [x \in S |-> Stats!Known(v[x])]
<1>1. Stats!Total([x \in S |-> w[x]]) = Sum(u, S)
  BY SumOfIsSum DEF Stats!Total
<1>2. \A x \in S : u[x] = w[x]
  <2>1. \A n \in Int : Stats!Known(n) = n
    BY StatsAssumption DEF Stats!Known
  <2> QED
    BY <2>1
<1>3. \A x \in S : w[x] \in Int /\ u[x] = w[x]
  BY <1>2
<1> HIDE DEF u, v
<1> QED
  BY <1>1, <1>3, SumSame

LEMMA Image ==
  ASSUME NEW S, IsFiniteSet(S), NEW f PROVE IsFiniteSet({f[x] : x \in S}) /\ Cardinality({f[x] : x \in S}) \in Nat
<1> DEFINE T == {f[x] : x \in S}
           g == [x \in S |-> f[x]]
<1>1. g \in Surjection(S, T)
  BY DEF Surjection
<1>2. IsFiniteSet(T)
  <2> HIDE DEF g, T
  <2> QED
    BY <1>1, FS_Surjection
<1> QED
  BY <1>2, FS_CardinalityType

LEMMA StatsCardinality == \A S : Stats!Cardinality(S) = Cardinality(S)
BY DEF Stats!Cardinality, Cardinality

\* The characters in and out of the compilations.
In == [i \in DOMAIN statsEvents |-> statsEvents[i].in]
Out == [i \in DOMAIN statsEvents |-> statsEvents[i].out]
Compiled == Stats!Compiles(Stats!telemetryEvents)

LEMMA RowFacts ==
  ASSUME StatsInv
  PROVE  /\ IsFiniteSet(DOMAIN statsEvents) /\ IsFiniteSet(Stats!telemetryEvents) /\ IsFiniteSet(Compiled)
         /\ Stats!telemetryEvents \subseteq DOMAIN statsEvents /\ Compiled \subseteq Stats!telemetryEvents
         /\ \A i \in DOMAIN statsEvents : statsEvents[i] \in Row
         /\ \A i \in Compiled : /\ In[i] \in Nat /\ Out[i] \in Nat
                                /\ In[i] = statsEvents[i].in /\ Out[i] = statsEvents[i].out
<1>1. DOMAIN statsEvents = 1..Len(statsEvents) /\ Len(statsEvents) \in Nat
  BY DEF StatsInv
<1>2. IsFiniteSet(DOMAIN statsEvents)
  BY <1>1, FS_Interval
<1>3. Stats!telemetryEvents \subseteq DOMAIN statsEvents /\ Compiled \subseteq Stats!telemetryEvents
  BY DEF Stats!telemetryEvents, Compiled, Stats!Compiles
<1>4. IsFiniteSet(Stats!telemetryEvents) /\ IsFiniteSet(Compiled)
  BY <1>2, <1>3, FS_Subset
<1>5. \A i \in DOMAIN statsEvents : statsEvents[i] \in Row
  BY <1>1 DEF StatsInv
<1>6. ASSUME NEW i \in Compiled
      PROVE  In[i] \in Nat /\ Out[i] \in Nat /\ In[i] = statsEvents[i].in /\ Out[i] = statsEvents[i].out
  <2>1. i \in DOMAIN statsEvents /\ statsEvents[i].in # None
    BY <1>3 DEF Compiled, Stats!Compiles
  <2>2. statsEvents[i].out # None /\ statsEvents[i].in \in Nat \cup {None} /\ statsEvents[i].out \in Nat \cup {None}
    BY <1>5, <2>1 DEF StatsInv, Row
  <2> QED
    BY <2>1, <2>2 DEF In, Out
<1> QED
  BY <1>2, <1>3, <1>4, <1>5, <1>6

LEMMA SavingsFacts ==
  ASSUME StatsInv, NEW S \in SUBSET Compiled
  PROVE  /\ IsFiniteSet(S) /\ Sum(In, S) \in Nat /\ Sum(Out, S) \in Nat
         /\ Stats!Savings(S).original = Sum(In, S) /\ Stats!Savings(S).delivered = Sum(Out, S)
         /\ Stats!Savings(S).saved = Stats!AtLeast0(Sum(In, S) - Sum(Out, S)) /\ Stats!Savings(S).saved \in Nat
<1>1. IsFiniteSet(S)
  BY RowFacts, FS_Subset
<1>2. /\ \A i \in S : In[i] \in Nat
      /\ \A i \in S : Out[i] \in Nat
  BY RowFacts
<1>3. Sum(In, S) \in Nat /\ Sum(Out, S) \in Nat
  BY <1>1, <1>2, SumNat
<1>4. [i \in S |-> statsEvents[i].in] = [i \in S |-> In[i]] /\ [i \in S |-> statsEvents[i].out] = [i \in S |-> Out[i]]
  BY RowFacts
<1>5. Stats!Total([i \in S |-> In[i]]) = Sum(In, S)
  <2>1. \A i \in S : In[i] \in Int
    BY <1>2
  <2> QED
    BY <1>1, <2>1, TotalIsSum
<1>6. Stats!Total([i \in S |-> Out[i]]) = Sum(Out, S)
  <2>1. \A i \in S : Out[i] \in Int
    BY <1>2
  <2> QED
    BY <1>1, <2>1, TotalIsSum
<1>7. Stats!Savings(S).original = Sum(In, S) /\ Stats!Savings(S).delivered = Sum(Out, S)
      /\ Stats!Savings(S).saved = Stats!AtLeast0(Sum(In, S) - Sum(Out, S))
  BY <1>4, <1>5, <1>6 DEF Stats!Savings
<1>8. Stats!AtLeast0(Sum(In, S) - Sum(Out, S)) \in Nat
  BY <1>3 DEF Stats!AtLeast0
<1> QED
  BY <1>1, <1>3, <1>7, <1>8

\* Four characters are a token, and one that is begun counts.
LEMMA Tokens ==
  /\ \A n \in Nat : Stats!TokensOf(n) \in Nat /\ n <= 4 * Stats!TokensOf(n)
  /\ \A n \in Nat, k \in Int : n <= 4 * k => Stats!TokensOf(n) <= k
BY DEF Stats!TokensOf, Stats!CeilDiv

-----------------------------------------------------------------------------
(* What was not observed has no number. *)

LEMMA HistoryCounted ==
  ASSUME StatsInv PROVE (Stats!historyView.status = "UNAVAILABLE") <=> (Stats!historyView.count = None)
<1> DEFINE counts == [type \in StatsType |-> Stats!Cardinality(Stats!HistoryRows(type))]
           present == {type \in StatsType : counts[type] > 0}
<1>1. \A type \in StatsType : counts[type] \in Nat
  <2>1. \A type \in StatsType : IsFiniteSet(Stats!HistoryRows(type))
    BY RowFacts, FS_Subset DEF Stats!HistoryRows
  <2> QED
    BY <2>1, FS_CardinalityType, StatsCardinality
<1>2. Stats!SumOf(counts, present) \in Nat
  <2>1. IsFiniteSet(present)
    BY StatsAssumption, FS_Subset
  <2>2. \A type \in present : counts[type] \in Nat
    BY <1>1
  <2> HIDE DEF counts, present
  <2> QED
    BY <2>1, <2>2, SumNat, SumOfIsSum
<1>3. /\ Stats!historyView.status = (IF present = {} THEN "UNAVAILABLE" ELSE IF present = StatsType THEN "OBSERVED" ELSE "PARTIAL")
      /\ Stats!historyView.count = IF present = {} THEN None ELSE Stats!SumOf(counts, present)
  BY DEF Stats!historyView, Stats!View
<1> HIDE DEF counts, present
<1> QED
  BY <1>2, <1>3, StatsAssumption

LEMMA ObservedCounted ==
  ASSUME NEW n \in Nat, NEW type
  PROVE  (Stats!Observed(n, type).status = "UNAVAILABLE") <=> (Stats!Observed(n, type).count = None)
BY StatsAssumption DEF Stats!Observed, Stats!View

LEMMA ViewsCounted ==
  ASSUME StatsInv, NEW v \in DOMAIN Stats!dashboardViews
  PROVE  (Stats!dashboardViews[v].status = "UNAVAILABLE") <=> (Stats!dashboardViews[v].count = None)
<1> DEFINE telemetry == Stats!telemetryEvents
<1>1. v \in {"Overview", "History", "Tasks", "Agents", "Executions"}
  BY DEF Stats!dashboardViews
<1>2. CASE v = "Overview"
  <2>1. Stats!dashboardViews[v].status = "OBSERVED"
    BY <1>2 DEF Stats!dashboardViews, Stats!View
  <2>2. Stats!dashboardViews[v].count = Stats!Cardinality({t \in DOMAIN Stats!taskStats : Stats!taskStats[t].status = "DONE"})
    BY <1>2 DEF Stats!dashboardViews, Stats!View, Stats!Summary
  <2>3. IsFiniteSet({t \in DOMAIN Stats!taskStats : Stats!taskStats[t].status = "DONE"})
    BY StatsAssumption, FS_Subset DEF Stats!taskStats
  <2>4. Stats!dashboardViews[v].count \in Nat
    BY <2>2, <2>3, FS_CardinalityType, StatsCardinality
  <2> QED
    BY <2>1, <2>4, StatsAssumption
<1>3. CASE v = "History"
  BY <1>3, HistoryCounted DEF Stats!dashboardViews
<1>4. CASE v = "Tasks"
  <2>1. IsFiniteSet(DOMAIN Stats!taskStats)
    BY StatsAssumption, FS_Subset DEF Stats!taskStats
  <2>2. Stats!Cardinality(DOMAIN Stats!taskStats) \in Nat
    BY <2>1, FS_CardinalityType, StatsCardinality
  <2>3. Stats!dashboardViews[v] = Stats!Observed(Stats!Cardinality(DOMAIN Stats!taskStats), "estimated")
    BY <1>4 DEF Stats!dashboardViews
  <2> QED
    BY <2>2, <2>3, ObservedCounted
<1>5. CASE v = "Agents"
  <2>1. Stats!Cardinality(Stats!Executors(telemetry)) \in Nat
    <3> DEFINE f == [i \in telemetry |-> statsEvents[i].executor]
    <3>1. Stats!Executors(telemetry) = {f[i] : i \in telemetry}
      BY DEF Stats!Executors
    <3>2. IsFiniteSet(telemetry)
      BY RowFacts
    <3> HIDE DEF f, telemetry
    <3>3. Cardinality({f[i] : i \in telemetry}) \in Nat
      BY <3>2, Image
    <3> QED
      BY <3>1, <3>3, StatsCardinality
  <2>2. Stats!dashboardViews[v] = Stats!registryView(telemetry)
    BY <1>5 DEF Stats!dashboardViews
  <2> QED
    BY <2>1, <2>2, ObservedCounted DEF Stats!registryView
<1>6. CASE v = "Executions"
  <2>1. Stats!dashboardViews[v] = Stats!executionEvidence
    BY <1>6 DEF Stats!dashboardViews
  <2>2. Len(executions) \in Nat
    BY DEF StatsInv
  <2> QED
    BY <2>1, <2>2, ObservedCounted DEF Stats!executionEvidence
<1> QED
  BY <1>1, <1>2, <1>3, <1>4, <1>5, <1>6

LEMMA AbsenceTrue == StatsInv => Stats!AbsenceIsNotZero
<1> SUFFICES ASSUME StatsInv PROVE Stats!AbsenceIsNotZero
  OBVIOUS
<1> DEFINE telemetry == Stats!telemetryEvents
           c == Compiled
           s == Stats!Summary(c)
           p == Stats!periods(c)
<1>1. c = {} => s.delivered_chars = None /\ s.estimated_tokens_saved = None /\ p.seven_days = None /\ p.today = None
  BY DEF Stats!Summary, Stats!periods, Stats!OrNone
<1>2. c # {} => s.delivered_chars # None
  <2>1. Stats!Savings(c).delivered \in Nat
    BY SavingsFacts
  <2> QED
    BY <2>1, StatsAssumption DEF Stats!Summary, Stats!OrNone
<1>3. c = {} => p.all_time = None /\ s.original_chars = None
  <2>1. c = {} => Stats!Savings(c).original = 0
    <3>1. Sum(In, {}) = 0
      BY FS_EmptySet, SumFacts
    <3> QED
      BY <3>1, SavingsFacts
  <2> QED
    BY <2>1 DEF Stats!Summary, Stats!periods, Stats!OrNone
<1>4. Stats!Provider(telemetry) = {} => Stats!observed_tokens(telemetry).total = None
  BY DEF Stats!observed_tokens, Stats!OrNone
<1>5. (\A i \in DOMAIN executions : executions[i] = None) => Stats!executionUsage = [f \in 1..2 |-> None]
  BY DEF Stats!executionUsage, Stats!UsageRows, Stats!OrNone
<1>6. c = Stats!Compiles(telemetry)
  BY DEF Compiled
<1> HIDE DEF telemetry, c, s, p
<1>7. \A v \in DOMAIN Stats!dashboardViews : (Stats!dashboardViews[v].status = "UNAVAILABLE") <=> (Stats!dashboardViews[v].count = None)
  BY ViewsCounted
<1> QED
  BY <1>1, <1>2, <1>3, <1>4, <1>5, <1>6, <1>7 DEF Stats!AbsenceIsNotZero, telemetry, s, p

-----------------------------------------------------------------------------
(* The periods. *)

EventSaving == [i \in DOMAIN statsEvents |-> Stats!TokensOf(Stats!AtLeast0(statsEvents[i].in - statsEvents[i].out))]

LEMMA WithinFacts ==
  ASSUME StatsInv
  PROVE  /\ \A i \in Compiled : EventSaving[i] \in Nat
         /\ \A days : Stats!Within(Compiled, days) \subseteq Compiled
         /\ Stats!Within(Compiled, Window) = Compiled
         /\ Stats!contextTokensWithin(Compiled, 1) = Sum(EventSaving, Stats!Within(Compiled, 1))
         /\ Stats!contextTokensWithin(Compiled, Window) = Sum(EventSaving, Compiled)
<1>1. ASSUME NEW i \in Compiled PROVE EventSaving[i] \in Nat
  <2>1. EventSaving[i] = Stats!TokensOf(Stats!AtLeast0(In[i] - Out[i])) /\ In[i] \in Nat /\ Out[i] \in Nat
    BY RowFacts DEF EventSaving
  <2>2. Stats!AtLeast0(In[i] - Out[i]) \in Nat
    BY <2>1 DEF Stats!AtLeast0
  <2> QED
    BY <2>1, <2>2, Tokens
<1>2. \A days : Stats!Within(Compiled, days) \subseteq Compiled
  BY DEF Stats!Within
<1>3. Stats!Within(Compiled, Window) = Compiled
  <2>1. ASSUME NEW i \in Compiled PROVE statsDay - statsEvents[i].day <= Window
    <3>1. statsEvents[i].day + Window >= statsDay /\ statsEvents[i] \in Row
      BY RowFacts DEF Compiled, Stats!Compiles, Stats!telemetryEvents
    <3>2. statsEvents[i].day \in Nat /\ Window \in Nat /\ statsDay \in Nat
      BY <3>1, StatsAssumption DEF Row, StatsInv
    <3> QED
      BY <3>1, <3>2
  <2> QED
    BY <2>1 DEF Stats!Within
<1>4. ASSUME NEW days PROVE Stats!contextTokensWithin(Compiled, days) = Sum(EventSaving, Stats!Within(Compiled, days))
  <2> DEFINE S == Stats!Within(Compiled, days)
  <2>1. S \subseteq Compiled
    BY <1>2
  <2>2. Stats!contextTokensWithin(Compiled, days)
        = Stats!Total([i \in S |-> Stats!TokensOf(Stats!AtLeast0(statsEvents[i].in - statsEvents[i].out))])
    BY DEF Stats!contextTokensWithin
  <2> HIDE DEF S
  <2>3. [i \in S |-> Stats!TokensOf(Stats!AtLeast0(statsEvents[i].in - statsEvents[i].out))] = [i \in S |-> EventSaving[i]]
    BY <2>1, RowFacts DEF EventSaving
  <2>4. IsFiniteSet(S)
    BY <2>1, RowFacts, FS_Subset
  <2>5. \A i \in S : EventSaving[i] \in Int
    BY <1>1, <2>1
  <2>6. Stats!Total([i \in S |-> EventSaving[i]]) = Sum(EventSaving, S)
    BY <2>4, <2>5, TotalIsSum
  <2> QED
    BY <2>2, <2>3, <2>6 DEF S
<1> QED
  BY <1>1, <1>2, <1>3, <1>4

\* What is covered by four times a number each is covered by four times their sum.
LEMMA FourCover ==
  ASSUME NEW S, IsFiniteSet(S), NEW one, NEW in, NEW out,
         \A x \in S : one[x] \in Nat /\ in[x] \in Int /\ out[x] \in Int /\ in[x] <= 4 * one[x] + out[x]
  PROVE  Sum(one, S) \in Nat /\ Sum(in, S) - Sum(out, S) <= 4 * Sum(one, S)
<1> DEFINE two == [x \in S |-> one[x] + one[x]]
           four == [x \in S |-> two[x] + two[x]]
           more == [x \in S |-> four[x] + out[x]]
<1>1. \A x \in S : /\ one[x] \in Int /\ two[x] \in Int /\ four[x] \in Int /\ out[x] \in Int /\ more[x] \in Int /\ in[x] \in Int
                   /\ two[x] = one[x] + one[x] /\ four[x] = two[x] + two[x] /\ more[x] = four[x] + out[x]
                   /\ in[x] <= more[x]
  OBVIOUS
<1> HIDE DEF two, four, more
<1>2. Sum(two, S) = Sum(one, S) + Sum(one, S)
  BY <1>1, SumAdd
<1>3. Sum(four, S) = Sum(two, S) + Sum(two, S)
  BY <1>1, SumAdd
<1>4. Sum(more, S) = Sum(four, S) + Sum(out, S)
  BY <1>1, SumAdd
<1>5. Sum(in, S) <= Sum(more, S)
  BY <1>1, SumLess
<1>6. Sum(one, S) \in Nat
  <2>1. \A x \in S : one[x] \in Nat
    OBVIOUS
  <2> QED
    BY <2>1, SumNat
<1>7. Sum(in, S) \in Int /\ Sum(out, S) \in Int
  <2>1. \A x \in S : in[x] \in Int
    OBVIOUS
  <2>2. \A x \in S : out[x] \in Int
    OBVIOUS
  <2> QED
    BY <2>1, <2>2, SumFacts
<1> QED
  BY <1>2, <1>3, <1>4, <1>5, <1>6, <1>7

LEMMA CoveredTokens ==
  ASSUME NEW in \in Nat, NEW out \in Nat
  PROVE  /\ Stats!TokensOf(Stats!AtLeast0(in - out)) \in Nat
         /\ in <= 4 * Stats!TokensOf(Stats!AtLeast0(in - out)) + out
         /\ \A k \in Nat : in - out <= 4 * k => Stats!TokensOf(Stats!AtLeast0(in - out)) <= k
<1>1. Stats!AtLeast0(in - out) \in Nat /\ in - out <= Stats!AtLeast0(in - out)
      /\ \A k \in Nat : in - out <= 4 * k => Stats!AtLeast0(in - out) <= 4 * k
  BY DEF Stats!AtLeast0
<1>2. /\ Stats!TokensOf(Stats!AtLeast0(in - out)) \in Nat
      /\ Stats!AtLeast0(in - out) <= 4 * Stats!TokensOf(Stats!AtLeast0(in - out))
  BY <1>1, Tokens
<1>3. \A k \in Nat : Stats!AtLeast0(in - out) <= 4 * k => Stats!TokensOf(Stats!AtLeast0(in - out)) <= k
  BY <1>1, Tokens
<1> QED
  BY <1>1, <1>2, <1>3

\* What each event saves, rounded up, covers what they save together.
LEMMA RoundedUpCovers ==
  ASSUME StatsInv PROVE Stats!TokensOf(Stats!Savings(Compiled).saved) <= Sum(EventSaving, Compiled)
<1>1. IsFiniteSet(Compiled)
  BY RowFacts
<1>2. ASSUME NEW i \in Compiled
      PROVE  EventSaving[i] \in Nat /\ In[i] \in Int /\ Out[i] \in Int /\ In[i] <= 4 * EventSaving[i] + Out[i]
  <2>1. EventSaving[i] = Stats!TokensOf(Stats!AtLeast0(In[i] - Out[i])) /\ In[i] \in Nat /\ Out[i] \in Nat
    BY RowFacts DEF EventSaving
  <2>2. /\ Stats!TokensOf(Stats!AtLeast0(In[i] - Out[i])) \in Nat
        /\ In[i] <= 4 * Stats!TokensOf(Stats!AtLeast0(In[i] - Out[i])) + Out[i]
    BY <2>1, CoveredTokens
  <2> QED
    BY <2>1, <2>2
<1>3. Sum(EventSaving, Compiled) \in Nat /\ Sum(In, Compiled) - Sum(Out, Compiled) <= 4 * Sum(EventSaving, Compiled)
  BY <1>1, <1>2, FourCover
<1>4. /\ Sum(In, Compiled) \in Nat /\ Sum(Out, Compiled) \in Nat
      /\ Stats!Savings(Compiled).saved = Stats!AtLeast0(Sum(In, Compiled) - Sum(Out, Compiled))
  BY SavingsFacts
<1> QED
  BY <1>3, <1>4, CoveredTokens

LEMMA PeriodsTrue == StatsInv => Stats!PeriodsAgree
<1> SUFFICES ASSUME StatsInv, Compiled # {}
             PROVE  /\ Stats!periods(Compiled).today <= Stats!periods(Compiled).seven_days
                    /\ Stats!periods(Compiled).all_time # None
                         => Stats!periods(Compiled).all_time <= Stats!periods(Compiled).seven_days
  BY DEF Stats!PeriodsAgree, Compiled
<1>1. /\ Stats!periods(Compiled).today = Sum(EventSaving, Stats!Within(Compiled, 1))
      /\ Stats!periods(Compiled).seven_days = Sum(EventSaving, Compiled)
      /\ Stats!periods(Compiled).all_time # None =>
           Stats!periods(Compiled).all_time = Stats!TokensOf(Stats!Savings(Compiled).saved)
  BY WithinFacts DEF Stats!periods, Stats!OrNone
<1>2. Sum(EventSaving, Stats!Within(Compiled, 1)) <= Sum(EventSaving, Compiled)
  <2>1. IsFiniteSet(Compiled) /\ Stats!Within(Compiled, 1) \in SUBSET Compiled
    BY RowFacts, WithinFacts
  <2>2. \A i \in Compiled : EventSaving[i] \in Nat
    BY WithinFacts
  <2> QED
    BY <2>1, <2>2, SumNat
<1> QED
  BY <1>1, <1>2, RoundedUpCovers

-----------------------------------------------------------------------------
(* The executors. *)

By == [i \in DOMAIN statsEvents |-> statsEvents[i].executor]
Share(field) == [e \in Stats!Executors(Compiled) |-> Stats!by_executor(Compiled)[e][field]]

LEMMA ExecutorFacts ==
  ASSUME StatsInv
  PROVE  /\ IsFiniteSet(Stats!Executors(Compiled)) /\ DOMAIN Stats!by_executor(Compiled) = Stats!Executors(Compiled)
         /\ \A i \in Compiled : By[i] \in Stats!Executors(Compiled)
         /\ \A e : Stats!Own(Compiled, e) = {i \in Compiled : By[i] = e} /\ Stats!Own(Compiled, e) \in SUBSET Compiled
<1>1. \A i \in Compiled : By[i] = statsEvents[i].executor
  BY RowFacts DEF By
<1>2. Stats!Executors(Compiled) = {By[i] : i \in Compiled}
  BY <1>1 DEF Stats!Executors
<1>3. IsFiniteSet(Stats!Executors(Compiled))
  BY <1>2, RowFacts, Image
<1>4. \A e : Stats!Own(Compiled, e) = {i \in Compiled : By[i] = e}
  BY <1>1 DEF Stats!Own
<1> QED
  BY <1>2, <1>3, <1>4 DEF Stats!by_executor

LEMMA ShareFacts ==
  ASSUME StatsInv, NEW e \in Stats!Executors(Compiled)
  PROVE  LET own == Stats!Own(Compiled, e) IN
         /\ Share("original_chars")[e] = Sum(In, own)
         /\ Share("estimated_tokens_saved")[e] = Stats!TokensOf(Stats!AtLeast0(Sum(In, own) - Sum(Out, own)))
         /\ Share("tasks_processed")[e] = Cardinality(Stats!EligibleTasks(own)) + Cardinality({i \in own : statsEvents[i].task = None})
<1> DEFINE own == Stats!Own(Compiled, e)
<1>1. /\ Stats!by_executor(Compiled)[e].original_chars = Stats!Savings(own).original
      /\ Stats!by_executor(Compiled)[e].estimated_tokens_saved = Stats!TokensOf(Stats!Savings(own).saved)
      /\ Stats!by_executor(Compiled)[e].tasks_processed =
           Stats!Cardinality(Stats!EligibleTasks(own)) + Stats!Cardinality({i \in own : statsEvents[i].task = None})
  BY DEF Stats!by_executor
<1>2. own \in SUBSET Compiled
  BY ExecutorFacts
<1> HIDE DEF own
<1>3. Stats!Savings(own).original = Sum(In, own) /\ Stats!Savings(own).saved = Stats!AtLeast0(Sum(In, own) - Sum(Out, own))
  BY <1>2, SavingsFacts
<1> QED
  BY <1>1, <1>3, StatsCardinality DEF Share, own

\* Summed by executor, nothing is lost.
LEMMA ByExecutor ==
  ASSUME StatsInv, NEW w, \A i \in Compiled : w[i] \in Int, NEW v,
         \A e \in Stats!Executors(Compiled) : v[e] = Sum(w, Stats!Own(Compiled, e))
  PROVE  Sum(v, Stats!Executors(Compiled)) = Sum(w, Compiled)
<1> DEFINE K == Stats!Executors(Compiled)
<1>1. IsFiniteSet(Compiled) /\ IsFiniteSet(K) /\ \A i \in Compiled : By[i] \in K
  BY RowFacts, ExecutorFacts
<1>2. \A e \in K : v[e] = Sum(w, Keyed(Compiled, By, e))
  BY ExecutorFacts DEF Keyed
<1> HIDE DEF K
<1>3. Sum(v, K) = Sum(w, Compiled)
  BY <1>1, <1>2, SumByKey
<1> QED
  BY <1>3 DEF K

LEMMA OriginalAddsUp == ASSUME StatsInv PROVE Sum(Share("original_chars"), Stats!Executors(Compiled)) = Sum(In, Compiled)
<1> DEFINE v == Share("original_chars")
<1>1. \A i \in Compiled : In[i] \in Int
  BY RowFacts
<1>2. \A e \in Stats!Executors(Compiled) : v[e] = Sum(In, Stats!Own(Compiled, e))
  BY ShareFacts
<1> HIDE DEF v
<1>3. Sum(v, Stats!Executors(Compiled)) = Sum(In, Compiled)
  BY <1>1, <1>2, ByExecutor
<1> QED
  BY <1>3 DEF v

LEMMA SavingsCovered ==
  ASSUME StatsInv
  PROVE  Stats!TokensOf(Stats!Savings(Compiled).saved) <= Sum(Share("estimated_tokens_saved"), Stats!Executors(Compiled))
<1> DEFINE K == Stats!Executors(Compiled)
           one == Share("estimated_tokens_saved")
           in == [e \in K |-> Sum(In, Stats!Own(Compiled, e))]
           out == [e \in K |-> Sum(Out, Stats!Own(Compiled, e))]
<1>1. IsFiniteSet(K)
  BY ExecutorFacts
<1>2. ASSUME NEW e \in K
      PROVE  one[e] \in Nat /\ in[e] \in Int /\ out[e] \in Int /\ in[e] <= 4 * one[e] + out[e]
  <2>1. Stats!Own(Compiled, e) \in SUBSET Compiled
    BY ExecutorFacts
  <2>2. in[e] \in Nat /\ out[e] \in Nat
    BY <2>1, SavingsFacts
  <2>3. one[e] = Stats!TokensOf(Stats!AtLeast0(in[e] - out[e]))
    BY ShareFacts
  <2> HIDE DEF one, in, out, K
  <2>4. /\ Stats!TokensOf(Stats!AtLeast0(in[e] - out[e])) \in Nat
        /\ in[e] <= 4 * Stats!TokensOf(Stats!AtLeast0(in[e] - out[e])) + out[e]
    BY <2>2, CoveredTokens
  <2> QED
    BY <2>2, <2>3, <2>4
<1>3. Sum(in, K) = Sum(In, Compiled)
  <2>1. \A i \in Compiled : In[i] \in Int
    BY RowFacts
  <2>2. \A e \in Stats!Executors(Compiled) : in[e] = Sum(In, Stats!Own(Compiled, e))
    OBVIOUS
  <2> HIDE DEF in
  <2> QED
    BY <2>1, <2>2, ByExecutor
<1>4. Sum(out, K) = Sum(Out, Compiled)
  <2>1. \A i \in Compiled : Out[i] \in Int
    BY RowFacts
  <2>2. \A e \in Stats!Executors(Compiled) : out[e] = Sum(Out, Stats!Own(Compiled, e))
    OBVIOUS
  <2> HIDE DEF out
  <2> QED
    BY <2>1, <2>2, ByExecutor
<1>5. Sum(one, K) \in Nat /\ Sum(in, K) - Sum(out, K) <= 4 * Sum(one, K)
  <2> HIDE DEF one, in, out, K
  <2> QED
    BY <1>1, <1>2, FourCover
<1>6. /\ Sum(In, Compiled) \in Nat /\ Sum(Out, Compiled) \in Nat
      /\ Stats!Savings(Compiled).saved = Stats!AtLeast0(Sum(In, Compiled) - Sum(Out, Compiled))
  BY SavingsFacts
<1> HIDE DEF in, out, one, K
<1>7. Stats!TokensOf(Stats!Savings(Compiled).saved) <= Sum(one, K)
  BY <1>3, <1>4, <1>5, <1>6, CoveredTokens
<1> QED
  BY <1>7 DEF one, K

LEMMA EligibleFacts ==
  ASSUME StatsInv, NEW S \in SUBSET Compiled
  PROVE  IsFiniteSet(Stats!EligibleTasks(S)) /\ Cardinality(Stats!EligibleTasks(S)) \in Nat
<1> DEFINE f == [i \in S |-> statsEvents[i].task]
<1>1. IsFiniteSet(S)
  BY RowFacts, FS_Subset
<1>2. Stats!EligibleTasks(S) \subseteq {f[i] : i \in S}
  BY DEF Stats!EligibleTasks
<1>3. IsFiniteSet({f[i] : i \in S})
  <2> HIDE DEF f
  <2> QED
    BY <1>1, Image
<1>4. IsFiniteSet(Stats!EligibleTasks(S))
  BY <1>2, <1>3, FS_Subset
<1> QED
  BY <1>4, FS_CardinalityType

\* A task that several executors compiled for is counted by each of them.
LEMMA TasksCovered ==
  ASSUME StatsInv
  PROVE  Cardinality(Stats!EligibleTasks(Compiled)) <= Sum(Share("tasks_processed"), Stats!Executors(Compiled))
<1> DEFINE K == Stats!Executors(Compiled)
           tasks == Share("tasks_processed")
           Those(A) == {i \in Compiled : By[i] \in A}
           Many(S) == Cardinality(Stats!EligibleTasks(S))
           P == {A \in SUBSET K : Many(Those(A)) <= Sum(tasks, A)}
<1>1. IsFiniteSet(K)
  BY ExecutorFacts
<1>2. ASSUME NEW e \in K PROVE tasks[e] \in Nat /\ Many(Stats!Own(Compiled, e)) <= tasks[e]
  <2> DEFINE own == Stats!Own(Compiled, e)
  <2>1. tasks[e] = Cardinality(Stats!EligibleTasks(own)) + Cardinality({i \in own : statsEvents[i].task = None})
    BY ShareFacts
  <2>2. own \in SUBSET Compiled /\ IsFiniteSet(Compiled)
    BY ExecutorFacts, RowFacts
  <2> HIDE DEF own, tasks, K
  <2>3. Cardinality(Stats!EligibleTasks(own)) \in Nat
    BY <2>2, EligibleFacts
  <2>4. Cardinality({i \in own : statsEvents[i].task = None}) \in Nat
    BY <2>2, FS_Subset, FS_CardinalityType
  <2> QED
    BY <2>1, <2>3, <2>4 DEF own
<1>3. Summed(tasks, K)
  <2>1. \A e \in K : tasks[e] \in Int
    BY <1>2
  <2> HIDE DEF tasks, K
  <2> QED
    BY <1>1, <2>1, SumIsSummed
<1>4. ASSUME NEW A \in SUBSET K, \A e \in A : A \ {e} \in P PROVE Many(Those(A)) <= Sum(tasks, A)
  <2>1. CASE A = {}
    <3>1. Stats!EligibleTasks(Those(A)) = {}
      BY <2>1 DEF Stats!EligibleTasks
    <3>2. Many(Those(A)) = 0
      BY <3>1, FS_EmptySet
    <3>3. Sum(tasks, A) = 0
      BY <1>3, <2>1 DEF Summed
    <3> QED
      BY <3>2, <3>3
  <2>2. CASE A # {}
    <3>1. PICK e \in A : TRUE
      BY <2>2
    <3> DEFINE own == Stats!Own(Compiled, e)
               rest == Those(A \ {e})
    <3>2. own = {i \in Compiled : By[i] = e} /\ own \in SUBSET Compiled /\ rest \in SUBSET Compiled
      BY ExecutorFacts
    <3>3. Those(A) = own \cup rest
      BY <3>1, <3>2
    <3>4. Stats!EligibleTasks(own \cup rest) = Stats!EligibleTasks(own) \cup Stats!EligibleTasks(rest)
      BY DEF Stats!EligibleTasks
    <3>5. Many(own) <= tasks[e] /\ tasks[e] \in Nat
      BY <1>2, <3>1
    <3>6. Many(rest) <= Sum(tasks, A \ {e})
      BY <1>4, <3>1
    <3>7. Sum(tasks, A) = tasks[e] + Sum(tasks, A \ {e}) /\ Sum(tasks, A \ {e}) \in Int
      <4>1. A \ {e} \in SUBSET K
        OBVIOUS
      <4> HIDE DEF tasks, K
      <4> QED
        BY <1>3, <3>1, <4>1 DEF Summed
    <3> HIDE DEF own, rest, tasks, K, Those
    <3>8. /\ IsFiniteSet(Stats!EligibleTasks(own)) /\ Cardinality(Stats!EligibleTasks(own)) \in Nat
          /\ IsFiniteSet(Stats!EligibleTasks(rest)) /\ Cardinality(Stats!EligibleTasks(rest)) \in Nat
      BY <3>2, EligibleFacts
    <3>9. Cardinality(Stats!EligibleTasks(own) \cup Stats!EligibleTasks(rest))
          <= Cardinality(Stats!EligibleTasks(own)) + Cardinality(Stats!EligibleTasks(rest))
      <4> DEFINE X == Stats!EligibleTasks(own)  Y == Stats!EligibleTasks(rest)
      <4>1. Cardinality(X \cup Y) = Cardinality(X) + Cardinality(Y) - Cardinality(X \cap Y)
        BY <3>8, FS_Union
      <4>2. Cardinality(X \cap Y) \in Nat
        <5>1. IsFiniteSet(X \cap Y)
          BY <3>8, FS_Intersection
        <5> QED
          BY <5>1, FS_CardinalityType
      <4> HIDE DEF X, Y
      <4>3. Cardinality(X) \in Nat /\ Cardinality(Y) \in Nat
        BY <3>8 DEF X, Y
      <4>4. Cardinality(X \cup Y) <= Cardinality(X) + Cardinality(Y)
        BY <4>1, <4>2, <4>3
      <4> QED
        BY <4>4 DEF X, Y
    <3>10. Many(Those(A)) = Cardinality(Stats!EligibleTasks(own) \cup Stats!EligibleTasks(rest))
      BY <3>3, <3>4
    <3>11. Many(Those(A)) \in Int
      <4>1. own \cup rest \in SUBSET Compiled
        BY <3>2
      <4> QED
        BY <3>3, <4>1, EligibleFacts
    <3> QED
      BY <3>5, <3>6, <3>7, <3>8, <3>9, <3>10, <3>11
  <2> QED
    BY <2>1, <2>2
<1>5. SUBSET K \subseteq P
  <2>1. \A A \in SUBSET K : (\A e \in A : A \ {e} \in P) => A \in P
    BY <1>4
  <2> HIDE DEF P, K
  <2> QED
    BY <1>1, <2>1, PartInduction
<1>6. Many(Those(K)) <= Sum(tasks, K)
  <2>1. K \in P
    BY <1>5
  <2> QED
    BY <2>1
<1>7. Those(K) = Compiled
  BY ExecutorFacts
<1> QED
  BY <1>6, <1>7

LEMMA PartsTrue == StatsInv => Stats!PartsCoverTotal
<1> SUFFICES ASSUME StatsInv PROVE Stats!PartsCoverTotal
  OBVIOUS
<1> DEFINE s == Stats!Summary(Compiled)
           K == Stats!Executors(Compiled)
<1>1. \A field : Stats!SumOf([e \in DOMAIN Stats!by_executor(Compiled) |-> Stats!by_executor(Compiled)[e][field]],
                             DOMAIN Stats!by_executor(Compiled)) = Sum(Share(field), K)
  BY ExecutorFacts, SumOfIsSum DEF Share
<1>2. s.original_chars \in {None, Sum(Share("original_chars"), K)}
  <2>1. Stats!Savings(Compiled).original = Sum(In, Compiled)
    BY SavingsFacts
  <2> QED
    BY <2>1, OriginalAddsUp DEF Stats!Summary, Stats!OrNone
<1>3. Compiled # {} => s.estimated_tokens_saved <= Sum(Share("estimated_tokens_saved"), K)
  BY SavingsCovered DEF Stats!Summary, Stats!OrNone
<1>4. Stats!Cardinality(Stats!EligibleTasks(Compiled)) <= Sum(Share("tasks_processed"), K)
  BY TasksCovered, StatsCardinality
<1> HIDE DEF s, K
<1> QED
  BY <1>1, <1>2, <1>3, <1>4 DEF Stats!PartsCoverTotal, Compiled, s

\* The numbers of the dashboard agree, whatever was recorded: what was not observed has no number, a period is within
\* the whole, and the executors account for the total.
THEOREM NumbersAlwaysAgree == Spec => []NumbersAgree
<1>1. Init => StatsInv
  BY StatsInit
<1>2. StatsInv /\ [Next]_vars => StatsInv'
  <2>1. StatsInv /\ UNCHANGED vars => StatsInv'
    BY DEF vars, statsVars, StatsInv
  <2> QED
    BY <2>1, StatsStep
<1>3. StatsInv => NumbersAgree
  BY AbsenceTrue, PeriodsTrue, PartsTrue DEF NumbersAgree
<1> QED
  BY <1>1, <1>2, <1>3, PTL DEF Spec

-----------------------------------------------------------------------------
(* Evals: what a summary calls VALIDATED. *)

\* A percent of a part is one of the whole.
LEMMA Percent == ASSUME NEW a \in Nat, NEW b \in Nat \ {0}, a <= b PROVE (100 * a) \div b \in 0..100
OBVIOUS

LEMMA PercentAtLeast == ASSUME NEW a \in Nat, NEW b \in Nat \ {0}, (100 * a) \div b >= 98 PROVE 100 * a >= 98 * b
OBVIOUS

\* The pairs that count among the first: whole, real and measured in both lanes.
SoundPair(pair) == /\ ~pair.torn /\ pair.baseline.real /\ pair.mcg.real
                   /\ pair.baseline.measured /\ pair.mcg.measured
Counted(rs, seen) == {n \in 1..seen : SoundPair(rs[n])}
BaselineLane(rs, seen) == [n \in Counted(rs, seen) |-> rs[n].baseline]
McgLane(rs, seen) == [n \in Counted(rs, seen) |-> rs[n].mcg]

LEMMA ComparableCounts ==
  ASSUME EvalTypes
  PROVE  /\ Evals!Comparable = Counted(runs, Len(runs))
         /\ IsFiniteSet(Counted(runs, Len(runs))) /\ Cardinality(Counted(runs, Len(runs))) \in Nat
<1>1. DOMAIN runs = 1..Len(runs) /\ Len(runs) \in Nat
  BY DEF EvalTypes
<1>2. Evals!Comparable = Counted(runs, Len(runs))
  BY <1>1 DEF Evals!Comparable, Evals!comparablePair, Counted, SoundPair
<1>3. Counted(runs, Len(runs)) \subseteq 1..Len(runs) /\ IsFiniteSet(1..Len(runs))
  BY <1>1, FS_Interval DEF Counted
<1> QED
  BY <1>2, <1>3, FS_Subset, FS_CardinalityType

LEMMA RateIsPercent ==
  ASSUME NEW all, IsFiniteSet(all), all # {}, NEW some \in SUBSET all
  PROVE  Evals!Rate(some, all) \in 0..100
<1>1. IsFiniteSet(some) /\ Cardinality(some) <= Cardinality(all) /\ Cardinality(all) # 0
      /\ Cardinality(some) \in Nat /\ Cardinality(all) \in Nat
  BY FS_Subset, FS_EmptySet, FS_CardinalityType
<1>2. (100 * Cardinality(some)) \div Cardinality(all) \in 0..100
  BY <1>1, Percent
<1>3. Evals!Cardinality(some) = Cardinality(some) /\ Evals!Cardinality(all) = Cardinality(all)
  BY DEF Evals!Cardinality, Cardinality
<1> QED
  BY <1>2, <1>3 DEF Evals!Rate

\* What is known of the comparable pairs.
LEMMA AggregateOK ==
  ASSUME EvalTypes
  PROVE  LET all == Evals!aggregatePairedEvaluations IN
         /\ all.dataset_size \in Nat /\ all.dataset_size = Cardinality(Evals!Comparable)
         /\ all.dataset_size # 0 =>
              /\ all.baseline.task_success \in 0..100 /\ all.mcg.task_success \in 0..100
              /\ all.baseline.hallucination_rate \in 0..100 /\ all.mcg.hallucination_rate \in 0..100
<1> DEFINE all == Evals!aggregatePairedEvaluations
           S == Evals!Comparable
<1>3. IsFiniteSet(S) /\ Cardinality(S) \in Nat
  BY ComparableCounts
<1>4. Evals!Cardinality(S) = Cardinality(S) /\ (Cardinality(S) # 0 <=> S # {})
  BY <1>3, FS_EmptySet DEF Evals!Cardinality, Cardinality
<1>5. /\ all.dataset_size = Evals!Cardinality(S)
      /\ all.baseline = Evals!Lane([n \in S |-> runs[n].baseline]) /\ all.mcg = Evals!Lane([n \in S |-> runs[n].mcg])
  BY DEF Evals!aggregatePairedEvaluations
<1>6. ASSUME NEW lanes, DOMAIN lanes = S, S # {}
      PROVE  Evals!Lane(lanes).task_success \in 0..100 /\ Evals!Lane(lanes).hallucination_rate \in 0..100
  <2>1. /\ Evals!Lane(lanes).task_success = Evals!Rate({n \in S : lanes[n].right /\ ~lanes[n].invented}, S)
        /\ Evals!Lane(lanes).hallucination_rate = Evals!Rate({n \in S : lanes[n].invented}, S)
    BY <1>6 DEF Evals!Lane
  <2>2. {n \in S : lanes[n].right /\ ~lanes[n].invented} \in SUBSET S /\ {n \in S : lanes[n].invented} \in SUBSET S
    OBVIOUS
  <2> HIDE DEF S
  <2> QED
    BY <1>3, <1>6, <2>1, <2>2, RateIsPercent
<1> HIDE DEF S, all
<1>7. S # {} => /\ all.baseline.task_success \in 0..100 /\ all.mcg.task_success \in 0..100
                /\ all.baseline.hallucination_rate \in 0..100 /\ all.mcg.hallucination_rate \in 0..100
  BY <1>5, <1>6
<1> QED
  BY <1>3, <1>4, <1>5, <1>7 DEF all, S

\* What trustScore calls VALIDATED.
LEMMA TrustedIsEarned ==
  ASSUME EvalTypes, Evals!trustScore(Evals!aggregatePairedEvaluations) = "VALIDATED"
  PROVE  LET all == Evals!aggregatePairedEvaluations IN
         /\ all.dataset_size >= MIN_DATASET
         /\ all.mcg.task_success >= 98 /\ all.mcg.hallucination_rate <= all.baseline.hallucination_rate
<1> DEFINE all == Evals!aggregatePairedEvaluations
           savings == Evals!qualityPreservingSavings(all.baseline, all.mcg)
<1>1. all.dataset_size \in Nat /\ MIN_DATASET \in Nat
  BY AggregateOK, EvalsAssumption
<1>2. ~ all.dataset_size < MIN_DATASET /\ savings.qualified
  BY DEF Evals!trustScore
<1>3. savings.qualified => all.mcg.task_success >= 98 /\ all.mcg.hallucination_rate <= all.baseline.hallucination_rate
  BY DEF Evals!qualityPreservingSavings
<1> HIDE DEF all, savings
<1> QED
  BY <1>1, <1>2, <1>3 DEF all

\* What is VALIDATED now has been earned by the pairs that count now.
LEMMA EarnedNow ==
  ASSUME EvalTypes, Evals!trustScore(Evals!aggregatePairedEvaluations) = "VALIDATED"
  PROVE  Evals!EarnedBy(BaselineLane(runs, Len(runs)), McgLane(runs, Len(runs)))
<1> DEFINE all == Evals!aggregatePairedEvaluations
           S == Counted(runs, Len(runs))
           B == BaselineLane(runs, Len(runs))
           M == McgLane(runs, Len(runs))
           right == {n \in S : M[n].right /\ ~M[n].invented}
<1>1. DOMAIN B = S /\ DOMAIN M = S
  BY DEF BaselineLane, McgLane
<1>2. all.baseline = Evals!Lane(B) /\ all.mcg = Evals!Lane(M)
  BY ComparableCounts DEF Evals!aggregatePairedEvaluations, BaselineLane, McgLane
<1>3. /\ IsFiniteSet(S) /\ Cardinality(S) \in Nat \ {0} /\ Cardinality(S) >= MIN_DATASET /\ S # {}
      /\ Evals!Cardinality(S) = Cardinality(S)
  <2>1. all.dataset_size = Cardinality(S) /\ all.dataset_size >= MIN_DATASET
    BY AggregateOK, TrustedIsEarned, ComparableCounts
  <2>2. Evals!Cardinality(S) = Cardinality(S)
    BY DEF Evals!Cardinality, Cardinality
  <2> QED
    BY <2>1, <2>2, ComparableCounts, EvalsAssumption, FS_EmptySet
<1>4. Evals!qualityPreservingSavings(all.baseline, all.mcg).qualified
  <2>1. ~ all.dataset_size < MIN_DATASET /\ all.dataset_size # 0
    BY <1>3, AggregateOK, ComparableCounts, EvalsAssumption
  <2> QED
    BY <2>1 DEF Evals!trustScore
<1> HIDE DEF all, S, B, M
<1>5. /\ all.mcg.task_success = Evals!Rate(right, S)
      /\ all.mcg.hallucination_rate = Evals!Rate({n \in S : M[n].invented}, S)
      /\ all.baseline.hallucination_rate = Evals!Rate({n \in S : B[n].invented}, S)
  BY <1>1, <1>2 DEF Evals!Lane
<1>6. 100 * Cardinality(right) >= 98 * Cardinality(S)
  <2>1. all.mcg.task_success >= 98
    BY <1>4 DEF Evals!qualityPreservingSavings
  <2>2. IsFiniteSet(right) /\ Cardinality(right) \in Nat
    BY <1>3, FS_Subset, FS_CardinalityType
  <2>3. Evals!Cardinality(right) = Cardinality(right)
    BY DEF Evals!Cardinality, Cardinality
  <2> HIDE DEF right
  <2>4. Evals!Rate(right, S) = (100 * Cardinality(right)) \div Cardinality(S)
    BY <1>3, <2>3 DEF Evals!Rate
  <2> QED
    BY <1>3, <1>5, <2>1, <2>2, <2>4, PercentAtLeast
<1>7. Evals!Cardinality(right) = Cardinality(right)
  BY DEF Evals!Cardinality, Cardinality
<1>8. /\ all.mcg.context_tokens = Evals!SumOrNone([n \in DOMAIN M |-> M[n].context])
      /\ all.mcg.total_tokens = Evals!SumOrNone([n \in DOMAIN M |-> M[n].total])
      /\ all.baseline.context_tokens = Evals!SumOrNone([n \in DOMAIN B |-> B[n].context])
      /\ all.baseline.total_tokens = Evals!SumOrNone([n \in DOMAIN B |-> B[n].total])
  BY <1>2 DEF Evals!Lane
<1>9. LET saving == Evals!Saving(Evals!Spent(B), Evals!Spent(M)) IN saving # None /\ saving > 0
  BY <1>4, <1>8 DEF Evals!qualityPreservingSavings, Evals!Spent
<1>10. all.mcg.hallucination_rate <= all.baseline.hallucination_rate
  BY <1>4 DEF Evals!qualityPreservingSavings
<1>11. Evals!EarnedBy(B, M)
  BY <1>1, <1>3, <1>5, <1>6, <1>7, <1>9, <1>10 DEF Evals!EarnedBy
<1> QED
  BY <1>11 DEF B, M

\* A VALIDATED summary was earned by the pairs that counted when it was made; pairs are only added.
TrustInv ==
  /\ EvalInv
  /\ summaries \in Seq({summaries[n] : n \in DOMAIN summaries})
  /\ \A n \in DOMAIN summaries : summaries[n].trust = "VALIDATED" =>
       \E seen \in 0..Len(runs) : Evals!EarnedBy(BaselineLane(runs, seen), McgLane(runs, seen))

LEMMA TrustInit == Init => TrustInv
<1> SUFFICES ASSUME Init PROVE TrustInv
  OBVIOUS
<1>1. summaries = << >>
  BY DEF Init, Evals!Init
<1> QED
  BY <1>1, EvalInit DEF TrustInv

\* Pairs are only added, and only a suite that ends adds a summary, of what it has seen.
LEMMA EvalSteps ==
  ASSUME TrustInv, [Next]_vars
  PROVE  /\ \/ runs' = runs
            \/ \E pair \in Pairs : runs' = Append(runs, pair)
         /\ \/ summaries' = summaries
            \/ /\ runs' = runs
               /\ summaries' = Append(summaries, [all |-> Evals!aggregatePairedEvaluations,
                                                  trust |-> Evals!trustScore(Evals!aggregatePairedEvaluations)])
<1>1. CASE UNCHANGED evalsVars
  BY <1>1 DEF evalsVars
<1>2. CASE Evals!Next
  <2>1. PICK s \in Suite : \/ Evals!RunLane(s) \/ Evals!SavePair(s) \/ Evals!Summarize(s) \/ Evals!CrashSuite(s)
                           \/ \E offset \in 0..Len(Dataset), limit \in 1..Len(Dataset) : Evals!runValidationSuite(s, offset, limit)
    BY <1>2 DEF Evals!Next
  <2>2. CASE Evals!RunLane(s)
    BY <2>2 DEF Evals!RunLane
  <2>3. CASE Evals!SavePair(s)
    <3>1. suite[s].at = "save" => Evals!Pair(s, FALSE) \in Pairs
      BY PairIsPair DEF TrustInv
    <3> QED
      BY <2>3, <3>1 DEF Evals!SavePair
  <2>4. CASE Evals!Summarize(s)
    BY <2>4 DEF Evals!Summarize
  <2>5. CASE Evals!CrashSuite(s)
    <3>1. suite[s].at = "save" => Evals!Pair(s, TRUE) \in Pairs
      BY PairIsPair DEF TrustInv
    <3>2. summaries' = summaries
          /\ runs' \in {runs} \cup (IF suite[s].at = "save" THEN {Append(runs, Evals!Pair(s, TRUE))} ELSE {})
      BY <2>5 DEF Evals!CrashSuite
    <3> QED
      BY <3>1, <3>2
  <2>6. CASE \E offset \in 0..Len(Dataset), limit \in 1..Len(Dataset) : Evals!runValidationSuite(s, offset, limit)
    BY <2>6 DEF Evals!runValidationSuite
  <2> QED
    BY <2>1, <2>2, <2>3, <2>4, <2>5, <2>6
<1> QED
  BY <1>1, <1>2 DEF Next, vars

LEMMA CountedStays ==
  ASSUME TrustInv, runs' \in Seq(Pairs), runs' = runs \/ \E pair \in Pairs : runs' = Append(runs, pair), NEW seen \in 0..Len(runs)
  PROVE  /\ seen \in 0..Len(runs')
         /\ BaselineLane(runs', seen) = BaselineLane(runs, seen) /\ McgLane(runs', seen) = McgLane(runs, seen)
<1>1. runs \in Seq(Pairs) /\ Len(runs) \in Nat /\ Len(runs') \in Nat
  BY DEF TrustInv, EvalInv, EvalTypes
<1>2. Len(runs) <= Len(runs') /\ \A n \in 1..Len(runs) : runs'[n] = runs[n]
  BY <1>1
<1>3. seen \in 0..Len(runs') /\ \A n \in 1..seen : runs'[n] = runs[n]
  BY <1>1, <1>2
<1>4. Counted(runs', seen) = Counted(runs, seen)
  BY <1>3 DEF Counted
<1>5. \A n \in Counted(runs, seen) : runs'[n] = runs[n]
  BY <1>3 DEF Counted
<1> QED
  BY <1>3, <1>4, <1>5 DEF BaselineLane, McgLane

LEMMA TrustKept == TrustInv /\ [Next]_vars => TrustInv'
<1> SUFFICES ASSUME TrustInv, [Next]_vars PROVE TrustInv'
  OBVIOUS
<1>1. EvalInv'
  BY EvalKept DEF TrustInv
<1>2. ASSUME NEW n \in DOMAIN summaries, summaries[n].trust = "VALIDATED"
      PROVE  \E seen \in 0..Len(runs') : Evals!EarnedBy(BaselineLane(runs', seen), McgLane(runs', seen))
  <2>1. PICK seen \in 0..Len(runs) : Evals!EarnedBy(BaselineLane(runs, seen), McgLane(runs, seen))
    BY <1>2 DEF TrustInv
  <2>2. /\ seen \in 0..Len(runs')
        /\ BaselineLane(runs', seen) = BaselineLane(runs, seen) /\ McgLane(runs', seen) = McgLane(runs, seen)
    BY <1>1, EvalSteps, CountedStays DEF EvalInv, EvalTypes
  <2> QED
    BY <2>1, <2>2
<1>3. Len(runs) \in Nat
  BY DEF TrustInv, EvalInv, EvalTypes
<1>4. CASE summaries' = summaries
  BY <1>1, <1>2, <1>4 DEF TrustInv
<1>5. CASE runs' = runs /\ summaries' = Append(summaries, [all |-> Evals!aggregatePairedEvaluations,
                                                 trust |-> Evals!trustScore(Evals!aggregatePairedEvaluations)])
  <2> DEFINE all == Evals!aggregatePairedEvaluations
             trust == Evals!trustScore(all)
  <2>1. trust = "VALIDATED" => Evals!EarnedBy(BaselineLane(runs, Len(runs)), McgLane(runs, Len(runs)))
    BY EarnedNow DEF TrustInv, EvalInv
  <2>2. summaries' = Append(summaries, [all |-> all, trust |-> trust])
    BY <1>5
  <2> HIDE DEF all, trust
  <2>3. /\ DOMAIN summaries' = 1..(Len(summaries) + 1) /\ DOMAIN summaries = 1..Len(summaries) /\ Len(summaries) \in Nat
        /\ \A n \in DOMAIN summaries : summaries'[n] = summaries[n]
        /\ summaries'[Len(summaries) + 1] = [all |-> all, trust |-> trust]
        /\ summaries' \in Seq({summaries'[n] : n \in DOMAIN summaries'})
    <3>1. summaries \in Seq({summaries[n] : n \in DOMAIN summaries} \cup {[all |-> all, trust |-> trust]})
      BY DEF TrustInv
    <3>2. DOMAIN summaries' = 1..Len(summaries') /\ Len(summaries') \in Nat
      BY <2>2, <3>1
    <3>3. summaries' \in Seq({summaries'[n] : n \in DOMAIN summaries'})
      BY <2>2, <3>1, <3>2
    <3> QED
      BY <2>2, <3>1, <3>3
  <2>4. ASSUME NEW n \in DOMAIN summaries', summaries'[n].trust = "VALIDATED"
        PROVE  \E seen \in 0..Len(runs') : Evals!EarnedBy(BaselineLane(runs', seen), McgLane(runs', seen))
    <3>1. CASE n \in DOMAIN summaries
      BY <1>2, <2>3, <2>4, <3>1
    <3>2. CASE n = Len(summaries) + 1
      <4>1. trust = "VALIDATED"
        BY <2>3, <2>4, <3>2
      <4>2. Len(runs) \in 0..Len(runs')
        BY <1>3, <1>5
      <4> QED
        BY <1>5, <2>1, <4>1, <4>2
    <3> QED
      BY <2>3, <3>1, <3>2
  <2> QED
    BY <1>1, <1>5, <2>3, <2>4 DEF TrustInv
<1> QED
  BY <1>4, <1>5, EvalSteps

\* The three gates open at the same number of pairs, and what is VALIDATED has lost neither success nor honesty.
LEMMA GatesTrue == ASSUME EvalTypes PROVE Evals!GatesAgree /\ Evals!ValidatedHasNotRegressed
<1> DEFINE all == Evals!aggregatePairedEvaluations
<1>1. all.dataset_size \in Nat /\ MIN_DATASET \in Nat \ {0}
  BY AggregateOK, EvalsAssumption
<1>2. all.dataset_size # 0 => /\ all.baseline.task_success \in 0..100 /\ all.mcg.task_success \in 0..100
                              /\ all.baseline.hallucination_rate \in 0..100 /\ all.mcg.hallucination_rate \in 0..100
  BY AggregateOK
<1>3. Evals!trustScore(all) = "VALIDATED" =>
        all.dataset_size >= MIN_DATASET
        /\ all.mcg.task_success >= 98 /\ all.mcg.hallucination_rate <= all.baseline.hallucination_rate
  BY TrustedIsEarned
<1> HIDE DEF all
<1>4. Evals!trustScore(all) \in {"VALIDATED", "DEGRADED"} <=> all.dataset_size >= MIN_DATASET
  BY <1>1 DEF Evals!trustScore
<1>5. Evals!regressionWatch(all) # {"unvalidated"} <=> all.dataset_size >= MIN_DATASET
  <2>1. CASE all.dataset_size < MIN_DATASET
    BY <1>1, <2>1 DEF Evals!regressionWatch
  <2>2. CASE ~ all.dataset_size < MIN_DATASET
    <3>1. Evals!regressionWatch(all) \subseteq {"task_success", "context_recall", "hallucination_rate", "total_tokens"}
      BY <2>2 DEF Evals!regressionWatch
    <3>2. "unvalidated" \notin Evals!regressionWatch(all)
      BY <3>1
    <3> QED
      BY <1>1, <2>2, <3>2
  <2> QED
    BY <2>1, <2>2
<1>6. Evals!efficiencyScore(all).status \notin {"VALIDATING"} /\ all.dataset_size > 0 <=> all.dataset_size >= MIN_DATASET
  BY <1>1 DEF Evals!efficiencyScore
<1>7. Evals!GatesAgree
  BY <1>4, <1>5, <1>6 DEF Evals!GatesAgree, all
<1>8. ASSUME Evals!trustScore(all) = "VALIDATED"
      PROVE  Evals!regressionWatch(all) \cap {"task_success", "hallucination_rate"} = {}
  <2>1. ~ all.dataset_size < MIN_DATASET /\ all.dataset_size # 0
    BY <1>1, <1>3, <1>8
  <2>2. ~ all.mcg.task_success < all.baseline.task_success - 2
    BY <1>2, <1>3, <1>8, <2>1
  <2>3. ~ all.mcg.hallucination_rate > all.baseline.hallucination_rate
    <3>1. all.baseline.hallucination_rate \in 0..100 /\ all.mcg.hallucination_rate \in 0..100
      BY <1>2, <2>1
    <3>2. all.mcg.hallucination_rate <= all.baseline.hallucination_rate
      BY <1>3, <1>8
    <3>3. \A m, n \in 0..100 : m <= n => ~ m > n
      OBVIOUS
    <3> QED
      BY <3>1, <3>2, <3>3
  <2> QED
    BY <2>1, <2>2, <2>3 DEF Evals!regressionWatch
<1>9. Evals!ValidatedHasNotRegressed
  BY <1>8 DEF Evals!ValidatedHasNotRegressed, all
<1> QED
  BY <1>7, <1>9

\* Whatever the lanes come to and whichever processes die, every VALIDATED summary was earned by the pairs on disk when
\* it was made: at least MIN_DATASET of them, whole, real and measured in both lanes, with 98 of 100 right by mcg, no more
\* made up, and tokens spared; the gates and the regression watch do not contradict it (evals.mjs, scores.mjs).
THEOREM ValidatedIsAlwaysEarned == Spec => []ValidatedIsEarned
<1>1. Init => TrustInv
  BY TrustInit
<1>2. TrustInv /\ [Next]_vars => TrustInv'
  BY TrustKept
<1>3. TrustInv => ValidatedIsEarned
  <2> SUFFICES ASSUME TrustInv PROVE ValidatedIsEarned
    OBVIOUS
  <2>1. Evals!GatesAgree /\ Evals!ValidatedHasNotRegressed
    BY GatesTrue DEF TrustInv, EvalInv
  <2>2. \A seen \in 0..Len(runs) : Counted(runs, seen) = {k \in 1..seen : Evals!Sound(k)}
    BY DEF Counted, SoundPair, Evals!Sound
  <2>3. Evals!ValidatedIsEarned
    BY <2>2 DEF TrustInv, BaselineLane, McgLane, Evals!ValidatedIsEarned
  <2> QED
    BY <2>1, <2>3 DEF ValidatedIsEarned
<1> QED
  BY <1>1, <1>2, <1>3, PTL DEF Spec

-----------------------------------------------------------------------------
(* Routing: no lesser model and no fallback past one that stayed usable. *)

Places == 1..9
ModelId == {Routing!defaultModels[i].id : i \in Places}
QuotaState == {"GREEN", "YELLOW", "RED", "RESERVE", "UNKNOWN"}
Seen == {<< >>} \cup UNION {[A -> QuotaState] : A \in SUBSET Routing!Adapter}
Learned == {<< >>} \cup [ModelId -> Int \cup {None}]
RouteCalls == [at : {"idle", "quotas", "health", "quota", "done"}, req : Requirements \cup {None}, seen : Seen,
               learned : Learned, left : SUBSET Places, target : ModelId \cup {"none", "local", "fallback"}]

ProviderAt(i) == Routing!defaultModels[i].provider

\* A model is tried before all that are left, or its adapter has not been usable all the time.
RouteOK(s, kept) ==
  /\ s.at \in {"quotas", "health", "quota"} => s.learned \in [ModelId -> Int \cup {None}]
  /\ s.at \in {"health", "quota"} =>
       s.left \subseteq Routing!Ranked(s) /\ \A i \in Routing!Ranked(s) \ s.left : ProviderAt(i) \notin kept
  /\ s.at = "quota" => s.left # {}
  /\ s.at = "done" /\ s.target # "local" =>
       \A i \in Routing!Ranked(s) : ProviderAt(i) \in kept =>
         \E k \in Routing!Ranked(s) : (k = i \/ Routing!Before(s, k, i)) /\ Routing!defaultModels[k].id = s.target

RouteInv ==
  /\ routingCall \in [RoutingCall -> RouteCalls] /\ DOMAIN steady = RoutingCall
  /\ samples \in [ObservedModel -> [all : Nat, good : Nat]]
  /\ \A c \in RoutingCall : \A p \in steady[c] : p \in Routing!Adapter /\ Routing!Usable(p)
  /\ \A c \in RoutingCall : RouteOK(routingCall[c], steady[c])

LEMMA RankedPlaces == \A s : Routing!Ranked(s) \subseteq Places /\ \A i \in Routing!Ranked(s) : ProviderAt(i) \in DOMAIN s.seen
<1>1. DOMAIN Routing!defaultModels = Places
  BY DEF Routing!defaultModels, Places
<1> QED
  BY <1>1 DEF Routing!Ranked, Routing!candidates, ProviderAt

LEMMA ModelFacts ==
  \A i \in Places : LET m == Routing!defaultModels[i] IN
    m.id \in ModelId /\ m.reliability \in Int /\ m.cost \in Int /\ m.latency \in Int
<1>1. ASSUME NEW i \in Places PROVE LET m == Routing!defaultModels[i] IN
        m.reliability \in Int /\ m.cost \in Int /\ m.latency \in Int
  <2>1. i = 1 \/ i = 2 \/ i = 3 \/ i = 4 \/ i = 5 \/ i = 6 \/ i = 7 \/ i = 8 \/ i = 9
    BY DEF Places
  <2> QED
    BY <2>1 DEF Routing!defaultModels, Routing!Model
<1> QED
  BY <1>1 DEF ModelId

LEMMA QuotaPointsInt == \A colour, phase : Routing!QuotaPoints(colour, phase) \in -60..15
BY DEF Routing!QuotaPoints

LEMMA ScoreInt ==
  ASSUME NEW s, s.learned \in [ModelId -> Int \cup {None}], NEW i \in Places
  PROVE  Routing!Score(s, i) \in Int
<1> DEFINE m == Routing!defaultModels[i]
<1>1. m.id \in ModelId /\ m.reliability \in Int /\ m.cost \in Int /\ m.latency \in Int
  BY ModelFacts
<1>2. Routing!QuotaPoints(s.seen[m.provider], s.req.phase) \in Int
  BY QuotaPointsInt
<1>3. s.learned[m.id] # None => s.learned[m.id] \in Int
  BY <1>1
<1>4. Routing!Score(s, i) = Routing!scoreModel(m, s.req, s.seen, s.learned)
  BY DEF Routing!Score
<1> HIDE DEF m
<1> QED
  BY <1>1, <1>2, <1>3, <1>4 DEF Routing!scoreModel

\* The scores, with the places, order the models.
HasBest(s, some) ==
  \A T \in SUBSET some : T # {} => \E i \in T : \A k \in T \ {i} : Routing!Before(s, i, k)

LEMMA BestOfOneMore ==
  ASSUME NEW s, \A i \in Places : Routing!Score(s, i) \in Int, NEW some \in SUBSET Places, HasBest(s, some),
         NEW x \in Places
  PROVE  HasBest(s, some \cup {x})
<1> SUFFICES ASSUME NEW T \in SUBSET (some \cup {x}), T # {}
             PROVE  \E i \in T : \A k \in T \ {i} : Routing!Before(s, i, k)
  BY DEF HasBest
<1>1. \A i, k \in Places : i # k => Routing!Before(s, i, k) \/ Routing!Before(s, k, i)
  BY DEF Routing!Before, Places
<1>2. \A i, j, k \in Places : Routing!Before(s, i, j) /\ Routing!Before(s, j, k) => Routing!Before(s, i, k)
  BY DEF Routing!Before, Places
<1>3. CASE T \subseteq some
  BY <1>3 DEF HasBest
<1>4. CASE T \ {x} = {} /\ x \in T
  BY <1>4
<1>5. CASE x \in T /\ T \ {x} # {}
  <2>1. PICK b \in T \ {x} : \A k \in (T \ {x}) \ {b} : Routing!Before(s, b, k)
    BY <1>5 DEF HasBest
  <2>2. CASE Routing!Before(s, b, x)
    BY <2>1, <2>2
  <2>3. CASE Routing!Before(s, x, b)
    <3>1. \A k \in T \ {x} : Routing!Before(s, x, k)
      BY <1>2, <2>1, <2>3
    <3> QED
      BY <1>5, <3>1
  <2> QED
    BY <1>1, <2>1, <2>2, <2>3
<1> QED
  BY <1>3, <1>4, <1>5

LEMMA FirstIsBest ==
  ASSUME NEW s, s.learned \in [ModelId -> Int \cup {None}], s.left \in SUBSET Places, s.left # {}
  PROVE  Routing!First(s) \in s.left /\ \A k \in s.left \ {Routing!First(s)} : Routing!Before(s, Routing!First(s), k)
<1>1. \A i \in Places : Routing!Score(s, i) \in Int
  BY ScoreInt
<1>2. ASSUME NEW n \in 0..8, HasBest(s, 1..n) PROVE HasBest(s, 1..(n + 1))
  <2>1. 1..n \in SUBSET Places /\ n + 1 \in Places
    BY DEF Places
  <2>2. HasBest(s, (1..n) \cup {n + 1})
    BY <1>1, <1>2, <2>1, BestOfOneMore
  <2>3. 1..(n + 1) = (1..n) \cup {n + 1}
    OBVIOUS
  <2> QED
    BY <2>2, <2>3
<1> DEFINE Best(n) == HasBest(s, 1..n)
<1>3. Best(0)
  <2>1. 1..0 = {}
    OBVIOUS
  <2> QED
    BY <2>1 DEF HasBest
<1>4. \A n \in 0..8 : Best(n) => Best(n + 1)
  BY <1>2
<1>5. Best(9)
  <2> HIDE DEF Best
  <2>1. Best(1) /\ Best(2) /\ Best(3)
    BY <1>3, <1>4
  <2>2. Best(4) /\ Best(5) /\ Best(6)
    BY <1>4, <2>1
  <2> QED
    BY <1>4, <2>2
<1>6. HasBest(s, Places)
  BY <1>5 DEF Places
<1>7. \E i \in s.left : \A k \in s.left \ {i} : Routing!Before(s, i, k)
  BY <1>6 DEF HasBest
<1> QED
  BY <1>7 DEF Routing!First

LEMMA RouteInit == Init => RouteInv
<1> SUFFICES ASSUME Init PROVE RouteInv
  OBVIOUS
<1>1. /\ samples = [id \in ObservedModel |-> [all |-> 0, good |-> 0]]
      /\ routingCall = [c \in RoutingCall |-> Routing!Idle] /\ steady = [c \in RoutingCall |-> {}]
  BY DEF Init, Routing!Init
<1>2. Routing!Idle \in RouteCalls /\ Routing!Idle.at = "idle"
  BY DEF Routing!Idle, RouteCalls, Seen, Learned
<1>3. RouteOK(Routing!Idle, {})
  BY <1>2 DEF RouteOK
<1> QED
  BY <1>1, <1>2, <1>3 DEF RouteInv

\* What holds of a call holds when fewer adapters have been usable all the time.
LEMMA FewerSteady == \A s, kept, fewer : RouteOK(s, kept) /\ fewer \subseteq kept => RouteOK(s, fewer)
BY DEF RouteOK

LEMMA RouteMoves ==
  ASSUME RouteInv, NEW c \in RoutingCall, NEW there \in RouteCalls, Routing!Goto(c, there), UNCHANGED steady,
         RouteOK(there, steady[c])
  PROVE  RouteInv'
<1>1. routingCall' = [routingCall EXCEPT ![c] = there] /\ UNCHANGED <<quota, health, samples>>
  BY DEF Routing!Goto
<1>2. routingCall' \in [RoutingCall -> RouteCalls]
  BY <1>1 DEF RouteInv
<1>3. \A d \in RoutingCall : RouteOK(routingCall'[d], steady[d])
  BY <1>1 DEF RouteInv
<1>4. \A d \in RoutingCall : RouteOK(routingCall[d], steady[d])'
  BY <1>3
<1>5. \A p : Routing!Usable(p)' = Routing!Usable(p)
  BY <1>1 DEF Routing!Usable
<1> QED
  BY <1>1, <1>2, <1>4, <1>5 DEF RouteInv

LEMMA ProvidersKept ==
  ASSUME RouteInv, Routing!Noted, UNCHANGED <<routingCall, samples>>
  PROVE  RouteInv'
<1>1. /\ DOMAIN steady' = RoutingCall
      /\ \A c \in RoutingCall : steady'[c] \subseteq steady[c] /\ \A p \in steady'[c] : health'[p] /\ Routing!Verified(quota'[p])
  BY DEF Routing!Noted
<1>2. \A c \in RoutingCall : \A p \in steady'[c] : p \in Routing!Adapter /\ Routing!Usable(p)'
  BY <1>1 DEF RouteInv, Routing!Usable, Routing!Verified
<1>3. \A c \in RoutingCall : RouteOK(routingCall[c], steady'[c])
  BY <1>1, FewerSteady DEF RouteInv
<1> QED
  BY <1>1, <1>2, <1>3 DEF RouteInv

LEMMA ObservedKept ==
  ASSUME RouteInv, NEW id \in ObservedModel, Routing!record(id) PROVE RouteInv'
<1>1. PICK good \in {0, 1} : samples' = [samples EXCEPT ![id] = [all |-> @.all + 1, good |-> @.good + good]]
  BY DEF Routing!record
<1>2. UNCHANGED <<quota, health, routingCall, steady>>
  BY DEF Routing!record
<1>3. [all |-> samples[id].all + 1, good |-> samples[id].good + good] \in [all : Nat, good : Nat]
  BY DEF RouteInv
<1>4. samples' \in [ObservedModel -> [all : Nat, good : Nat]]
  BY <1>1, <1>3 DEF RouteInv
<1>5. \A p : Routing!Usable(p)' = Routing!Usable(p)
  BY <1>2 DEF Routing!Usable
<1> QED
  BY <1>2, <1>4, <1>5 DEF RouteInv

LEMMA LearnedInt == RouteInv => \A id : Routing!historicalSuccess(id) \in Int \cup {None}
<1> SUFFICES ASSUME RouteInv, NEW id, id \in ObservedModel /\ samples[id].all >= MinSamples
             PROVE  (100 * samples[id].good) \div samples[id].all \in Int
  BY DEF Routing!historicalSuccess
<1>1. samples[id].all \in Nat \ {0} /\ samples[id].good \in Nat
  BY RoutingAssumption DEF RouteInv
<1>2. \A m \in Nat, n \in Nat \ {0} : (100 * m) \div n \in Int
  OBVIOUS
<1> QED
  BY <1>1, <1>2

LEMMA RouteBegun ==
  ASSUME RouteInv, NEW c \in RoutingCall, NEW req \in Requirements, Routing!route(c, req) PROVE RouteInv'
<1>1. CASE req.capability \cap {"windows", "linux", "gpu"} # {}
  <2> DEFINE there == [Routing!Idle EXCEPT !.at = "done", !.req = req, !.target = "local"]
  <2>1. there \in RouteCalls /\ there.at = "done" /\ there.target = "local"
    BY DEF Routing!Idle, RouteCalls, Seen, Learned
  <2>2. Routing!Goto(c, there) /\ UNCHANGED steady
    BY <1>1 DEF Routing!route
  <2> HIDE DEF there
  <2>3. RouteOK(there, steady[c])
    BY <2>1 DEF RouteOK
  <2> QED
    BY <2>1, <2>2, <2>3, RouteMoves
<1>2. CASE req.capability \cap {"windows", "linux", "gpu"} = {}
  <2> DEFINE ids == {Routing!defaultModels[i].id : i \in DOMAIN Routing!defaultModels}
             rates == [id \in ids |-> IF req.learned THEN Routing!historicalSuccess(id) ELSE None]
             there == [Routing!Idle EXCEPT !.at = "quotas", !.req = req, !.learned = rates]
             begun == {p \in Routing!Asked(req) : Routing!Usable(p)}
  <2>1. rates \in [ModelId -> Int \cup {None}]
    <3>1. DOMAIN Routing!defaultModels = Places
      BY DEF Routing!defaultModels, Places
    <3>2. ids = ModelId
      BY <3>1 DEF ModelId
    <3> QED
      BY <3>2, LearnedInt
  <2> HIDE DEF rates
  <2>2. there \in RouteCalls /\ there.at = "quotas" /\ there.learned = rates
    BY <2>1 DEF Routing!Idle, RouteCalls, Seen, Learned
  <2>3. Routing!Goto(c, there) /\ steady' = [steady EXCEPT ![c] = begun]
    BY <1>2 DEF Routing!route, rates
  <2> HIDE DEF there, begun
  <2>4. RouteOK(there, begun)
    BY <2>1, <2>2 DEF RouteOK
  <2>5. routingCall' = [routingCall EXCEPT ![c] = there] /\ UNCHANGED <<quota, health, samples>>
    BY <2>3 DEF Routing!Goto
  <2>6. \A p : Routing!Usable(p)' = Routing!Usable(p)
    BY <2>5 DEF Routing!Usable
  <2>7. \A d \in RoutingCall : RouteOK(routingCall'[d], steady'[d])
    BY <2>3, <2>4, <2>5 DEF RouteInv
  <2>8. \A d \in RoutingCall : \A p \in steady'[d] : p \in Routing!Adapter /\ Routing!Usable(p)
    BY <2>3 DEF RouteInv, begun, Routing!Asked
  <2>9. routingCall' \in [RoutingCall -> RouteCalls] /\ DOMAIN steady' = RoutingCall
    BY <2>2, <2>3, <2>5 DEF RouteInv
  <2> QED
    BY <2>5, <2>6, <2>7, <2>8, <2>9 DEF RouteInv
<1> QED
  BY <1>1, <1>2

LEMMA QuotaStates == \A q : Routing!quotaState(q) \in QuotaState
BY DEF Routing!quotaState, QuotaState

LEMMA QuotaRead ==
  ASSUME RouteInv, NEW c \in RoutingCall, NEW p \in Routing!Adapter, Routing!ReadQuota(c, p) PROVE RouteInv'
<1> DEFINE s == routingCall[c]
<1>1. s \in RouteCalls /\ s.at = "quotas" /\ s.seen \in Seen /\ s.learned \in [ModelId -> Int \cup {None}]
  BY DEF RouteInv, RouteOK, RouteCalls, Routing!ReadQuota
<1>2. PICK colour \in {Routing!quotaState(quota[p]), "UNKNOWN"} :
        Routing!Goto(c, [routingCall[c] EXCEPT !.seen = [a \in {p} \cup DOMAIN @ |-> IF a = p THEN colour ELSE @[a]]])
  BY DEF Routing!ReadQuota
<1> DEFINE now == [a \in {p} \cup DOMAIN s.seen |-> IF a = p THEN colour ELSE s.seen[a]]
           there == [s EXCEPT !.seen = now]
<1>3. colour \in QuotaState
  BY QuotaStates DEF QuotaState
<1>4. now \in Seen
  <2>1. CASE s.seen = << >>
    <3>1. DOMAIN s.seen = {}
      BY <2>1
    <3>2. now \in [{p} -> QuotaState] /\ {p} \in SUBSET Routing!Adapter
      BY <1>3, <3>1
    <3> QED
      BY <3>2 DEF Seen
  <2>2. CASE s.seen # << >>
    <3>1. PICK A \in SUBSET Routing!Adapter : s.seen \in [A -> QuotaState]
      BY <1>1, <2>2 DEF Seen
    <3>2. now \in [{p} \cup A -> QuotaState] /\ {p} \cup A \in SUBSET Routing!Adapter
      BY <1>3, <3>1
    <3> QED
      BY <3>2 DEF Seen
  <2> QED
    BY <2>1, <2>2
<1> HIDE DEF now
<1>5. there \in RouteCalls /\ there.at = "quotas" /\ there.learned = s.learned
  BY <1>1, <1>4 DEF RouteCalls
<1>6. Routing!Goto(c, there) /\ UNCHANGED steady
  BY <1>2 DEF now, Routing!ReadQuota
<1> HIDE DEF there
<1>7. RouteOK(there, steady[c])
  BY <1>1, <1>5 DEF RouteOK
<1> QED
  BY <1>5, <1>6, <1>7, RouteMoves

LEMMA RankKept ==
  ASSUME RouteInv, NEW c \in RoutingCall, Routing!Rank(c) PROVE RouteInv'
<1> DEFINE s == routingCall[c]
           there == [s EXCEPT !.at = "health", !.left = Routing!Ranked(s)]
<1>1. s \in RouteCalls /\ s.at = "quotas" /\ s.learned \in [ModelId -> Int \cup {None}]
  BY DEF RouteInv, RouteOK, Routing!Rank
<1>2. Routing!Ranked(s) \in SUBSET Places
  BY RankedPlaces
<1>3. there \in RouteCalls /\ there.at = "health" /\ there.learned = s.learned /\ there.left = Routing!Ranked(s)
      /\ there.req = s.req /\ there.seen = s.seen
  BY <1>1, <1>2 DEF RouteCalls
<1>4. Routing!Goto(c, there) /\ UNCHANGED steady
  BY DEF Routing!Rank
<1> HIDE DEF there, s
<1>5. Routing!Ranked(there) = Routing!Ranked(s)
  BY <1>3 DEF Routing!Ranked
<1>6. RouteOK(there, steady[c])
  BY <1>1, <1>3, <1>5 DEF RouteOK
<1> QED
  BY <1>3, <1>4, <1>6, RouteMoves

\* The call that looks has the first of the models left in hand.
LEMMA InHand ==
  ASSUME RouteInv, NEW c \in RoutingCall, routingCall[c].at \in {"health", "quota"}, routingCall[c].left # {}
  PROVE  LET s == routingCall[c] IN
         /\ s \in RouteCalls /\ s.left \subseteq Routing!Ranked(s) /\ Routing!First(s) \in s.left
         /\ \A k \in s.left \ {Routing!First(s)} : Routing!Before(s, Routing!First(s), k)
         /\ Routing!Provider(c) = ProviderAt(Routing!First(s))
         /\ Routing!defaultModels[Routing!First(s)].id \in ModelId
<1>1. LET s == routingCall[c] IN
        /\ s \in RouteCalls /\ s.left \subseteq Routing!Ranked(s) /\ s.learned \in [ModelId -> Int \cup {None}]
  BY DEF RouteInv, RouteOK
<1>2. routingCall[c].left \in SUBSET Places
  BY <1>1 DEF RouteCalls
<1>3. Routing!First(routingCall[c]) \in routingCall[c].left
      /\ \A k \in routingCall[c].left \ {Routing!First(routingCall[c])} : Routing!Before(routingCall[c], Routing!First(routingCall[c]), k)
  BY <1>1, <1>2, FirstIsBest
<1>4. Routing!Provider(c) = ProviderAt(Routing!First(routingCall[c]))
  BY DEF Routing!Provider, ProviderAt
<1>5. Routing!defaultModels[Routing!First(routingCall[c])].id \in ModelId
  BY <1>2, <1>3, ModelFacts
<1> QED
  BY <1>1, <1>3, <1>4, <1>5

\* A model is passed by only when its adapter is found not to be usable.
LEMMA PassedBy ==
  ASSUME RouteInv, NEW c \in RoutingCall, routingCall[c].at \in {"health", "quota"}, routingCall[c].left # {},
         ~ Routing!Usable(Routing!Provider(c)), Routing!NextModel(c), UNCHANGED steady
  PROVE  RouteInv'
<1> DEFINE s == routingCall[c]
           f == Routing!First(s)
           there == [s EXCEPT !.at = "health", !.left = @ \ {f}]
<1>1. /\ s \in RouteCalls /\ s.left \subseteq Routing!Ranked(s) /\ f \in s.left
      /\ Routing!Provider(c) = ProviderAt(f)
  BY InHand
<1>2. s.learned \in [ModelId -> Int \cup {None}] /\ \A i \in Routing!Ranked(s) \ s.left : ProviderAt(i) \notin steady[c]
  BY DEF RouteInv, RouteOK
<1>3. ProviderAt(f) \notin steady[c]
  BY <1>1 DEF RouteInv
<1>4. Routing!Goto(c, there)
  BY DEF Routing!NextModel
<1> HIDE DEF f
<1>5. there \in RouteCalls /\ there.at = "health" /\ there.learned = s.learned /\ there.left = s.left \ {f}
      /\ there.req = s.req /\ there.seen = s.seen
  BY <1>1 DEF RouteCalls
<1> HIDE DEF there, s
<1>6. Routing!Ranked(there) = Routing!Ranked(s)
  BY <1>5 DEF Routing!Ranked
<1>7. RouteOK(there, steady[c])
  BY <1>1, <1>2, <1>3, <1>5, <1>6 DEF RouteOK
<1> QED
  BY <1>4, <1>5, <1>7, RouteMoves

LEMMA HealthKept ==
  ASSUME RouteInv, NEW c \in RoutingCall, Routing!CheckHealth(c) PROVE RouteInv'
<1> DEFINE s == routingCall[c]
<1>1. s.at = "health" /\ s.left # {} /\ UNCHANGED steady
  BY DEF Routing!CheckHealth
<1>2. CASE health[Routing!Provider(c)]
  <2> DEFINE there == [s EXCEPT !.at = "quota"]
  <2>1. s \in RouteCalls /\ RouteOK(s, steady[c])
    BY DEF RouteInv
  <2>2. there \in RouteCalls /\ there.at = "quota" /\ there.learned = s.learned /\ there.left = s.left
        /\ there.req = s.req /\ there.seen = s.seen
    BY <2>1 DEF RouteCalls
  <2>3. Routing!Goto(c, there)
    BY <1>2 DEF Routing!CheckHealth
  <2> HIDE DEF there, s
  <2>4. Routing!Ranked(there) = Routing!Ranked(s)
    BY <2>2 DEF Routing!Ranked
  <2>5. RouteOK(there, steady[c])
    BY <1>1, <2>1, <2>2, <2>4 DEF RouteOK
  <2> QED
    BY <1>1, <2>2, <2>3, <2>5, RouteMoves
<1>3. CASE ~ health[Routing!Provider(c)]
  <2>1. Routing!NextModel(c) /\ ~ Routing!Usable(Routing!Provider(c))
    BY <1>3 DEF Routing!CheckHealth, Routing!Usable
  <2> QED
    BY <1>1, <2>1, PassedBy
<1> QED
  BY <1>2, <1>3

LEMMA QuotaKept ==
  ASSUME RouteInv, NEW c \in RoutingCall, Routing!CheckQuota(c) PROVE RouteInv'
<1> DEFINE s == routingCall[c]
           f == Routing!First(s)
<1>1. s.at = "quota" /\ UNCHANGED steady /\ RouteOK(s, steady[c])
  BY DEF Routing!CheckQuota, RouteInv
<1>2. s.left # {}
  BY <1>1 DEF RouteOK
<1>3. CASE Routing!Verified(quota[Routing!Provider(c)])
  <2> DEFINE there == [s EXCEPT !.at = "done", !.target = Routing!defaultModels[f].id]
  <2>1. /\ s \in RouteCalls /\ s.left \subseteq Routing!Ranked(s) /\ f \in s.left
        /\ \A k \in s.left \ {f} : Routing!Before(s, f, k)
        /\ Routing!defaultModels[f].id \in ModelId
    BY <1>1, <1>2, InHand
  <2>2. Routing!Goto(c, there)
    BY <1>3 DEF Routing!CheckQuota, Routing!Take
  <2> HIDE DEF f
  <2>3. there \in RouteCalls /\ there.at = "done" /\ there.target = Routing!defaultModels[f].id
        /\ there.learned = s.learned /\ there.req = s.req /\ there.seen = s.seen
    BY <2>1 DEF RouteCalls
  <2> HIDE DEF there, s
  <2>4. Routing!Ranked(there) = Routing!Ranked(s)
    BY <2>3 DEF Routing!Ranked
  <2>5. \A i, k : Routing!Before(there, i, k) <=> Routing!Before(s, i, k)
    BY <2>3 DEF Routing!Before, Routing!Score
  <2>6. ASSUME NEW i \in Routing!Ranked(s), ProviderAt(i) \in steady[c]
        PROVE  i = f \/ Routing!Before(s, f, i)
    BY <1>1, <2>1, <2>6 DEF RouteOK
  <2>7. RouteOK(there, steady[c])
    BY <2>1, <2>3, <2>4, <2>5, <2>6 DEF RouteOK
  <2> QED
    BY <1>1, <2>2, <2>3, <2>7, RouteMoves
<1>4. CASE ~ Routing!Verified(quota[Routing!Provider(c)])
  <2>1. Routing!NextModel(c) /\ ~ Routing!Usable(Routing!Provider(c))
    BY <1>4 DEF Routing!CheckQuota, Routing!Usable
  <2> QED
    BY <1>1, <1>2, <2>1, PassedBy
<1> QED
  BY <1>3, <1>4

LEMMA FallbackKept ==
  ASSUME RouteInv, NEW c \in RoutingCall, Routing!Fallback(c) PROVE RouteInv'
<1> DEFINE s == routingCall[c]
           there == [s EXCEPT !.at = "done", !.target = "fallback"]
<1>1. s.at = "health" /\ s.left = {} /\ UNCHANGED steady /\ Routing!Goto(c, there)
  BY DEF Routing!Fallback
<1>2. s \in RouteCalls /\ RouteOK(s, steady[c])
  BY DEF RouteInv
<1>3. there \in RouteCalls /\ there.at = "done" /\ there.req = s.req /\ there.seen = s.seen
  BY <1>2 DEF RouteCalls
<1> HIDE DEF there, s
<1>4. Routing!Ranked(there) = Routing!Ranked(s)
  BY <1>3 DEF Routing!Ranked
<1>5. RouteOK(there, steady[c])
  BY <1>1, <1>2, <1>3, <1>4 DEF RouteOK
<1> QED
  BY <1>1, <1>3, <1>5, RouteMoves

LEMMA RouteKept == RouteInv /\ [Next]_vars => RouteInv'
<1> SUFFICES ASSUME RouteInv, [Next]_vars PROVE RouteInv'
  OBVIOUS
<1>1. CASE UNCHANGED routingVars
  <2>1. UNCHANGED <<quota, health, samples, routingCall, steady>>
    BY <1>1 DEF routingVars
  <2>2. \A p : Routing!Usable(p)' = Routing!Usable(p)
    BY <2>1 DEF Routing!Usable
  <2> QED
    BY <2>1, <2>2 DEF RouteInv
<1>2. CASE Routing!Next
  <2>1. ASSUME NEW p \in Routing!Adapter, Routing!ChangeQuota(p) \/ Routing!ChangeHealth(p) PROVE RouteInv'
    <3>1. Routing!Noted /\ UNCHANGED <<routingCall, samples>>
      BY <2>1 DEF Routing!ChangeQuota, Routing!ChangeHealth
    <3> QED
      BY <3>1, ProvidersKept
  <2>2. ASSUME NEW id \in ObservedModel, Routing!record(id) PROVE RouteInv'
    BY <2>2, ObservedKept
  <2>3. ASSUME NEW c \in RoutingCall,
               \/ Routing!Rank(c) \/ Routing!CheckHealth(c) \/ Routing!CheckQuota(c) \/ Routing!Fallback(c)
               \/ \E p \in Routing!Adapter : Routing!ReadQuota(c, p)
               \/ \E req \in Requirements : Routing!route(c, req)
        PROVE  RouteInv'
    BY <2>3, RankKept, HealthKept, QuotaKept, FallbackKept, QuotaRead, RouteBegun
  <2> QED
    BY <1>2, <2>1, <2>2, <2>3 DEF Routing!Next
<1> QED
  BY <1>1, <1>2 DEF Next, vars

-----------------------------------------------------------------------------
(* The points of the models, when nothing has been learned. *)

\* What the quota takes and gives, by the phase.
LEMMA Points == \A colour, phase :
  /\ phase # "execute" => Routing!QuotaPoints(colour, phase) \in -15..15
  /\ colour # "RESERVE" => Routing!QuotaPoints(colour, phase) \in -15..15
  /\ colour = "RESERVE" /\ phase = "execute" => Routing!QuotaPoints(colour, phase) = -60
BY DEF Routing!QuotaPoints

\* The points of a model but for what its quota and its capabilities add.
Base(m, phase) == m.reliability + (IF phase # "execute" /\ m.tier = 3 THEN 35 ELSE 0)
                  - (IF phase = "execute" THEN 3 ELSE 1) * m.cost - m.latency

LEMMA PlainScore ==
  ASSUME NEW s, s.learned \in [ModelId -> Int \cup {None}], \A id \in DOMAIN s.learned : s.learned[id] = None,
         NEW i \in Places
  PROVE  LET m == Routing!defaultModels[i] IN
         Routing!Score(s, i) = Base(m, s.req.phase) + Routing!QuotaPoints(s.seen[m.provider], s.req.phase)
                               + (IF s.req.capability \cap m.preferred # {} THEN 8 ELSE 0)
<1> DEFINE m == Routing!defaultModels[i]
<1>1. m.id \in ModelId /\ m.reliability \in Int /\ m.cost \in Int /\ m.latency \in Int
  BY ModelFacts
<1>2. s.learned[m.id] = None
  BY <1>1
<1>3. Routing!Score(s, i) = Routing!scoreModel(m, s.req, s.seen, s.learned)
  BY DEF Routing!Score
<1> HIDE DEF m
<1>4. Routing!Score(s, i) = Base(m, s.req.phase) + Routing!QuotaPoints(s.seen[m.provider], s.req.phase)
                            + (IF s.req.capability \cap m.preferred # {} THEN 8 ELSE 0)
  BY <1>1, <1>2, <1>3, QuotaPointsInt DEF Routing!scoreModel, Base
<1> QED
  BY <1>4 DEF m

\* Only three providers have adapters.
LEMMA AskedPlaces ==
  ASSUME NEW s, s.seen \in Seen, NEW i \in Routing!Ranked(s) PROVE i \in {1, 2, 3, 4, 6}
<1>1. DOMAIN s.seen \subseteq Routing!Adapter
  <2>1. CASE s.seen = << >>
    BY <2>1
  <2>2. CASE s.seen # << >>
    <3>1. PICK A \in SUBSET Routing!Adapter : s.seen \in [A -> QuotaState]
      BY <2>2 DEF Seen
    <3> QED
      BY <3>1
  <2> QED
    BY <2>1, <2>2
<1>2. i \in Places /\ ProviderAt(i) \in Routing!Adapter
  BY <1>1, RankedPlaces
<1>3. ASSUME i \in {5, 7, 8, 9} PROVE FALSE
  <2>1. ProviderAt(i) = "gateway"
    BY <1>3 DEF ProviderAt, Routing!defaultModels, Routing!Model
  <2> QED
    BY <1>2, <2>1 DEF Routing!Adapter
<1> QED
  BY <1>2, <1>3 DEF Places

LEMMA Models ==
  /\ \A phase : phase # "execute" =>
       /\ Base(Routing!defaultModels[1], phase) = 117 /\ Base(Routing!defaultModels[2], phase) = 86
       /\ Base(Routing!defaultModels[3], phase) = 118 /\ Base(Routing!defaultModels[4], phase) = 87
       /\ Base(Routing!defaultModels[6], phase) = 118
  /\ \A i \in {1, 2, 3, 4, 6} : Base(Routing!defaultModels[i], "execute") \in 62..82
  /\ Routing!defaultModels[2].tier = 1 /\ Routing!defaultModels[4].tier = 2
  /\ \A i \in {1, 3, 6} : Routing!defaultModels[i].tier = 3
  /\ \A i \in {2, 3, 4} : ProviderAt(i) = "codex"
  /\ Routing!defaultModels[1].capabilities \cap Routing!defaultModels[2].preferred = {}
  /\ Routing!defaultModels[1].capabilities \cap Routing!defaultModels[4].preferred = {}
  /\ Routing!defaultModels[6].capabilities \cap Routing!defaultModels[2].preferred = {}
  /\ Routing!defaultModels[6].capabilities \cap Routing!defaultModels[4].preferred = {}
<1>1. ASSUME NEW phase, phase # "execute" PROVE
        /\ Base(Routing!defaultModels[1], phase) = 117 /\ Base(Routing!defaultModels[2], phase) = 86
        /\ Base(Routing!defaultModels[3], phase) = 118 /\ Base(Routing!defaultModels[4], phase) = 87
        /\ Base(Routing!defaultModels[6], phase) = 118
  BY <1>1 DEF Base, Routing!defaultModels, Routing!Model
<1>2. \A i \in {1, 2, 3, 4, 6} : Base(Routing!defaultModels[i], "execute") \in 62..82
  BY DEF Base, Routing!defaultModels, Routing!Model
<1>3. /\ Routing!defaultModels[2].tier = 1 /\ Routing!defaultModels[4].tier = 2
      /\ \A i \in {1, 3, 6} : Routing!defaultModels[i].tier = 3
      /\ \A i \in {2, 3, 4} : ProviderAt(i) = "codex"
  BY DEF ProviderAt, Routing!defaultModels, Routing!Model
<1>4. /\ Routing!defaultModels[1].capabilities = {"strategy", "planning", "architecture", "review"}
      /\ Routing!defaultModels[6].capabilities = {"research", "browser", "planning", "vision", "review"}
      /\ Routing!defaultModels[2].preferred = {"coding", "tests"} /\ Routing!defaultModels[4].preferred = {"coding"}
  BY DEF Routing!defaultModels, Routing!Model
<1>5. /\ Routing!defaultModels[1].capabilities \cap Routing!defaultModels[2].preferred = {}
      /\ Routing!defaultModels[1].capabilities \cap Routing!defaultModels[4].preferred = {}
      /\ Routing!defaultModels[6].capabilities \cap Routing!defaultModels[2].preferred = {}
      /\ Routing!defaultModels[6].capabilities \cap Routing!defaultModels[4].preferred = {}
  BY <1>4
<1> QED
  BY <1>1, <1>2, <1>3, <1>5

LEMMA FrontierTrue == RouteInv => Routing!FrontierFirst
<1> SUFFICES ASSUME RouteInv, NEW c \in RoutingCall, Routing!Plain(c), routingCall[c].req.phase # "execute",
                    NEW i \in routingCall[c].left, NEW k \in routingCall[c].left,
                    Routing!defaultModels[i].tier = 3, Routing!defaultModels[k].tier # 3
             PROVE  Routing!Before(routingCall[c], i, k)
  BY DEF Routing!FrontierFirst
<1> DEFINE s == routingCall[c]
           q(n) == Routing!QuotaPoints(s.seen[ProviderAt(n)], s.req.phase)
           more(n) == IF s.req.capability \cap Routing!defaultModels[n].preferred # {} THEN 8 ELSE 0
<1>1. /\ s \in RouteCalls /\ i \in Routing!Ranked(s) /\ k \in Routing!Ranked(s)
      /\ s.learned \in [ModelId -> Int \cup {None}] /\ \A id \in DOMAIN s.learned : s.learned[id] = None
  BY DEF Routing!Plain, RouteInv, RouteOK
<1>2. s.seen \in Seen
  BY <1>1 DEF RouteCalls
<1>3. i \in {1, 3, 6} /\ k \in {2, 4}
  BY <1>1, <1>2, AskedPlaces, Models
<1>4. s.req.capability \subseteq Routing!defaultModels[i].capabilities
  BY <1>1 DEF Routing!Ranked, Routing!candidates
<1>5. i \in Places /\ k \in Places
  BY <1>3 DEF Places
<1>6. /\ Routing!Score(s, i) = Base(Routing!defaultModels[i], s.req.phase) + q(i) + more(i)
      /\ Routing!Score(s, k) = Base(Routing!defaultModels[k], s.req.phase) + q(k) + more(k)
  BY <1>1, <1>5, PlainScore DEF ProviderAt
<1>7. q(i) \in -15..15 /\ q(k) \in -15..15 /\ more(i) \in {0, 8} /\ more(k) \in {0, 8}
  BY Points
<1>8. i = 3 => q(i) = q(k)
  BY <1>3, Models
<1>9. i \in {1, 6} => more(k) = 0
  BY <1>3, <1>4, Models
<1>10. /\ i = 1 => Base(Routing!defaultModels[i], s.req.phase) = 117
       /\ i \in {3, 6} => Base(Routing!defaultModels[i], s.req.phase) = 118
       /\ k = 2 => Base(Routing!defaultModels[k], s.req.phase) = 86
       /\ k = 4 => Base(Routing!defaultModels[k], s.req.phase) = 87
  BY Models
<1> HIDE DEF q, more, s
<1>11. Routing!Score(s, i) > Routing!Score(s, k) \/ (Routing!Score(s, i) = Routing!Score(s, k) /\ i < k)
  BY <1>3, <1>6, <1>7, <1>8, <1>9, <1>10
<1> QED
  BY <1>11 DEF Routing!Before, s

LEMMA ReserveTrue == RouteInv => Routing!ReserveIsLastResort
<1> SUFFICES ASSUME RouteInv, NEW c \in RoutingCall, Routing!Plain(c), routingCall[c].req.phase = "execute",
                    NEW i \in routingCall[c].left, NEW k \in routingCall[c].left,
                    routingCall[c].seen[ProviderAt(i)] = "RESERVE", routingCall[c].seen[ProviderAt(k)] # "RESERVE"
             PROVE  Routing!Before(routingCall[c], k, i)
  BY DEF Routing!ReserveIsLastResort, ProviderAt
<1> DEFINE s == routingCall[c]
           q(n) == Routing!QuotaPoints(s.seen[ProviderAt(n)], s.req.phase)
           more(n) == IF s.req.capability \cap Routing!defaultModels[n].preferred # {} THEN 8 ELSE 0
<1>1. /\ s \in RouteCalls /\ i \in Routing!Ranked(s) /\ k \in Routing!Ranked(s)
      /\ s.learned \in [ModelId -> Int \cup {None}] /\ \A id \in DOMAIN s.learned : s.learned[id] = None
  BY DEF Routing!Plain, RouteInv, RouteOK
<1>2. s.seen \in Seen
  BY <1>1 DEF RouteCalls
<1>3. i \in {1, 2, 3, 4, 6} /\ k \in {1, 2, 3, 4, 6}
  BY <1>1, <1>2, AskedPlaces
<1>4. i \in Places /\ k \in Places
  BY <1>3 DEF Places
<1>5. /\ Routing!Score(s, i) = Base(Routing!defaultModels[i], s.req.phase) + q(i) + more(i)
      /\ Routing!Score(s, k) = Base(Routing!defaultModels[k], s.req.phase) + q(k) + more(k)
  BY <1>1, <1>4, PlainScore DEF ProviderAt
<1>6. q(i) = -60 /\ q(k) \in -15..15 /\ more(i) \in {0, 8} /\ more(k) \in {0, 8}
  BY Points
<1>7. Base(Routing!defaultModels[i], s.req.phase) \in 62..82 /\ Base(Routing!defaultModels[k], s.req.phase) \in 62..82
  BY <1>3, Models
<1> HIDE DEF q, more, s
<1>8. Routing!Score(s, k) > Routing!Score(s, i)
  BY <1>5, <1>6, <1>7
<1> QED
  BY <1>8 DEF Routing!Before, s

\* However quotas and health change while a call looks, and whatever the models have been observed to do, it takes no
\* lesser model and no fallback past a model that was usable all the time; frontier models come first where quality
\* counts, and a reserve comes last.
THEOREM RouteAlwaysTakesBest == Spec => []RouteTakesBest
<1>1. Init => RouteInv
  BY RouteInit
<1>2. RouteInv /\ [Next]_vars => RouteInv'
  BY RouteKept
<1>3. RouteInv => RouteTakesBest
  <2> SUFFICES ASSUME RouteInv PROVE RouteTakesBest
    OBVIOUS
  <2>1. Routing!NoNeedlessFallback
    BY DEF RouteInv, RouteOK, ProviderAt, Routing!NoNeedlessFallback
  <2> QED
    BY <2>1, FrontierTrue, ReserveTrue DEF RouteTakesBest
<1> QED
  BY <1>1, <1>2, <1>3, PTL DEF Spec
=============================================================================
