--------------------------------- MODULE SetSums ---------------------------------
(***************************************************************************)
(* Sums over finite sets.  MapThenSumSet of the community modules is a      *)
(* function defined by recursion over the subsets of its set; here is what  *)
(* it computes: that there is such a function, that it does not depend on   *)
(* the order in which the elements are taken, and what adding an element    *)
(* does to it.                                                              *)
(*                                                                          *)
(* A weight is a function, so that everything stays first-order: what would *)
(* be an induction over an operator is one over a set (SubsetInduction).    *)
(***************************************************************************)
EXTENDS FiniteSetTheorems, FiniteSetsExt, WellFoundedInduction, TLAPS

Chosen(s) == CHOOSE x \in s : TRUE

\* g is the function that adds up the weights w over the subsets of S.
SumsUp(w, g, S) ==
  g = [s \in SUBSET S |-> IF s = {} THEN 0 ELSE w[Chosen(s)] + g[s \ {Chosen(s)}]]

Sum(w, S) == (CHOOSE g : SumsUp(w, g, S))[S]

-----------------------------------------------------------------------------

\* A set of natural numbers that is not empty has a least element.
LEMMA LeastElement ==
  ASSUME NEW T \in SUBSET Nat, T # {}
  PROVE  \E n \in T : \A m \in T : n <= m
<1> DEFINE R == OpToRel(<, Nat)
<1>1. \E n \in T : \A m \in T : ~ (<<m, n>> \in R)
  BY NatLessThanWellFounded, WFMin
<1>2. \A m, n \in Nat : (<<m, n>> \in R) <=> m < n
  BY DEF OpToRel
<1> HIDE DEF R
<1>3. PICK n \in T : \A m \in T : ~ (<<m, n>> \in R)
  BY <1>1
<1>4. ASSUME NEW m \in T
      PROVE  n <= m
  <2>1. ~ (<<m, n>> \in R) /\ m \in Nat /\ n \in Nat
    BY <1>3
  <2>2. ~ (m < n)
    BY <1>2, <2>1
  <2> QED BY <2>1, <2>2
<1> QED BY <1>4

\* What is inherited from the proper subsets by a set holds for all subsets of a finite set.
LEMMA SubsetInduction ==
  ASSUME NEW S, IsFiniteSet(S), NEW Good \in SUBSET (SUBSET S),
         \A s \in SUBSET S : (\A t \in SUBSET s : t # s => t \in Good) => s \in Good
  PROVE  Good = SUBSET S
<1> SUFFICES ASSUME Good # SUBSET S
             PROVE  FALSE
  OBVIOUS
<1> DEFINE Bad == (SUBSET S) \ Good
           T == { Cardinality(s) : s \in Bad }
<1>1. \A s \in SUBSET S : IsFiniteSet(s) /\ Cardinality(s) \in Nat
  BY FS_Subset, FS_CardinalityType
<1>2. T \in SUBSET Nat /\ T # {}
  <2>1. Bad # {} /\ \A s \in Bad : Cardinality(s) \in Nat
    BY <1>1
  <2> QED BY <2>1
<1>3. PICK n \in T : \A m \in T : n <= m
  <2> HIDE DEF T
  <2> QED BY <1>2, LeastElement
<1>4. PICK s \in Bad : n = Cardinality(s)
  BY <1>3
<1>5. ASSUME NEW t \in SUBSET s, t # s
      PROVE  t \in Good
  <2>1. Cardinality(t) < Cardinality(s)
    BY <1>1, <1>4, <1>5, FS_Subset
  <2>2. CASE t \in Bad
    <3>1. Cardinality(t) \in T
      BY <2>2
    <3>2. n <= Cardinality(t)
      BY <1>3, <3>1
    <3> QED BY <1>1, <1>4, <2>1, <3>2
  <2> QED BY <1>4, <2>2
<1>6. s \in SUBSET S /\ s \notin Good
  BY <1>4
<1>7. \A t \in SUBSET s : t # s => t \in Good
  BY <1>5
<1> QED BY <1>6, <1>7

\* A set that is not empty has an element to begin with.
LEMMA ChosenIsIn ==
  ASSUME NEW s, s # {}
  PROVE  Chosen(s) \in s
BY DEF Chosen

\* One step of the recursion.
LEMMA StepOfSum ==
  ASSUME NEW w, NEW g, NEW S, SumsUp(w, g, S), NEW s \in SUBSET S
  PROVE  /\ s = {} => g[s] = 0
         /\ s # {} => g[s] = w[Chosen(s)] + g[s \ {Chosen(s)}]
<1>1. g[s] = IF s = {} THEN 0 ELSE w[Chosen(s)] + g[s \ {Chosen(s)}]
  BY Zenon DEF SumsUp
<1> QED BY <1>1

\* Two such functions agree wherever both are defined.
LEMMA SumsAgree ==
  ASSUME NEW w, NEW A, NEW B, NEW g, NEW h, SumsUp(w, g, A), SumsUp(w, h, B),
         NEW S \in SUBSET A, S \in SUBSET B, IsFiniteSet(S)
  PROVE  g[S] = h[S]
<1> DEFINE Good == { s \in SUBSET S : g[s] = h[s] }
<1>1. ASSUME NEW s \in SUBSET S, \A t \in SUBSET s : t # s => t \in Good
      PROVE  s \in Good
  <2>1. s \in SUBSET A /\ s \in SUBSET B
    OBVIOUS
  <2>2. CASE s = {}
    BY <2>1, <2>2, StepOfSum
  <2>3. CASE s # {}
    <3> DEFINE rest == s \ {Chosen(s)}
    <3>1. rest \in Good
      BY <1>1, <2>3, ChosenIsIn
    <3>2. g[s] = w[Chosen(s)] + g[rest] /\ h[s] = w[Chosen(s)] + h[rest]
      BY <2>1, <2>3, StepOfSum
    <3> QED BY <3>1, <3>2
  <2> QED BY <2>2, <2>3
<1>2. Good \in SUBSET (SUBSET S)
  OBVIOUS
<1>3. Good = SUBSET S
  <2> HIDE DEF Good
  <2> QED BY <1>1, <1>2, SubsetInduction
<1> QED BY <1>3

\* There is such a function for every finite set.
LEMMA SumExists ==
  ASSUME NEW w, NEW S, IsFiniteSet(S)
  PROVE  \E g : SumsUp(w, g, S)
<1> DEFINE Good == { s \in SUBSET S : \E g : SumsUp(w, g, s) }
           F == [t \in SUBSET S |-> (CHOOSE g : SumsUp(w, g, t))[t]]
<1>1. ASSUME NEW s \in SUBSET S, \A t \in SUBSET s : t # s => t \in Good
      PROVE  s \in Good
  <2> DEFINE Value(t) == IF t = {} THEN 0 ELSE w[Chosen(t)] + F[t \ {Chosen(t)}]
             g == [t \in SUBSET s |-> Value(t)]
  <2>1. ASSUME NEW t \in SUBSET s, t # s
        PROVE  \E h : SumsUp(w, h, t) /\ F[t] = h[t]
    BY <1>1, <2>1
  <2>2. ASSUME NEW u \in SUBSET s, u # s
        PROVE  F[u] = g[u]
    <3>1. PICK h : SumsUp(w, h, u) /\ F[u] = h[u]
      BY <2>1, <2>2
    <3>2. CASE u = {}
      <4>1. h[u] = 0
        BY <3>1, <3>2, StepOfSum
      <4> QED BY <3>1, <3>2, <4>1
    <3>3. CASE u # {}
      <4> DEFINE v == u \ {Chosen(u)}
      <4>1. v \in SUBSET u /\ v \in SUBSET v /\ v \in SUBSET s /\ v # s
        BY <2>2, <3>3, ChosenIsIn
      <4>2. PICK k : SumsUp(w, k, v) /\ F[v] = k[v]
        BY <2>1, <4>1
      <4>3. IsFiniteSet(v)
        BY <4>1, FS_Subset
      <4>4. h[v] = k[v]
        BY <3>1, <4>1, <4>2, <4>3, SumsAgree
      <4>5. h[u] = w[Chosen(u)] + h[v]
        <5> HIDE DEF F, g, Value
        <5>1. u \in SUBSET u
          OBVIOUS
        <5> QED BY <3>1, <3>3, <5>1, StepOfSum
      <4>6. g[u] = w[Chosen(u)] + F[v]
        BY <3>3
      <4> QED BY <3>1, <4>2, <4>4, <4>5, <4>6
    <3> QED BY <3>2, <3>3
  <2>3. ASSUME NEW t \in SUBSET s
        PROVE  Value(t) = IF t = {} THEN 0 ELSE w[Chosen(t)] + g[t \ {Chosen(t)}]
    <3>1. CASE t = {}
      BY <3>1
    <3>2. CASE t # {}
      <4>1. t \ {Chosen(t)} \in SUBSET s /\ t \ {Chosen(t)} # s
        BY <3>2, ChosenIsIn
      <4>2. F[t \ {Chosen(t)}] = g[t \ {Chosen(t)}]
        BY <2>2, <4>1
      <4> HIDE DEF F, g
      <4> QED BY <3>2, <4>2
    <3> QED BY <3>1, <3>2
  <2>4. SumsUp(w, g, s)
    <3>1. g = [t \in SUBSET s |-> Value(t)]
      OBVIOUS
    <3> HIDE DEF g, Value, F
    <3> QED BY <2>3, <3>1 DEF SumsUp
  <2> QED BY <2>4
<1>2. Good \in SUBSET (SUBSET S)
  OBVIOUS
<1>3. Good = SUBSET S
  <2> HIDE DEF Good
  <2> QED BY <1>1, <1>2, SubsetInduction
<1> QED BY <1>3

\* What Sum is.
LEMMA SumStep ==
  ASSUME NEW w, NEW S, IsFiniteSet(S)
  PROVE  \E g : SumsUp(w, g, S) /\ Sum(w, S) = g[S]
BY SumExists DEF Sum

\* And what it is to any function that adds up the same weights.
LEMMA SumIs ==
  ASSUME NEW w, NEW S, IsFiniteSet(S), NEW A, S \in SUBSET A, NEW g, SumsUp(w, g, A)
  PROVE  Sum(w, S) = g[S]
<1>1. PICK h : SumsUp(w, h, S) /\ Sum(w, S) = h[S]
  BY SumStep
<1>2. S \in SUBSET S
  OBVIOUS
<1> QED BY <1>1, <1>2, SumsAgree

\* Nothing adds up to zero.
LEMMA SumEmpty == \A w : Sum(w, {}) = 0
<1> SUFFICES ASSUME NEW w
             PROVE  Sum(w, {}) = 0
  OBVIOUS
<1>1. PICK g : SumsUp(w, g, {}) /\ Sum(w, {}) = g[{}]
  BY SumStep, FS_EmptySet
<1>2. {} \in SUBSET {}
  OBVIOUS
<1> QED BY <1>1, <1>2, StepOfSum

\* The sum of the chosen element and the rest.
LEMMA SumOfChosen ==
  ASSUME NEW w, NEW S, IsFiniteSet(S), S # {}
  PROVE  Sum(w, S) = w[Chosen(S)] + Sum(w, S \ {Chosen(S)})
<1> DEFINE rest == S \ {Chosen(S)}
<1>1. PICK g : SumsUp(w, g, S) /\ Sum(w, S) = g[S]
  BY SumStep
<1>2. rest \in SUBSET S /\ IsFiniteSet(rest) /\ S \in SUBSET S
  BY FS_Subset
<1>3. Sum(w, rest) = g[rest]
  BY <1>1, <1>2, SumIs
<1> QED BY <1>1, <1>2, <1>3, StepOfSum

\* Weights that are natural numbers on S.
Weighs(w, S) == \A x \in S : w[x] \in Nat

\* The order in which the elements are taken does not matter.
LEMMA SumWithout ==
  ASSUME NEW w, NEW S, IsFiniteSet(S), Weighs(w, S)
  PROVE  /\ Sum(w, S) \in Nat
         /\ \A x \in S : Sum(w, S) = w[x] + Sum(w, S \ {x})
<1> DEFINE Good == { s \in SUBSET S : /\ Sum(w, s) \in Nat
                                      /\ \A x \in s : Sum(w, s) = w[x] + Sum(w, s \ {x}) }
<1>1. ASSUME NEW s \in SUBSET S, \A t \in SUBSET s : t # s => t \in Good
      PROVE  s \in Good
  <2>1. \A t \in SUBSET s : IsFiniteSet(t)
    BY FS_Subset
  <2>2. CASE s = {}
    BY <2>2, SumEmpty
  <2>3. CASE s # {}
    <3> DEFINE c == Chosen(s)
    <3>1. c \in s /\ w[c] \in Nat /\ s \ {c} \in Good
      BY <1>1, <2>3, ChosenIsIn DEF Weighs
    <3>2. Sum(w, s) = w[c] + Sum(w, s \ {c})
      BY <2>1, <2>3, SumOfChosen
    <3>3. ASSUME NEW x \in s
          PROVE  Sum(w, s) = w[x] + Sum(w, s \ {x})
      <4>1. CASE x = c
        BY <3>2, <4>1
      <4>2. CASE x # c
        <5> DEFINE both == (s \ {c}) \ {x}
        <5>1. both = (s \ {x}) \ {c}
          OBVIOUS
        <5>2. s \ {x} \in Good /\ c \in s \ {x} /\ x \in s \ {c} /\ w[x] \in Nat
          BY <1>1, <3>1, <4>2 DEF Weighs
        <5>3. Sum(w, s \ {x}) = w[c] + Sum(w, both)
          BY <5>1, <5>2
        <5>4. Sum(w, s \ {c}) = w[x] + Sum(w, both)
          BY <3>1, <5>2
        <5>5. both \in Good
          BY <1>1, <3>1
        <5>6. Sum(w, both) \in Nat
          BY <5>5
        <5> HIDE DEF Good, both, c
        <5> QED BY <3>1, <3>2, <5>2, <5>3, <5>4, <5>6
      <4> QED BY <4>1, <4>2
    <3>4. Sum(w, s) \in Nat
      <4>1. Sum(w, s \ {c}) \in Nat
        BY <3>1
      <4> HIDE DEF Good, c
      <4> QED BY <3>1, <3>2, <4>1
    <3> QED BY <3>3, <3>4
  <2> QED BY <2>2, <2>3
<1>2. Good \in SUBSET (SUBSET S)
  OBVIOUS
<1>3. Good = SUBSET S
  <2> HIDE DEF Good
  <2> QED BY <1>1, <1>2, SubsetInduction
<1> QED BY <1>3

\* An element more.
LEMMA SumWith ==
  ASSUME NEW w, NEW S, IsFiniteSet(S), NEW x, x \notin S, Weighs(w, S \cup {x})
  PROVE  Sum(w, S \cup {x}) = w[x] + Sum(w, S)
<1>1. (S \cup {x}) \ {x} = S /\ x \in S \cup {x}
  OBVIOUS
<1>2. IsFiniteSet(S \cup {x})
  BY FS_AddElement
<1> QED BY <1>1, <1>2, SumWithout

\* A part weighs no more than the whole, and as much only if it is the whole or what is missing
\* weighs nothing.
LEMMA SumOfPart ==
  ASSUME NEW w, NEW S, IsFiniteSet(S), Weighs(w, S), NEW T \in SUBSET S
  PROVE  /\ Sum(w, T) \in Nat /\ Sum(w, T) <= Sum(w, S)
         /\ \A x \in S \ T : Sum(w, T) + w[x] <= Sum(w, S)
<1> DEFINE Good == { s \in SUBSET S : \A t \in SUBSET s : Sum(w, t) <= Sum(w, s) }
<1>1. \A s \in SUBSET S : IsFiniteSet(s) /\ Weighs(w, s) /\ Sum(w, s) \in Nat
  BY FS_Subset, SumWithout DEF Weighs
<1>2. ASSUME NEW s \in SUBSET S, \A t \in SUBSET s : t # s => t \in Good
      PROVE  s \in Good
  <2> SUFFICES ASSUME NEW t \in SUBSET s
               PROVE  Sum(w, t) <= Sum(w, s)
    OBVIOUS
  <2>1. CASE t = s
    BY <1>1, <2>1
  <2>2. CASE t # s
    <3>1. PICK x \in s : x \notin t
      BY <2>2
    <3>2. s \ {x} \in Good /\ t \in SUBSET (s \ {x})
      BY <1>2, <3>1
    <3>3. Sum(w, t) <= Sum(w, s \ {x})
      BY <3>2
    <3>4. Sum(w, s) = w[x] + Sum(w, s \ {x}) /\ w[x] \in Nat /\ Sum(w, s \ {x}) \in Nat /\ Sum(w, t) \in Nat
      BY <1>1, <3>1, SumWithout DEF Weighs
    <3> HIDE DEF Good
    <3> QED BY <3>3, <3>4
  <2> QED BY <2>1, <2>2
<1>3. Good \in SUBSET (SUBSET S)
  OBVIOUS
<1>4. Good = SUBSET S
  <2> HIDE DEF Good
  <2> QED BY <1>2, <1>3, SubsetInduction
<1>5. Sum(w, T) <= Sum(w, S)
  BY <1>4
<1>6. ASSUME NEW x \in S \ T
      PROVE  Sum(w, T) + w[x] <= Sum(w, S)
  <2>1. T \cup {x} \in SUBSET S /\ S \in Good
    BY <1>4
  <2>2. Sum(w, T \cup {x}) <= Sum(w, S)
    BY <2>1
  <2> HIDE DEF Good
  <2>3. Sum(w, T \cup {x}) = w[x] + Sum(w, T) /\ w[x] \in Nat
    BY <1>1, <2>1, SumWith DEF Weighs
  <2>4. Sum(w, T) \in Nat
    BY <1>1
  <2> QED BY <2>2, <2>3, <2>4
<1> QED BY <1>1, <1>5, <1>6

\* Only the weights of the elements count.
LEMMA SumOfSame ==
  ASSUME NEW w, NEW v, NEW S, IsFiniteSet(S), \A x \in S : w[x] = v[x]
  PROVE  Sum(w, S) = Sum(v, S)
<1> DEFINE Good == { s \in SUBSET S : Sum(w, s) = Sum(v, s) }
<1>1. ASSUME NEW s \in SUBSET S, \A t \in SUBSET s : t # s => t \in Good
      PROVE  s \in Good
  <2>1. CASE s = {}
    BY <2>1, SumEmpty
  <2>2. CASE s # {}
    <3>1. Chosen(s) \in s /\ s \ {Chosen(s)} \in Good /\ IsFiniteSet(s)
      BY <1>1, <2>2, ChosenIsIn, FS_Subset
    <3> QED BY <2>2, <3>1, SumOfChosen
  <2> QED BY <2>1, <2>2
<1>2. Good \in SUBSET (SUBSET S)
  OBVIOUS
<1>3. Good = SUBSET S
  <2> HIDE DEF Good
  <2> QED BY <1>1, <1>2, SubsetInduction
<1> QED BY <1>3

\* A factor common to all weights is one of the sum.
LEMMA SumScaled ==
  ASSUME NEW w, NEW v, NEW k \in Nat, NEW S, IsFiniteSet(S), Weighs(w, S), \A x \in S : v[x] = k * w[x]
  PROVE  Sum(v, S) = k * Sum(w, S)
<1> DEFINE Good == { s \in SUBSET S : Sum(v, s) = k * Sum(w, s) }
<1>1. ASSUME NEW s \in SUBSET S, \A t \in SUBSET s : t # s => t \in Good
      PROVE  s \in Good
  <2>1. CASE s = {}
    BY <2>1, SumEmpty
  <2>2. CASE s # {}
    <3> DEFINE c == Chosen(s)
               rest == s \ {c}
    <3>1. c \in s /\ rest \in Good /\ IsFiniteSet(s) /\ IsFiniteSet(rest) /\ Weighs(w, rest)
      BY <1>1, <2>2, ChosenIsIn, FS_Subset DEF Weighs
    <3>2. Sum(w, s) = w[c] + Sum(w, rest) /\ Sum(v, s) = v[c] + Sum(v, rest)
      BY <2>2, <3>1, SumOfChosen
    <3>3. Sum(v, rest) = k * Sum(w, rest) /\ v[c] = k * w[c] /\ w[c] \in Nat
      BY <3>1 DEF Weighs
    <3>4. Sum(w, rest) \in Nat
      BY <3>1, SumWithout
    <3>5. \A a, b \in Nat : k * (a + b) = k * a + k * b
      OBVIOUS
    <3> HIDE DEF c, rest, Good
    <3>6. Sum(v, s) = k * Sum(w, s)
      BY <3>2, <3>3, <3>4, <3>5
    <3> QED BY <3>6 DEF Good
  <2> QED BY <2>1, <2>2
<1>2. Good \in SUBSET (SUBSET S)
  OBVIOUS
<1>3. Good = SUBSET S
  <2> HIDE DEF Good
  <2> QED BY <1>1, <1>2, SubsetInduction
<1> QED BY <1>3

\* Of two weights, one never above the other, the sums are equal only if the weights are.
LEMMA SumOfLess ==
  ASSUME NEW w, NEW v, NEW S, IsFiniteSet(S), Weighs(w, S), Weighs(v, S),
         \A x \in S : w[x] <= v[x]
  PROVE  /\ Sum(w, S) <= Sum(v, S)
         /\ Sum(w, S) = Sum(v, S) => \A x \in S : w[x] = v[x]
<1> DEFINE Good == { s \in SUBSET S : Sum(w, s) <= Sum(v, s) }
<1>1. \A s \in SUBSET S : /\ IsFiniteSet(s) /\ Weighs(w, s) /\ Weighs(v, s)
                          /\ Sum(w, s) \in Nat /\ Sum(v, s) \in Nat
  BY FS_Subset, SumWithout DEF Weighs
<1>2. ASSUME NEW s \in SUBSET S, \A t \in SUBSET s : t # s => t \in Good
      PROVE  s \in Good
  <2>1. CASE s = {}
    BY <2>1, SumEmpty
  <2>2. CASE s # {}
    <3> DEFINE c == Chosen(s)
               rest == s \ {c}
    <3>1. c \in s /\ rest \in Good /\ rest \in SUBSET S
      BY <1>2, <2>2, ChosenIsIn
    <3>2. Sum(w, s) = w[c] + Sum(w, rest) /\ Sum(v, s) = v[c] + Sum(v, rest)
      BY <1>1, <2>2, SumOfChosen
    <3>3. Sum(w, rest) <= Sum(v, rest) /\ w[c] <= v[c] /\ w[c] \in Nat /\ v[c] \in Nat
      BY <3>1 DEF Weighs
    <3>4. Sum(w, rest) \in Nat /\ Sum(v, rest) \in Nat
      BY <1>1, <3>1
    <3> HIDE DEF c, rest, Good
    <3>5. Sum(w, s) <= Sum(v, s)
      BY <3>2, <3>3, <3>4
    <3> QED BY <3>5 DEF Good
  <2> QED BY <2>1, <2>2
<1>3. Good \in SUBSET (SUBSET S)
  OBVIOUS
<1>4. Good = SUBSET S
  <2> HIDE DEF Good
  <2> QED BY <1>2, <1>3, SubsetInduction
<1>5. Sum(w, S) <= Sum(v, S)
  BY <1>4
<1>6. ASSUME NEW x \in S, Sum(w, S) = Sum(v, S)
      PROVE  w[x] = v[x]
  <2> DEFINE rest == S \ {x}
  <2>1. rest \in Good /\ rest \in SUBSET S
    BY <1>4
  <2>2. Sum(w, rest) <= Sum(v, rest) /\ Sum(w, rest) \in Nat /\ Sum(v, rest) \in Nat
    BY <1>1, <2>1
  <2>3. Sum(w, S) = w[x] + Sum(w, rest) /\ Sum(v, S) = v[x] + Sum(v, rest)
    BY SumWithout
  <2>4. w[x] <= v[x] /\ w[x] \in Nat /\ v[x] \in Nat
    BY DEF Weighs
  <2> HIDE DEF rest, Good
  <2>5. \A a, b, c, d \in Nat : a <= b /\ c <= d /\ a + c = b + d => a = b
    OBVIOUS
  <2>6. w[x] + Sum(w, rest) = v[x] + Sum(v, rest)
    BY <1>6, <2>3
  <2> QED BY <2>2, <2>4, <2>5, <2>6
<1> QED BY <1>5, <1>6
==================================================================================
