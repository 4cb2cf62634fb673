------------------------ MODULE RoutingAlgorithms_proofs ------------------------
(***************************************************************************)
(* Theorems about RoutingAlgorithms, for any finite set of names, any      *)
(* graphs and any order of the edges.  Each algorithm has an invariant of  *)
(* its own; the other two leave its variables alone.                       *)
(***************************************************************************)
EXTENDS RoutingAlgorithms, FiniteSetTheorems, TLAPS

\* The edges and nodes an algorithm works on are those of the graph.
LEMMA EdgesOfGraph ==
    ASSUME NEW g, IsGraph(g), NEW kind
    PROVE  \A e \in getEdges(g, kind) :
              /\ e.from \in getActiveNodes(g, kind) /\ e.to \in getActiveNodes(g, kind)
              /\ e.from \in Ids /\ e.to \in Ids
              /\ e.cost \in Int /\ e.capacity \in Nat
BY DEF getEdges, getActiveNodes, IsGraph

LEMMA NodesOfGraph ==
    ASSUME NEW g, IsGraph(g), NEW kind
    PROVE  /\ getActiveNodes(g, kind) \subseteq Ids
           /\ Cardinality(getActiveNodes(g, kind)) \in Nat
           /\ getActiveNodes(g, kind) # {} => Cardinality(getActiveNodes(g, kind)) >= 1
<1>1. getActiveNodes(g, kind) \subseteq Ids
  BY DEF getActiveNodes, IsGraph
<1>2. IsFiniteSet(getActiveNodes(g, kind))
  BY <1>1, IdsAssumption, FS_Subset
<1>3. Cardinality(getActiveNodes(g, kind)) \in Nat
  BY <1>2, FS_CardinalityType
<1>4. Cardinality(getActiveNodes(g, kind)) = 0 <=> getActiveNodes(g, kind) = {}
  BY <1>2, FS_EmptySet
<1> QED
  BY <1>1, <1>3, <1>4

-----------------------------------------------------------------------------
(* Finite sums: what SumFunctionOnSet does not say, that the terms may be  *)
(* taken in any order, and what follows from it.                           *)

LEMMA LeastNat ==
    ASSUME NEW T \in SUBSET Nat, T # {}
    PROVE  \E n \in T : \A m \in T : n <= m
<1> DEFINE R == {ss \in Nat \X Nat : ss[1] < ss[2]}
<1>1. IsWellFoundedOn(R, Nat)
  BY NatLessThanWellFounded, Zenon DEF OpToRel
<1> HIDE DEF R
<1>2. PICK n \in T : \A m \in T : ~(<<m, n>> \in R)
  BY <1>1, WFMin
<1>3. \A m \in T : ~(m < n)
  BY <1>2 DEF R
<1> QED
  BY <1>3

\* Of the subsets of a finite set that are of some sort, one has no smaller one inside.
LEMMA LeastSubset ==
    ASSUME NEW S, IsFiniteSet(S), NEW T \in SUBSET (SUBSET S), T # {}
    PROVE  \E U \in T : \A V \in T : V \subseteq U => V = U
<1> DEFINE sizes == {Cardinality(U) : U \in T}
<1>1. \A U \in T : IsFiniteSet(U) /\ Cardinality(U) \in Nat
  BY FS_Subset, FS_CardinalityType
<1>2. sizes \in SUBSET Nat /\ sizes # {}
  BY <1>1
<1>3. PICK n \in sizes : \A m \in sizes : n <= m
  BY <1>2, LeastNat
<1>4. PICK U \in T : n = Cardinality(U)
  OBVIOUS
<1>5. ASSUME NEW V \in T, V \subseteq U PROVE V = U
  <2>1. Cardinality(V) <= Cardinality(U) /\ (Cardinality(U) = Cardinality(V) => U = V)
    BY <1>1, <1>5, FS_Subset
  <2>2. Cardinality(U) <= Cardinality(V)
    BY <1>3, <1>4
  <2> QED
    BY <1>1, <2>1, <2>2
<1> QED
  BY <1>5

\* The recursion SumFunctionOnSet unfolds to.
SumStep(f, S, g) ==
    [s \in SUBSET S |-> IF s = {} THEN 0
                        ELSE f[CHOOSE x \in s : TRUE] + g[s \ {CHOOSE x \in s : TRUE}]]

LEMMA SumUnfolds ==
    ASSUME NEW f, NEW S
    PROVE  SumFunctionOnSet(f, S) = (CHOOSE g : g = SumStep(f, S, g))[S]
BY Zenon DEF SumFunctionOnSet, FoldFunctionOnSet, MapThenFoldSet, SumStep

\* There is a function that satisfies the recursion, as far as sets of n elements.
LEMMA SumStepSolved ==
    ASSUME NEW S, IsFiniteSet(S), NEW f, \A x \in S : f[x] \in Int
    PROVE  \E g : g = SumStep(f, S, g)
<1> DEFINE Solves(g, n) ==
             \A s \in SUBSET S : Cardinality(s) <= n => g[s] = SumStep(f, S, g)[s]
           unsolved == {n \in Nat : ~\E g \in [SUBSET S -> Int] : Solves(g, n)}
<1>1. \A s \in SUBSET S : IsFiniteSet(s) /\ Cardinality(s) \in Nat
  BY FS_Subset, FS_CardinalityType
<1>2. ASSUME unsolved # {} PROVE FALSE
  <2>1. PICK n \in unsolved : \A m \in unsolved : n <= m
    <3> HIDE DEF Solves
    <3>1. unsolved \in SUBSET Nat
      OBVIOUS
    <3> QED
      BY <1>2, <3>1, LeastNat
  <2>2. CASE n = 0
    <3> DEFINE g == [s \in SUBSET S |-> 0]
    <3>1. \A s \in SUBSET S : Cardinality(s) <= 0 => s = {}
      BY <1>1, FS_EmptySet
    <3>2. Solves(g, 0)
      BY <3>1 DEF SumStep
    <3> QED
      BY <2>1, <2>2, <3>2
  <2>3. CASE n # 0
    <3>1. n - 1 \in Nat /\ n - 1 \notin unsolved
      <4> HIDE DEF Solves
      <4>1. n \in Nat
        BY <2>1
      <4>2. n - 1 \in Nat /\ ~(n <= n - 1)
        BY <2>3, <4>1
      <4> HIDE DEF unsolved
      <4> QED
        BY <2>1, <4>2
    <3>2. PICK g \in [SUBSET S -> Int] : Solves(g, n - 1)
      BY <3>1
    <3> DEFINE h == SumStep(f, S, g)
    <3>3. h \in [SUBSET S -> Int]
      BY DEF SumStep
    <3>4. ASSUME NEW s \in SUBSET S, Cardinality(s) <= n
          PROVE  h[s] = SumStep(f, S, h)[s]
      <4> DEFINE x == CHOOSE x \in s : TRUE
      <4>1. CASE s = {}
        BY <4>1 DEF SumStep
      <4>2. CASE s # {}
        <5>1. x \in s
          BY <4>2
        <5>2. s \ {x} \in SUBSET S /\ Cardinality(s \ {x}) <= n - 1
          <6>1. s \ {x} \in SUBSET S /\ IsFiniteSet(s) /\ Cardinality(s) \in Nat
            BY <1>1
          <6>2. Cardinality(s \ {x}) = Cardinality(s) - 1
            BY <5>1, <6>1, FS_RemoveElement
          <6>3. n \in Nat
            BY <2>1
          <6> HIDE DEF x
          <6> QED
            BY <3>4, <6>1, <6>2, <6>3
        <5>3. h[s \ {x}] = g[s \ {x}]
          BY <3>2, <5>2
        <5>4. h[s] = f[x] + g[s \ {x}]
          BY <4>2 DEF SumStep
        <5>5. SumStep(f, S, h)[s] = f[x] + h[s \ {x}]
          BY <4>2 DEF SumStep
        <5> QED
          BY <5>3, <5>4, <5>5
      <4> QED
        BY <4>1, <4>2
    <3> QED
      BY <2>1, <3>3, <3>4
  <2> QED
    BY <2>2, <2>3
<1>3. PICK g \in [SUBSET S -> Int] : Solves(g, Cardinality(S))
  BY <1>1, <1>2
<1>4. \A s \in SUBSET S : Cardinality(s) <= Cardinality(S)
  BY FS_Subset
<1>5. \A s \in SUBSET S : g[s] = SumStep(f, S, g)[s]
  BY <1>3, <1>4
<1>6. g = SumStep(f, S, g)
  BY <1>5 DEF SumStep
<1> QED
  BY <1>6

\* What the solution is like: integers, and any element may be taken off first.
AddsUp(g, f, S) ==
    /\ g \in [SUBSET S -> Int]
    /\ g[{}] = 0
    /\ \A s \in SUBSET S : \A y \in s : g[s] = f[y] + g[s \ {y}]

LEMMA SumStepSolution ==
    ASSUME NEW S, IsFiniteSet(S), NEW f, \A x \in S : f[x] \in Int,
           NEW g, g = SumStep(f, S, g)
    PROVE  AddsUp(g, f, S)
<1>1. \A s \in SUBSET S :
         /\ s = {} => g[s] = 0
         /\ s # {} => \E x \in s : g[s] = f[x] + g[s \ {x}]
  <2> TAKE s \in SUBSET S
  <2>1. s # {} => (CHOOSE x \in s : TRUE) \in s
    OBVIOUS
  <2>2. g[s] = IF s = {} THEN 0
               ELSE f[CHOOSE x \in s : TRUE] + g[s \ {CHOOSE x \in s : TRUE}]
    BY Zenon DEF SumStep
  <2> QED
    BY <2>1, <2>2, Zenon
<1>2. \A s \in SUBSET S : g[s] \in Int
  <2> DEFINE bad == {s \in SUBSET S : g[s] \notin Int}
  <2> SUFFICES ASSUME bad # {} PROVE FALSE
    OBVIOUS
  <2>1. PICK s \in bad : \A t \in bad : t \subseteq s => t = s
    <3>1. bad \in SUBSET (SUBSET S)
      OBVIOUS
    <3> HIDE DEF bad
    <3> QED
      BY <3>1, LeastSubset
  <2>2. s # {}
    BY <1>1, <2>1
  <2>3. PICK x \in s : g[s] = f[x] + g[s \ {x}]
    BY <1>1, <2>2
  <2>4. s \ {x} \notin bad /\ s \ {x} \in SUBSET S
    BY <2>1, <2>3
  <2> QED
    BY <2>1, <2>3, <2>4
<1>3. \A s \in SUBSET S : \A y \in s : g[s] = f[y] + g[s \ {y}]
  <2> DEFINE bad == {s \in SUBSET S : ~\A y \in s : g[s] = f[y] + g[s \ {y}]}
  <2> SUFFICES ASSUME bad # {} PROVE FALSE
    OBVIOUS
  <2>1. PICK s \in bad : \A t \in bad : t \subseteq s => t = s
    <3>1. bad \in SUBSET (SUBSET S)
      OBVIOUS
    <3> HIDE DEF bad
    <3> QED
      BY <3>1, LeastSubset
  <2>2. PICK y \in s : g[s] # f[y] + g[s \ {y}]
    BY <2>1
  <2>3. PICK x \in s : g[s] = f[x] + g[s \ {x}]
    BY <1>1, <2>1, <2>2
  <2>4. x # y
    BY <2>2, <2>3
  <2>5. s \ {x} \in (SUBSET S) \ bad /\ s \ {y} \in (SUBSET S) \ bad
    BY <2>1, <2>2, <2>3
  <2>6. g[s \ {x}] = f[y] + g[(s \ {x}) \ {y}]
    BY <2>2, <2>4, <2>5
  <2>7. g[s \ {y}] = f[x] + g[(s \ {y}) \ {x}]
    BY <2>3, <2>4, <2>5
  <2>8. (s \ {x}) \ {y} = (s \ {y}) \ {x} /\ (s \ {x}) \ {y} \in SUBSET S
    OBVIOUS
  <2>9. g[(s \ {x}) \ {y}] \in Int /\ f[x] \in Int /\ f[y] \in Int
    BY <1>2, <2>1, <2>8
  <2> QED
    <3> DEFINE rest == g[(s \ {x}) \ {y}]
    <3>2. g[s \ {x}] = f[y] + rest /\ g[s \ {y}] = f[x] + rest
      BY <2>6, <2>7, <2>8
    <3>3. rest \in Int /\ f[x] \in Int /\ f[y] \in Int
      BY <2>9
    <3> HIDE DEF rest
    <3> QED
      BY <2>2, <2>3, <3>2, <3>3
<1>4. g = [s \in SUBSET S |-> g[s]]
  BY DEF SumStep
<1> QED
  BY <1>1, <1>2, <1>3, <1>4 DEF AddsUp

LEMMA SumTable ==
    ASSUME NEW S, IsFiniteSet(S), NEW f, \A x \in S : f[x] \in Int
    PROVE  \E g : AddsUp(g, f, S) /\ \A s \in SUBSET S : SumFunctionOnSet(f, s) = g[s]
<1> DEFINE G(T) == CHOOSE g : g = SumStep(f, T, g)
<1>1. ASSUME NEW T \in SUBSET S
      PROVE  AddsUp(G(T), f, T) /\ SumFunctionOnSet(f, T) = G(T)[T]
  <2>1. IsFiniteSet(T) /\ \A x \in T : f[x] \in Int
    BY FS_Subset
  <2>2. \E g : g = SumStep(f, T, g)
    BY <2>1, SumStepSolved
  <2>3. G(T) = SumStep(f, T, G(T))
    BY <2>2, Zenon
  <2>4. SumFunctionOnSet(f, T) = G(T)[T]
    BY SumUnfolds, Zenon
  <2> HIDE DEF G
  <2> QED
    BY <2>1, <2>3, <2>4, SumStepSolution
<1> HIDE DEF G
<1>2. S \in SUBSET S
  OBVIOUS
<1>3. ASSUME NEW T \in SUBSET S PROVE G(S)[T] = G(T)[T]
  <2> DEFINE bad == {s \in SUBSET T : G(S)[s] # G(T)[s]}
  <2>1. ASSUME bad # {} PROVE FALSE
    <3>1. PICK s \in bad : \A t \in bad : t \subseteq s => t = s
      <4>1. bad \in SUBSET (SUBSET T) /\ IsFiniteSet(T)
        BY FS_Subset
      <4> HIDE DEF bad
      <4> QED
        BY <2>1, <4>1, LeastSubset
    <3>2. PICK y \in s : TRUE
      BY <1>1, <1>2, <3>1 DEF AddsUp
    <3>3. s \ {y} \in (SUBSET T) \ bad /\ s \in SUBSET S
      BY <3>1, <3>2
    <3>4. G(S)[s] = f[y] + G(S)[s \ {y}]
      <4>1. S \in SUBSET S
        OBVIOUS
      <4>2. \A t \in SUBSET S : \A z \in t : G(S)[t] = f[z] + G(S)[t \ {z}]
        BY <1>1, <4>1, Zenon DEF AddsUp
      <4> QED
        BY <3>2, <3>3, <4>2, Zenon
    <3>5. G(T)[s] = f[y] + G(T)[s \ {y}]
      <4>1. \A t \in SUBSET T : \A z \in t : G(T)[t] = f[z] + G(T)[t \ {z}]
        BY <1>1, Zenon DEF AddsUp
      <4>2. s \in SUBSET T
        BY <3>1
      <4> QED
        BY <3>2, <4>1, <4>2, Zenon
    <3> QED
      BY <3>1, <3>3, <3>4, <3>5
  <2> QED
    BY <2>1
<1> QED
  BY <1>1, <1>3, <1>2

-----------------------------------------------------------------------------
LEMMA SumEmpty ==
    ASSUME NEW f
    PROVE  SumFunctionOnSet(f, {}) = 0
<1> DEFINE S == {}
<1>1. IsFiniteSet(S) /\ (\A x \in S : f[x] \in Int) /\ S \in SUBSET S
  BY FS_EmptySet
<1>2. PICK g : AddsUp(g, f, S) /\ \A s \in SUBSET S : SumFunctionOnSet(f, s) = g[s]
  <2> HIDE DEF S
  <2> QED
    BY <1>1, SumTable
<1> QED
  BY <1>1, <1>2 DEF AddsUp

LEMMA SumType ==
    ASSUME NEW S, IsFiniteSet(S), NEW f, \A x \in S : f[x] \in Int
    PROVE  SumFunctionOnSet(f, S) \in Int
<1>1. PICK g : AddsUp(g, f, S) /\ \A s \in SUBSET S : SumFunctionOnSet(f, s) = g[s]
  BY SumTable
<1>2. S \in SUBSET S /\ g[S] \in Int
  BY <1>1 DEF AddsUp
<1> QED
  BY <1>1, <1>2, Zenon

LEMMA SumAdd ==
    ASSUME NEW S, IsFiniteSet(S), NEW x, x \notin S, NEW f,
           \A y \in S \cup {x} : f[y] \in Int
    PROVE  SumFunctionOnSet(f, S \cup {x}) = f[x] + SumFunctionOnSet(f, S)
<1> DEFINE U == S \cup {x}
<1>1. IsFiniteSet(U)
  BY FS_AddElement
<1>2. U \in SUBSET U /\ S \in SUBSET U /\ x \in U /\ U \ {x} = S
  OBVIOUS
<1> HIDE DEF U
<1>3. \A y \in U : f[y] \in Int
  BY DEF U
<1>4. PICK g : AddsUp(g, f, U) /\ \A s \in SUBSET U : SumFunctionOnSet(f, s) = g[s]
  BY <1>1, <1>3, SumTable
<1>5. SumFunctionOnSet(f, U) = f[x] + SumFunctionOnSet(f, S)
  BY <1>2, <1>4 DEF AddsUp
<1> QED
  BY <1>5 DEF U

\* Induction over the subsets of a finite set: what the empty set has and adding an
\* element keeps, the whole set has.
LEMMA AddingInduction ==
    ASSUME NEW S, IsFiniteSet(S), NEW good, {} \in good,
           \A T \in SUBSET S : \A x \in S \ T : T \in good => T \cup {x} \in good
    PROVE  S \in good
<1> DEFINE bad == {T \in SUBSET S : T \notin good}
<1> SUFFICES ASSUME bad # {} PROVE FALSE
  OBVIOUS
<1>1. PICK T \in bad : \A U \in bad : U \subseteq T => U = T
  <2>1. bad \in SUBSET (SUBSET S)
    OBVIOUS
  <2> HIDE DEF bad
  <2> QED
    BY <2>1, LeastSubset
<1>2. PICK x \in T : TRUE
  BY <1>1
<1>3. T \ {x} \in (SUBSET S) \ bad /\ (T \ {x}) \cup {x} = T
  BY <1>1, <1>2
<1>4. x \in S \ (T \ {x})
  BY <1>1, <1>2
<1> QED
  BY <1>1, <1>3, <1>4

LEMMA SumPlus ==
    ASSUME NEW S, IsFiniteSet(S), NEW f, NEW g, NEW h,
           \A x \in S : f[x] \in Int /\ g[x] \in Int /\ h[x] = f[x] + g[x]
    PROVE  SumFunctionOnSet(h, S) = SumFunctionOnSet(f, S) + SumFunctionOnSet(g, S)
<1> DEFINE good == {T \in SUBSET S : SumFunctionOnSet(h, T)
                                       = SumFunctionOnSet(f, T) + SumFunctionOnSet(g, T)}
<1>1. {} \in good
  BY SumEmpty
<1>2. ASSUME NEW T \in SUBSET S, NEW x \in S \ T, T \in good
      PROVE  T \cup {x} \in good
  <2>1. IsFiniteSet(T) /\ T \cup {x} \in SUBSET S
    BY FS_Subset
  <2>2. \A y \in T \cup {x} : f[y] \in Int /\ g[y] \in Int /\ h[y] \in Int
    OBVIOUS
  <2>3. /\ SumFunctionOnSet(f, T) \in Int /\ SumFunctionOnSet(g, T) \in Int
        /\ SumFunctionOnSet(h, T) \in Int
    BY <2>1, <2>2, SumType
  <2>4. /\ SumFunctionOnSet(f, T \cup {x}) = f[x] + SumFunctionOnSet(f, T)
        /\ SumFunctionOnSet(g, T \cup {x}) = g[x] + SumFunctionOnSet(g, T)
        /\ SumFunctionOnSet(h, T \cup {x}) = h[x] + SumFunctionOnSet(h, T)
    BY <2>1, <2>2, SumAdd
  <2>5. /\ f[x] \in Int /\ g[x] \in Int /\ h[x] = f[x] + g[x]
        /\ SumFunctionOnSet(h, T) = SumFunctionOnSet(f, T) + SumFunctionOnSet(g, T)
    BY <1>2
  <2>6. SumFunctionOnSet(h, T \cup {x})
          = SumFunctionOnSet(f, T \cup {x}) + SumFunctionOnSet(g, T \cup {x})
    BY <2>3, <2>4, <2>5
  <2> QED
    BY <2>1, <2>6
<1> HIDE DEF good
<1>3. S \in good
  BY <1>1, <1>2, AddingInduction
<1> QED
  BY <1>3 DEF good

LEMMA SumZero ==
    ASSUME NEW S, IsFiniteSet(S), NEW f, \A x \in S : f[x] = 0
    PROVE  SumFunctionOnSet(f, S) = 0
<1>1. SumFunctionOnSet(f, S) = SumFunctionOnSet(f, S) + SumFunctionOnSet(f, S)
  BY SumPlus
<1>2. SumFunctionOnSet(f, S) \in Int
  BY SumType
<1> QED
  BY <1>1, <1>2

LEMMA SumEqual ==
    ASSUME NEW S, IsFiniteSet(S), NEW f, NEW g, \A x \in S : f[x] \in Int /\ g[x] = f[x]
    PROVE  SumFunctionOnSet(g, S) = SumFunctionOnSet(f, S)
<1> DEFINE z == [x \in S |-> 0]
<1>1. SumFunctionOnSet(g, S) = SumFunctionOnSet(f, S) + SumFunctionOnSet(z, S)
  BY SumPlus
<1>2. SumFunctionOnSet(z, S) = 0
  BY SumZero
<1>3. SumFunctionOnSet(f, S) \in Int
  BY SumType
<1> QED
  BY <1>1, <1>2, <1>3

LEMMA SumAtMost ==
    ASSUME NEW S, IsFiniteSet(S), NEW f, NEW g,
           \A x \in S : f[x] \in Int /\ g[x] \in Int /\ f[x] <= g[x]
    PROVE  SumFunctionOnSet(f, S) <= SumFunctionOnSet(g, S)
<1> DEFINE good == {T \in SUBSET S : SumFunctionOnSet(f, T) <= SumFunctionOnSet(g, T)}
<1>1. {} \in good
  BY SumEmpty
<1>2. ASSUME NEW T \in SUBSET S, NEW x \in S \ T, T \in good
      PROVE  T \cup {x} \in good
  <2>1. IsFiniteSet(T) /\ T \cup {x} \in SUBSET S
    BY FS_Subset
  <2>2. \A y \in T \cup {x} : f[y] \in Int /\ g[y] \in Int
    OBVIOUS
  <2>3. SumFunctionOnSet(f, T) \in Int /\ SumFunctionOnSet(g, T) \in Int
    BY <2>1, <2>2, SumType
  <2>4. /\ SumFunctionOnSet(f, T \cup {x}) = f[x] + SumFunctionOnSet(f, T)
        /\ SumFunctionOnSet(g, T \cup {x}) = g[x] + SumFunctionOnSet(g, T)
    BY <2>1, <2>2, SumAdd
  <2>5. SumFunctionOnSet(f, T \cup {x}) <= SumFunctionOnSet(g, T \cup {x})
    BY <1>2, <2>3, <2>4
  <2> QED
    BY <2>1, <2>5
<1> HIDE DEF good
<1>3. S \in good
  BY <1>1, <1>2, AddingInduction
<1> QED
  BY <1>3 DEF good

LEMMA SumUnion ==
    ASSUME NEW S, NEW T, IsFiniteSet(S), IsFiniteSet(T), S \cap T = {},
           NEW f, \A x \in S \cup T : f[x] \in Int
    PROVE  SumFunctionOnSet(f, S \cup T) = SumFunctionOnSet(f, S) + SumFunctionOnSet(f, T)
<1> DEFINE good == {U \in SUBSET T : SumFunctionOnSet(f, S \cup U)
                                       = SumFunctionOnSet(f, S) + SumFunctionOnSet(f, U)}
<1>1. {} \in good
  <2>1. SumFunctionOnSet(f, {}) = 0 /\ SumFunctionOnSet(f, S) \in Int /\ S \cup {} = S
    BY SumEmpty, SumType
  <2> QED
    BY <2>1
<1>2. ASSUME NEW U \in SUBSET T, NEW x \in T \ U, U \in good
      PROVE  U \cup {x} \in good
  <2>1. /\ IsFiniteSet(U) /\ U \cup {x} \in SUBSET T /\ x \notin S \cup U
        /\ (S \cup U) \cup {x} = S \cup (U \cup {x})
    BY FS_Subset
  <2>2. IsFiniteSet(S \cup U)
    BY <2>1, FS_Union
  <2>3. /\ SumFunctionOnSet(f, U) \in Int /\ SumFunctionOnSet(f, S) \in Int /\ f[x] \in Int
    BY <2>1, SumType
  <2>4. SumFunctionOnSet(f, U \cup {x}) = f[x] + SumFunctionOnSet(f, U)
    BY <2>1, SumAdd
  <2>5. SumFunctionOnSet(f, (S \cup U) \cup {x}) = f[x] + SumFunctionOnSet(f, S \cup U)
    BY <2>1, <2>2, SumAdd
  <2>6. SumFunctionOnSet(f, S \cup U) = SumFunctionOnSet(f, S) + SumFunctionOnSet(f, U)
    BY <1>2
  <2>7. SumFunctionOnSet(f, (S \cup U) \cup {x})
          = SumFunctionOnSet(f, S) + SumFunctionOnSet(f, U \cup {x})
    <3> HIDE DEF good
    <3> QED
      BY <2>3, <2>4, <2>5, <2>6
  <2>8. SumFunctionOnSet(f, S \cup (U \cup {x}))
          = SumFunctionOnSet(f, S) + SumFunctionOnSet(f, U \cup {x})
    BY <2>1, <2>7, Zenon
  <2> QED
    BY <2>1, <2>8
<1> HIDE DEF good
<1>3. T \in good
  BY <1>1, <1>2, AddingInduction
<1> QED
  BY <1>3 DEF good

\* All terms but one are zero.
LEMMA SumSingle ==
    ASSUME NEW S, IsFiniteSet(S), NEW x \in S, NEW f, f[x] \in Int,
           \A y \in S \ {x} : f[y] = 0
    PROVE  SumFunctionOnSet(f, S) = f[x]
<1> DEFINE T == S \ {x}
<1>1. T \cup {x} = S /\ IsFiniteSet(T) /\ x \notin T
  BY FS_Subset
<1>2. SumFunctionOnSet(f, T) = 0
  BY <1>1, SumZero
<1>3. \A y \in T \cup {x} : f[y] \in Int
  OBVIOUS
<1> HIDE DEF T
<1>4. SumFunctionOnSet(f, T \cup {x}) = f[x] + SumFunctionOnSet(f, T)
  BY <1>1, <1>3, SumAdd
<1> QED
  BY <1>1, <1>2, <1>4

\* A sum over other names of the terms.
LEMMA SumRenamed ==
    ASSUME NEW S, IsFiniteSet(S), NEW T, NEW b \in [S -> T],
           \A x, y \in S : b[x] = b[y] => x = y,
           \A t \in T : \E x \in S : b[x] = t,
           NEW f, \A t \in T : f[t] \in Int,
           NEW g, \A x \in S : g[x] = f[b[x]]
    PROVE  SumFunctionOnSet(f, T) = SumFunctionOnSet(g, S)
<1> DEFINE Image(U) == {b[x] : x \in U}
           good == {U \in SUBSET S : /\ IsFiniteSet(Image(U))
                                     /\ SumFunctionOnSet(f, Image(U)) = SumFunctionOnSet(g, U)}
<1>1. {} \in good
  <2>1. Image({}) = {}
    OBVIOUS
  <2> QED
    BY <2>1, SumEmpty, FS_EmptySet
<1>2. ASSUME NEW U \in SUBSET S, NEW x \in S \ U, U \in good
      PROVE  U \cup {x} \in good
  <2>1. /\ Image(U \cup {x}) = Image(U) \cup {b[x]} /\ b[x] \notin Image(U)
        /\ \A t \in Image(U) \cup {b[x]} : f[t] \in Int
    OBVIOUS
  <2>2. IsFiniteSet(U) /\ IsFiniteSet(Image(U)) /\ U \cup {x} \in SUBSET S
        /\ \A y \in U \cup {x} : g[y] \in Int
    BY <1>2, FS_Subset
  <2>3. SumFunctionOnSet(g, U \cup {x}) = g[x] + SumFunctionOnSet(g, U)
    BY <2>2, SumAdd
  <2> HIDE DEF Image
  <2>4. SumFunctionOnSet(f, Image(U) \cup {b[x]}) = f[b[x]] + SumFunctionOnSet(f, Image(U))
    BY <2>1, <2>2, SumAdd
  <2>5. IsFiniteSet(Image(U) \cup {b[x]})
    BY <2>2, FS_AddElement
  <2>6. SumFunctionOnSet(f, Image(U \cup {x})) = SumFunctionOnSet(g, U \cup {x})
    BY <1>2, <2>1, <2>3, <2>4
  <2> QED
    BY <2>1, <2>2, <2>5, <2>6
<1>3. S \in good
  <2> HIDE DEF good
  <2> QED
    BY <1>1, <1>2, AddingInduction
<1>4. Image(S) = T
  OBVIOUS
<1> QED
  BY <1>3, <1>4

\* A sum over pairs is the sum of the sums over their second parts.
LEMMA SumOfSums ==
    ASSUME NEW S, IsFiniteSet(S), NEW T, IsFiniteSet(T),
           NEW f, \A p \in S \X T : f[p] \in Int,
           NEW rows, \A x \in S : \A y \in T : rows[x][y] = f[<<x, y>>],
           NEW g, \A x \in S : g[x] = SumFunctionOnSet(rows[x], T)
    PROVE  SumFunctionOnSet(f, S \X T) = SumFunctionOnSet(g, S)
<1> DEFINE good == {U \in SUBSET S : SumFunctionOnSet(f, U \X T) = SumFunctionOnSet(g, U)}
<1>1. {} \in good
  <2>1. {} \X T = {}
    OBVIOUS
  <2> QED
    BY <2>1, SumEmpty
<1>2. ASSUME NEW x \in S
      PROVE  g[x] = SumFunctionOnSet(f, {x} \X T) /\ g[x] \in Int /\ IsFiniteSet({x} \X T)
  <2> DEFINE b == [y \in T |-> <<x, y>>]
             row == rows[x]
  <2>1. /\ b \in [T -> {x} \X T]
        /\ \A y, z \in T : b[y] = b[z] => y = z
        /\ \A p \in {x} \X T : \E y \in T : b[y] = p
    OBVIOUS
  <2>2. (\A p \in {x} \X T : f[p] \in Int) /\ (\A y \in T : row[y] = f[b[y]] /\ row[y] \in Int)
    OBVIOUS
  <2>3. g[x] = SumFunctionOnSet(row, T)
    OBVIOUS
  <2> HIDE DEF b, row
  <2>4. SumFunctionOnSet(f, {x} \X T) = SumFunctionOnSet(row, T)
    <3> DEFINE column == {x} \X T
    <3>1. /\ b \in [T -> column] /\ (\A p \in column : f[p] \in Int)
          /\ (\A p \in column : \E y \in T : b[y] = p)
          /\ (\A y \in T : row[y] = f[b[y]])
      BY <2>1, <2>2
    <3> HIDE DEF column
    <3>2. \A y, z \in T : b[y] = b[z] => y = z
      BY <2>1
    <3>3. \A g1 : (\A y \in T : g1[y] = f[b[y]])
                    => SumFunctionOnSet(f, column) = SumFunctionOnSet(g1, T)
      BY <3>1, <3>2, SumRenamed
    <3>4. SumFunctionOnSet(f, column) = SumFunctionOnSet(row, T)
      BY <3>1, <3>3, Zenon
    <3> QED
      BY <3>4 DEF column
  <2>5. SumFunctionOnSet(row, T) \in Int
    BY <2>2, SumType
  <2>6. IsFiniteSet({x} \X T)
    BY FS_Product, FS_Singleton
  <2> QED
    BY <2>3, <2>4, <2>5, <2>6
<1>3. ASSUME NEW U \in SUBSET S, NEW x \in S \ U, U \in good
      PROVE  U \cup {x} \in good
  <2>1. /\ (U \cup {x}) \X T = (U \X T) \cup ({x} \X T)
        /\ (U \X T) \cap ({x} \X T) = {}
        /\ \A p \in (U \X T) \cup ({x} \X T) : f[p] \in Int
    OBVIOUS
  <2>2. IsFiniteSet(U) /\ IsFiniteSet(U \X T) /\ U \cup {x} \in SUBSET S
    BY FS_Subset, FS_Product
  <2>3. IsFiniteSet({x} \X T) /\ g[x] = SumFunctionOnSet(f, {x} \X T)
        /\ \A y \in U \cup {x} : g[y] \in Int
    BY <1>2
  <2>4. SumFunctionOnSet(f, (U \X T) \cup ({x} \X T))
          = SumFunctionOnSet(f, U \X T) + SumFunctionOnSet(f, {x} \X T)
    BY <2>1, <2>2, <2>3, SumUnion
  <2>5. SumFunctionOnSet(g, U \cup {x}) = g[x] + SumFunctionOnSet(g, U)
    BY <2>2, <2>3, SumAdd
  <2>6. SumFunctionOnSet(g, U) \in Int /\ g[x] \in Int
    BY <2>2, <2>3, SumType
  <2>7. SumFunctionOnSet(f, U \X T) = SumFunctionOnSet(g, U)
    BY <1>3
  <2>8. SumFunctionOnSet(f, (U \X T) \cup ({x} \X T)) = SumFunctionOnSet(g, U \cup {x})
    <3> HIDE DEF good
    <3> QED
      BY <2>3, <2>4, <2>5, <2>6, <2>7
  <2>9. SumFunctionOnSet(f, (U \cup {x}) \X T) = SumFunctionOnSet(g, U \cup {x})
    BY <2>1, <2>8, Zenon
  <2> QED
    BY <2>2, <2>9
<1>4. S \in good
  <2> HIDE DEF good
  <2> QED
    BY <1>1, <1>3, AddingInduction
<1> QED
  BY <1>4

-----------------------------------------------------------------------------
(* Bellman-Ford: a distance is never below a bound that agrees with all    *)
(* edges, and the edges a pass has come to without a relaxation improve    *)
(* nothing.                                                                *)

BFTyping ==
    /\ bfStage \in {"idle", "refused", "relax", "detect", "done"}
    /\ distances \in [Ids -> Int \cup {Unreachable}]
    /\ predecessors \in [Ids -> Ids \cup {None}]
    /\ todo \subseteq market.edges
    /\ \A e \in market.edges : e.from \in Ids /\ e.to \in Ids /\ e.cost \in Int
    /\ market.size \in Nat
    /\ bfStage = "idle" => \A n \in Ids : distances[n] = Unreachable
    /\ bfStage = "relax" => pass \in 1..(market.size - 1)
    /\ bfStage = "detect" => pass \in 1..market.size
    /\ bfStage \notin {"idle", "refused"} => source \in Ids

Running == bfStage \in {"relax", "detect", "done"}

AboveBounds ==
    Running =>
        \A h \in Potentials :
            Feasible(h) => \A n \in Ids : distances[n] # Unreachable => h[n] <= distances[n]

\* Nothing to improve on the edges come to since the last relaxation of the pass.
Settled ==
    /\ (bfStage = "relax" /\ ~anyRelaxation) \/ bfStage = "detect" =>
          \A e \in market.edges \ todo : ~Improves(e)
    /\ Answered => \A e \in market.edges : ~Improves(e)

BFInv == BFTyping /\ AboveBounds /\ Settled

LEMMA BFInitial == BFInit => BFInv
BY DEF BFInit, BFInv, BFTyping, AboveBounds, Running, Settled, Answered

LEMMA BFBegins ==
    ASSUME BFInv, NEW g, IsGraph(g), NEW s \in Ids, BFStart(g, s)
    PROVE  BFInv'
<1> DEFINE edges == getEdges(g, "market")
           size == Cardinality(getActiveNodes(g, "market"))
<1>1. market' = [edges |-> edges, size |-> size] /\ todo' = edges /\ source' = s /\ pass' = 1
      /\ UNCHANGED predecessors
  BY DEF BFStart
<1>2. size \in Nat /\ size >= 1
  BY NodesOfGraph DEF BFStart, BFAccepts
<1>3. \A e \in edges : e.from \in Ids /\ e.to \in Ids /\ e.cost \in Int
  BY EdgesOfGraph
<1>4. bfStage' = IF size = 1 THEN "detect" ELSE "relax"
  BY <1>1 DEF BFStart
<1>5. /\ distances' \in [Ids -> Int \cup {Unreachable}]
      /\ distances'[s] = 0
      /\ \A n \in Ids \ {s} : distances'[n] = Unreachable
  BY DEF BFStart, BFInv, BFTyping
<1> HIDE DEF edges, size
<1>6. BFTyping'
  <2>1. bfStage' = "relax" => pass' \in 1..(market'.size - 1)
    BY <1>1, <1>2, <1>4
  <2>2. bfStage' = "detect" => pass' \in 1..market'.size
    BY <1>1, <1>2, <1>4
  <2> QED
    BY <1>1, <1>2, <1>3, <1>4, <1>5, <2>1, <2>2 DEF BFTyping, BFInv
<1>7. AboveBounds'
  BY <1>1, <1>5, BellmanFordAssumption DEF AboveBounds, Feasible
<1>8. Settled'
  BY <1>1, <1>4 DEF Settled, Answered
<1> QED
  BY <1>6, <1>7, <1>8 DEF BFInv

\* The effect of one edge on the distances.
LEMMA RelaxedIsLower ==
    ASSUME BFTyping, NEW e \in market.edges, Improves(e)
    PROVE  /\ distances[e.from] \in Int
           /\ Candidate(e) = distances[e.from] + e.cost
           /\ Candidate(e) \in Int
BY BellmanFordAssumption DEF BFTyping, Improves, Less, Candidate

LEMMA BFRelaxes ==
    ASSUME BFInv, NEW e \in todo, BFRelax(e)
    PROVE  BFInv'
<1>1. e \in market.edges /\ e.from \in Ids /\ e.to \in Ids /\ e.cost \in Int
  BY DEF BFInv, BFTyping
<1>2. bfStage = "relax" /\ todo' = todo \ {e}
      /\ UNCHANGED <<bfStage, market, source, pass, hasNegativeCycle>>
  BY DEF BFRelax
<1>3. CASE ~Improves(e)
  <2>1. UNCHANGED <<distances, predecessors, anyRelaxation>>
    BY <1>3 DEF BFRelax
  <2>2. BFTyping' /\ AboveBounds'
    BY <1>2, <2>1 DEF BFInv, BFTyping, AboveBounds, Running, Feasible
  <2>3. \A x \in market.edges : Improves(x)' = Improves(x)
    BY <2>1 DEF Improves, Less, Candidate
  <2> QED
    BY <1>2, <1>3, <2>1, <2>2, <2>3 DEF BFInv, Settled, Answered
<1>4. CASE Improves(e)
  <2>1. /\ distances' = [distances EXCEPT ![e.to] = Candidate(e)]
        /\ predecessors' = [predecessors EXCEPT ![e.to] = e.from]
        /\ anyRelaxation' = TRUE
    BY <1>4 DEF BFRelax
  <2>2. /\ distances[e.from] \in Int
        /\ Candidate(e) = distances[e.from] + e.cost
        /\ Candidate(e) \in Int
    BY <1>1, <1>4, RelaxedIsLower DEF BFInv
  <2>3. BFTyping'
    BY <1>1, <1>2, <2>1, <2>2 DEF BFInv, BFTyping
  <2>4. AboveBounds'
    <3> SUFFICES ASSUME NEW h \in Potentials, Feasible(h)', NEW n \in Ids,
                        distances'[n] # Unreachable
                 PROVE  h[n] <= distances'[n]
      BY DEF AboveBounds
    <3>1. Feasible(h)
      BY <1>2 DEF Feasible
    <3>2. h \in [Ids -> Int]
      BY BellmanFordAssumption
    <3>3. distances[e.from] # Unreachable
      BY <2>2, BellmanFordAssumption
    <3>4. h[e.from] <= distances[e.from]
      BY <1>1, <1>2, <3>1, <3>3 DEF BFInv, AboveBounds, Running
    <3>5. h[e.to] <= h[e.from] + e.cost
      BY <1>1, <3>1 DEF Feasible
    <3>6. CASE n = e.to
      <4>1. distances'[n] = Candidate(e)
        BY <2>1, <3>6 DEF BFInv, BFTyping
      <4> QED
        BY <1>1, <2>2, <3>2, <3>4, <3>5, <3>6, <4>1
    <3>7. CASE n # e.to
      <4>1. distances'[n] = distances[n]
        BY <2>1, <3>7 DEF BFInv, BFTyping
      <4> QED
        BY <1>2, <3>1, <4>1 DEF BFInv, AboveBounds, Running
    <3> QED
      BY <3>6, <3>7
  <2>5. Settled'
    BY <1>2, <2>1 DEF Settled, Answered
  <2> QED
    BY <2>3, <2>4, <2>5 DEF BFInv
<1> QED
  BY <1>3, <1>4

\* The steps that leave the distances alone.
LEMMA BFQuiet ==
    ASSUME BFInv, UNCHANGED <<market, source, distances, predecessors>>,
           Running => Running'
    PROVE  /\ \A e \in market.edges : Improves(e)' = Improves(e)
           /\ Running => AboveBounds'
BY DEF BFInv, BFTyping, AboveBounds, Running, Feasible, Improves, Less, Candidate

LEMMA BFEndsPass ==
    ASSUME BFInv, BFEndPass
    PROVE  BFInv'
<1>1. bfStage = "relax" /\ Running /\ todo = {} /\ anyRelaxation' = FALSE
      /\ UNCHANGED <<market, source, distances, predecessors, hasNegativeCycle>>
  BY DEF BFEndPass, Running
<1>2. CASE ~anyRelaxation
  <2>1. bfStage' = "done" /\ UNCHANGED <<pass, todo>>
    BY <1>2 DEF BFEndPass
  <2>2. BFTyping'
    BY <1>1, <2>1 DEF BFInv, BFTyping
  <2>3. (\A e \in market.edges : Improves(e)' = Improves(e)) /\ AboveBounds'
    BY <1>1, <2>1, BFQuiet DEF Running
  <2>4. \A e \in market.edges : ~Improves(e)
    BY <1>1, <1>2 DEF BFInv, Settled
  <2> QED
    BY <1>1, <2>1, <2>2, <2>3, <2>4 DEF BFInv, Settled, Answered
<1>3. CASE anyRelaxation
  <2>1. /\ bfStage' = IF pass < market.size - 1 THEN "relax" ELSE "detect"
        /\ pass' = pass + 1
        /\ todo' = market.edges
    BY <1>3 DEF BFEndPass
  <2>2. pass \in 1..(market.size - 1) /\ market.size \in Nat
    BY <1>1 DEF BFInv, BFTyping
  <2>3. BFTyping'
    <3>1. bfStage' = "relax" => pass' \in 1..(market'.size - 1)
      BY <1>1, <2>1, <2>2
    <3>2. bfStage' = "detect" => pass' \in 1..market'.size
      BY <1>1, <2>1, <2>2
    <3> QED
      BY <1>1, <2>1, <2>2, <3>1, <3>2 DEF BFInv, BFTyping
  <2>4. AboveBounds'
    BY <1>1, <2>1, BFQuiet DEF Running
  <2> QED
    BY <1>1, <2>1, <2>3, <2>4 DEF BFInv, Settled, Answered
<1> QED
  BY <1>2, <1>3 DEF BFEndPass

LEMMA BFDetects ==
    ASSUME BFInv, BFEndDetect \/ \E e \in todo : BFDetect(e)
    PROVE  BFInv'
<1>1. CASE BFEndDetect
  <2>1. bfStage = "detect" /\ todo = {} /\ bfStage' = "done"
        /\ UNCHANGED <<market, source, distances, predecessors, pass, todo, anyRelaxation,
                       hasNegativeCycle>>
    BY <1>1 DEF BFEndDetect
  <2>2. BFTyping'
    BY <2>1 DEF BFInv, BFTyping
  <2>3. (\A e \in market.edges : Improves(e)' = Improves(e)) /\ AboveBounds'
    BY <2>1, BFQuiet DEF Running
  <2> QED
    BY <2>1, <2>2, <2>3 DEF BFInv, Settled, Answered
<1>2. ASSUME NEW e \in todo, BFDetect(e)
      PROVE  BFInv'
  <2>1. bfStage = "detect" /\ todo' = todo \ {e}
        /\ UNCHANGED <<market, source, distances, predecessors, pass, anyRelaxation>>
    BY <1>2 DEF BFDetect
  <2>2. (Improves(e) /\ bfStage' = "done" /\ hasNegativeCycle' = TRUE)
        \/ (~Improves(e) /\ bfStage' = "detect" /\ hasNegativeCycle' = hasNegativeCycle)
    BY <1>2 DEF BFDetect
  <2>3. BFTyping'
    BY <2>1, <2>2 DEF BFInv, BFTyping
  <2>4. (\A x \in market.edges : Improves(x)' = Improves(x)) /\ AboveBounds'
    BY <2>1, <2>2, BFQuiet DEF Running
  <2> QED
    BY <2>1, <2>2, <2>3, <2>4 DEF BFInv, Settled, Answered
<1> QED
  BY <1>1, <1>2

LEMMA BFStutters ==
    ASSUME BFInv, UNCHANGED bfVars
    PROVE  BFInv'
BY DEF bfVars, BFInv, BFTyping, AboveBounds, Running, Settled, Answered, Feasible, Improves,
       Less, Candidate

LEMMA BFRefuses ==
    ASSUME BFInv, NEW g, NEW s, BFRefuse(g, s)
    PROVE  BFInv'
BY DEF BFRefuse, BFInv, BFTyping, AboveBounds, Running, Settled, Answered

-----------------------------------------------------------------------------
(* Bellman-Ford: every distance is the cost of a way from the source, and  *)
(* after pass k no way of at most k edges is cheaper.  Where no circle is  *)
(* negative a way need not come to a node twice, hence not have more edges *)
(* than there are other markets.                                           *)

\* A way along market edges, which may come to a node several times.
IsWalk(n, p) ==
    /\ p \in Seq(market.edges)
    /\ p # <<>> => p[1].from = n
    /\ \A i \in 1..(Len(p) - 1) : p[i].to = p[i + 1].from

\* The nodes of a way from n, the first of which is n.
At(n, p, i) == IF i = 0 THEN n ELSE p[i].to
End(n, p) == At(n, p, Len(p))

LEMMA CostSum ==
    ASSUME BFTyping, NEW p \in Seq(market.edges)
    PROVE  /\ RouteCost(p) = SumFunctionOnSet([i \in 1..Len(p) |-> p[i].cost], 1..Len(p))
           /\ \A i \in 1..Len(p) : p[i] \in market.edges /\ p[i].cost \in Int
           /\ IsFiniteSet(1..Len(p)) /\ Len(p) \in Nat
           /\ RouteCost(p) \in Int
<1>1. RouteCost(p) = SumFunctionOnSet([i \in 1..Len(p) |-> p[i].cost], 1..Len(p))
  BY DEF RouteCost, SumFunction
<1>2. Len(p) \in Nat /\ \A i \in 1..Len(p) : p[i] \in market.edges /\ p[i].cost \in Int
  BY DEF BFTyping
<1>3. IsFiniteSet(1..Len(p))
  BY <1>2, FS_Interval
<1> DEFINE c == [i \in 1..Len(p) |-> p[i].cost]
<1>4. \A i \in 1..Len(p) : c[i] \in Int
  BY <1>2
<1>5. SumFunctionOnSet(c, 1..Len(p)) \in Int
  <2> HIDE DEF c
  <2> QED
    BY <1>3, <1>4, SumType
<1> QED
  BY <1>1, <1>2, <1>3, <1>5

LEMMA CostOfNothing == RouteCost(<<>>) = 0
<1>1. RouteCost(<<>>) = SumFunctionOnSet([i \in 1..0 |-> <<>>[i].cost], 1..0)
  BY DEF RouteCost, SumFunction
<1>2. 1..0 = {}
  OBVIOUS
<1>3. \A f : SumFunctionOnSet(f, {}) = 0
  BY SumEmpty
<1> QED
  BY <1>1, <1>2, <1>3

\* One edge more.
LEMMA CostOfOneMore ==
    ASSUME BFTyping, NEW p \in Seq(market.edges), NEW q \in Seq(market.edges),
           Len(p) = Len(q) + 1, \A i \in 1..Len(q) : p[i] = q[i]
    PROVE  RouteCost(p) = RouteCost(q) + p[Len(p)].cost
<1> DEFINE k == Len(q)
           c == [i \in 1..(k + 1) |-> p[i].cost]
           d == [i \in 1..k |-> q[i].cost]
<1>1. k \in Nat /\ Len(p) = k + 1 /\ IsFiniteSet(1..k)
  BY CostSum
<1>2. RouteCost(p) = SumFunctionOnSet(c, 1..(k + 1)) /\ RouteCost(q) = SumFunctionOnSet(d, 1..k)
  BY <1>1, CostSum
<1>3. (\A i \in 1..(k + 1) : c[i] \in Int) /\ (\A i \in 1..k : d[i] \in Int)
  BY <1>1, CostSum
<1>4. \A i \in 1..k : c[i] \in Int /\ d[i] = c[i]
  BY <1>1, <1>3
<1>5. 1..(k + 1) = (1..k) \cup {k + 1} /\ k + 1 \notin 1..k /\ c[k + 1] = p[Len(p)].cost
  BY <1>1
<1> HIDE DEF c, d, k
<1>6. SumFunctionOnSet(c, (1..k) \cup {k + 1}) = c[k + 1] + SumFunctionOnSet(c, 1..k)
  <2>1. \A i \in (1..k) \cup {k + 1} : c[i] \in Int
    BY <1>3, <1>5
  <2> QED
    BY <1>1, <1>5, <2>1, SumAdd
<1>7. SumFunctionOnSet(d, 1..k) = SumFunctionOnSet(c, 1..k) /\ SumFunctionOnSet(c, 1..k) \in Int
  BY <1>1, <1>4, SumEqual, SumType
<1>8. c[k + 1] \in Int
  BY <1>1, <1>3
<1>9. RouteCost(p) = c[k + 1] + RouteCost(q) /\ RouteCost(q) \in Int
  BY <1>2, <1>5, <1>6, <1>7
<1> QED
  BY <1>5, <1>8, <1>9

\* The part of a way from its i-th node to its j-th, and the rest without it.
Inner(p, i, j) == [x \in 1..(j - i) |-> p[x + i]]
Outer(p, i, j) == [x \in 1..(Len(p) - (j - i)) |-> IF x <= i THEN p[x] ELSE p[x + (j - i)]]

LEMMA PartsType ==
    ASSUME NEW S, NEW p \in Seq(S), NEW i \in 0..Len(p), NEW j \in i..Len(p)
    PROVE  /\ Inner(p, i, j) \in Seq(S) /\ Len(Inner(p, i, j)) = j - i
           /\ Outer(p, i, j) \in Seq(S) /\ Len(Outer(p, i, j)) = Len(p) - (j - i)
           /\ \A x \in 1..(j - i) : Inner(p, i, j)[x] = p[x + i]
           /\ \A x \in 1..(Len(p) - (j - i)) :
                 Outer(p, i, j)[x] = IF x <= i THEN p[x] ELSE p[x + (j - i)]
<1>1. Len(p) \in Nat /\ i \in Nat /\ j \in Nat /\ j - i \in Nat /\ Len(p) - (j - i) \in Nat
      /\ \A x \in 1..Len(p) : p[x] \in S
  OBVIOUS
<1>2. \A x \in 1..(j - i) : x + i \in 1..Len(p)
  BY <1>1
<1>3. \A x \in 1..(Len(p) - (j - i)) : IF x <= i THEN x \in 1..Len(p) ELSE x + (j - i) \in 1..Len(p)
  BY <1>1
<1>4. Inner(p, i, j) \in [1..(j - i) -> S]
  BY <1>1, <1>2 DEF Inner
<1>5. Outer(p, i, j) \in [1..(Len(p) - (j - i)) -> S]
  BY <1>1, <1>3 DEF Outer
<1>6. \A k \in Nat : \A f \in [1..k -> S] : f \in Seq(S) /\ Len(f) = k
  OBVIOUS
<1> QED
  BY <1>1, <1>4, <1>5, <1>6 DEF Inner, Outer

LEMMA CostOfParts ==
    ASSUME BFTyping, NEW p \in Seq(market.edges), NEW i \in 0..Len(p), NEW j \in i..Len(p)
    PROVE  RouteCost(p) = RouteCost(Inner(p, i, j)) + RouteCost(Outer(p, i, j))
<1> DEFINE k == Len(p)
           in == Inner(p, i, j)
           out == Outer(p, i, j)
           c == [x \in 1..k |-> p[x].cost]
           A == (i + 1)..j
           B == (1..i) \cup ((j + 1)..k)
<1>1. k \in Nat /\ i \in Nat /\ j \in Nat /\ i <= j /\ j <= k /\ j - i \in Nat /\ k - (j - i) \in Nat
      /\ RouteCost(p) = SumFunctionOnSet(c, 1..k) /\ \A x \in 1..k : c[x] \in Int
  BY CostSum
<1>2. /\ in \in Seq(market.edges) /\ Len(in) = j - i
      /\ out \in Seq(market.edges) /\ Len(out) = k - (j - i)
      /\ \A x \in 1..(j - i) : in[x] = p[x + i]
      /\ \A x \in 1..(k - (j - i)) : out[x] = IF x <= i THEN p[x] ELSE p[x + (j - i)]
  BY PartsType
<1>3. 1..k = A \cup B /\ A \cap B = {} /\ IsFiniteSet(A) /\ IsFiniteSet(B)
  <2>1. 1..k = A \cup B /\ A \cap B = {}
    BY <1>1
  <2>2. IsFiniteSet(A) /\ IsFiniteSet(1..i) /\ IsFiniteSet((j + 1)..k)
    BY <1>1, FS_Interval
  <2> QED
    BY <2>1, <2>2, FS_Union
<1>4. SumFunctionOnSet(c, A) = RouteCost(in)
  <2> DEFINE d == [x \in 1..(j - i) |-> in[x].cost]
             b == [x \in 1..(j - i) |-> x + i]
             D == 1..(j - i)
  <2>1. RouteCost(in) = SumFunctionOnSet(d, D) /\ IsFiniteSet(D)
    BY <1>2, CostSum
  <2>2. b \in [D -> A] /\ \A x, y \in D : b[x] = b[y] => x = y
    BY <1>1
  <2>3. \A t \in A : \E x \in D : b[x] = t
    <3> TAKE t \in A
    <3>1. t - i \in D /\ b[t - i] = t
      BY <1>1
    <3> QED
      BY <3>1
  <2>4. \A t \in A : c[t] \in Int
    BY <1>1
  <2>5. \A x \in D : d[x] = c[b[x]]
    <3> TAKE x \in D
    <3>1. b[x] = x + i /\ x + i \in 1..k /\ d[x] = in[x].cost /\ in[x] = p[x + i]
      BY <1>1, <1>2
    <3> QED
      BY <3>1
  <2> HIDE DEF b, c, d, A, D, in
  <2>6. SumFunctionOnSet(c, A) = SumFunctionOnSet(d, D)
    BY <2>1, <2>2, <2>3, <2>4, <2>5, SumRenamed
  <2> QED
    BY <2>1, <2>6
<1>5. SumFunctionOnSet(c, B) = RouteCost(out)
  <2> DEFINE D == 1..(k - (j - i))
             d == [x \in D |-> out[x].cost]
             b == [x \in D |-> IF x <= i THEN x ELSE x + (j - i)]
  <2>1. RouteCost(out) = SumFunctionOnSet(d, D) /\ IsFiniteSet(D)
    BY <1>2, CostSum
  <2>2. b \in [D -> B] /\ \A x, y \in D : b[x] = b[y] => x = y
    BY <1>1
  <2>3. \A t \in B : \E x \in D : b[x] = t
    <3> TAKE t \in B
    <3>1. CASE t \in 1..i
      <4>1. t \in D /\ b[t] = t
        BY <1>1, <3>1
      <4> QED
        BY <4>1
    <3>2. CASE t \in (j + 1)..k
      <4>1. t - (j - i) \in D /\ b[t - (j - i)] = t
        BY <1>1, <3>2
      <4> QED
        BY <4>1
    <3> QED
      BY <3>1, <3>2
  <2>4. \A t \in B : c[t] \in Int
    BY <1>1
  <2>5. \A x \in D : d[x] = c[b[x]]
    <3> TAKE x \in D
    <3>1. b[x] \in 1..k /\ d[x] = out[x].cost /\ out[x] = p[b[x]]
      BY <1>1, <1>2
    <3> QED
      BY <3>1
  <2> HIDE DEF b, c, d, B, D, out
  <2>6. SumFunctionOnSet(c, B) = SumFunctionOnSet(d, D)
    BY <2>1, <2>2, <2>3, <2>4, <2>5, SumRenamed
  <2> QED
    BY <2>1, <2>6
<1> HIDE DEF A, B, c, in, out, k
<1>6. SumFunctionOnSet(c, A \cup B) = SumFunctionOnSet(c, A) + SumFunctionOnSet(c, B)
  <2>1. \A x \in A \cup B : c[x] \in Int
    BY <1>1, <1>3
  <2> QED
    BY <1>3, <2>1, SumUnion
<1>7. RouteCost(p) = RouteCost(in) + RouteCost(out)
  BY <1>1, <1>3, <1>4, <1>5, <1>6
<1> QED
  BY <1>7 DEF in, out

-----------------------------------------------------------------------------
LEMMA WalkNodes ==
    ASSUME BFTyping, NEW n, NEW p, IsWalk(n, p)
    PROVE  /\ Len(p) \in Nat
           /\ p \in Seq(market.edges)
           /\ \A i \in 1..Len(p) :
                 /\ p[i] \in market.edges
                 /\ p[i].from = At(n, p, i - 1)
                 /\ p[i].to = At(n, p, i)
<1>1. p \in Seq(market.edges) /\ Len(p) \in Nat
  BY DEF IsWalk
<1>2. ASSUME NEW i \in 1..Len(p)
      PROVE  p[i] \in market.edges /\ p[i].from = At(n, p, i - 1) /\ p[i].to = At(n, p, i)
  <2>1. p[i] \in market.edges /\ p # <<>> /\ i \in Nat /\ i # 0
    BY <1>1, <1>2
  <2>2. p[i].to = At(n, p, i)
    BY <2>1 DEF At
  <2>3. p[i].from = At(n, p, i - 1)
    <3>1. CASE i = 1
      BY <2>1, <3>1 DEF At, IsWalk
    <3>2. CASE i # 1
      <4>1. i - 1 \in 1..(Len(p) - 1) /\ i - 1 # 0 /\ (i - 1) + 1 = i
        BY <1>1, <1>2, <3>2
      <4>2. p[i - 1].to = p[(i - 1) + 1].from
        BY <4>1 DEF IsWalk
      <4> QED
        BY <4>1, <4>2 DEF At
    <3> QED
      BY <3>1, <3>2
  <2> QED
    BY <2>1, <2>2, <2>3
<1> QED
  BY <1>1, <1>2

\* The same, the other way round.
LEMMA NodesMakeWalk ==
    ASSUME NEW n, NEW p \in Seq(market.edges),
           \A i \in 1..Len(p) : p[i].from = At(n, p, i - 1)
    PROVE  IsWalk(n, p)
<1>1. Len(p) \in Nat /\ (p # <<>> => Len(p) >= 1)
  OBVIOUS
<1>2. p # <<>> => p[1].from = n
  <2>1. p # <<>> => 1 \in 1..Len(p) /\ 1 - 1 = 0
    BY <1>1
  <2> QED
    BY <2>1 DEF At
<1>3. ASSUME NEW i \in 1..(Len(p) - 1) PROVE p[i].to = p[i + 1].from
  <2>1. i + 1 \in 1..Len(p) /\ (i + 1) - 1 = i /\ i # 0
    BY <1>1
  <2> QED
    BY <2>1 DEF At
<1> QED
  BY <1>2, <1>3 DEF IsWalk

LEMMA NoWay ==
    ASSUME NEW n
    PROVE  IsWalk(n, <<>>) /\ End(n, <<>>) = n /\ RouteCost(<<>>) = 0 /\ Len(<<>>) = 0
<1>1. <<>> \in Seq(market.edges) /\ Len(<<>>) = 0
  OBVIOUS
<1>2. IsWalk(n, <<>>)
  <2>1. 1..(0 - 1) = {}
    OBVIOUS
  <2> QED
    BY <1>1, <2>1 DEF IsWalk
<1> QED
  BY <1>1, <1>2, CostOfNothing DEF End, At

\* A way goes on along an edge.
LEMMA WayGoesOn ==
    ASSUME BFTyping, NEW n, NEW p, IsWalk(n, p), NEW e \in market.edges, e.from = End(n, p)
    PROVE  /\ IsWalk(n, Append(p, e))
           /\ End(n, Append(p, e)) = e.to
           /\ RouteCost(Append(p, e)) = RouteCost(p) + e.cost
<1> DEFINE q == Append(p, e)
<1>1. p \in Seq(market.edges) /\ Len(p) \in Nat
  BY WalkNodes
<1>2. q \in Seq(market.edges) /\ Len(q) = Len(p) + 1 /\ q[Len(q)] = e
      /\ \A i \in 1..Len(p) : q[i] = p[i]
  BY <1>1
<1> HIDE DEF q
<1>3. RouteCost(q) = RouteCost(p) + e.cost
  BY <1>1, <1>2, CostOfOneMore
<1>4. End(n, q) = e.to
  BY <1>1, <1>2 DEF End, At
<1>5. \A i \in 0..Len(p) : At(n, q, i) = At(n, p, i)
  BY <1>1, <1>2 DEF At
<1>6. ASSUME NEW i \in 1..Len(q) PROVE q[i].from = At(n, q, i - 1)
  <2>1. CASE i \in 1..Len(p)
    <3>1. q[i] = p[i] /\ p[i].from = At(n, p, i - 1) /\ i - 1 \in 0..Len(p)
      BY <1>1, <1>2, <2>1, WalkNodes
    <3> QED
      BY <1>5, <3>1
  <2>2. CASE i = Len(q)
    <3>1. i - 1 = Len(p) /\ Len(p) \in 0..Len(p)
      BY <1>1, <1>2, <2>2
    <3> QED
      BY <1>2, <1>5, <2>2, <3>1 DEF End
  <2> QED
    BY <1>1, <1>2, <2>1, <2>2
<1>7. IsWalk(n, q)
  BY <1>2, <1>6, NodesMakeWalk
<1> QED
  BY <1>3, <1>4, <1>7 DEF q

\* From a node back to the same node, and the rest of the way.
LEMMA WayIsCut ==
    ASSUME BFTyping, NEW n, NEW p, IsWalk(n, p),
           NEW i \in 0..Len(p), NEW j \in i..Len(p), At(n, p, i) = At(n, p, j)
    PROVE  /\ IsWalk(At(n, p, i), Inner(p, i, j))
           /\ End(At(n, p, i), Inner(p, i, j)) = At(n, p, i)
           /\ Len(Inner(p, i, j)) = j - i
           /\ IsWalk(n, Outer(p, i, j))
           /\ End(n, Outer(p, i, j)) = End(n, p)
           /\ Len(Outer(p, i, j)) = Len(p) - (j - i)
           /\ RouteCost(p) = RouteCost(Inner(p, i, j)) + RouteCost(Outer(p, i, j))
<1> DEFINE m == At(n, p, i)
           in == Inner(p, i, j)
           out == Outer(p, i, j)
<1>1. /\ Len(p) \in Nat /\ i \in Nat /\ j \in Nat /\ i <= j /\ j <= Len(p)
      /\ p \in Seq(market.edges)
      /\ \A x \in 1..Len(p) : p[x].from = At(n, p, x - 1) /\ p[x].to = At(n, p, x)
  BY WalkNodes
<1>2. /\ in \in Seq(market.edges) /\ Len(in) = j - i
      /\ out \in Seq(market.edges) /\ Len(out) = Len(p) - (j - i)
      /\ \A x \in 1..(j - i) : in[x] = p[x + i]
      /\ \A x \in 1..(Len(p) - (j - i)) : out[x] = IF x <= i THEN p[x] ELSE p[x + (j - i)]
  <2>1. p \in Seq(market.edges)
    BY <1>1
  <2> QED
    BY <2>1, PartsType
<1>3. RouteCost(p) = RouteCost(in) + RouteCost(out)
  BY <1>1, CostOfParts
<1> HIDE DEF in, out
<1>4. ASSUME NEW x \in 0..(j - i) PROVE At(m, in, x) = At(n, p, x + i)
  <2>1. CASE x = 0
    BY <1>1, <2>1 DEF At
  <2>2. CASE x # 0
    <3>1. x \in 1..(j - i) /\ x + i \in 1..Len(p)
      BY <1>1, <2>2
    <3>2. At(m, in, x) = in[x].to /\ in[x] = p[x + i]
      BY <1>2, <2>2, <3>1 DEF At
    <3> HIDE DEF m
    <3> QED
      BY <1>1, <3>1, <3>2
  <2> QED
    BY <2>1, <2>2
<1>5. ASSUME NEW x \in 0..(Len(p) - (j - i))
      PROVE  At(n, out, x) = IF x <= i THEN At(n, p, x) ELSE At(n, p, x + (j - i))
  <2>1. CASE x = 0
    BY <1>1, <2>1 DEF At
  <2>2. CASE x # 0
    <3>1. x \in 1..(Len(p) - (j - i)) /\ (x <= i => x \in 1..Len(p))
          /\ (~(x <= i) => x + (j - i) \in 1..Len(p))
      BY <1>1, <2>2
    <3>2. At(n, out, x) = out[x].to /\ out[x] = IF x <= i THEN p[x] ELSE p[x + (j - i)]
      BY <1>2, <2>2, <3>1 DEF At
    <3> QED
      BY <1>1, <3>1, <3>2
  <2> QED
    BY <2>1, <2>2
<1>6. IsWalk(m, in) /\ End(m, in) = m
  <2>1. ASSUME NEW x \in 1..Len(in) PROVE in[x].from = At(m, in, x - 1)
    <3>1. x \in 1..(j - i) /\ x + i \in 1..Len(p) /\ x - 1 \in 0..(j - i)
          /\ (x + i) - 1 = (x - 1) + i
      BY <1>1, <1>2
    <3>2. At(m, in, x - 1) = At(n, p, (x - 1) + i) /\ in[x] = p[x + i]
      BY <1>2, <1>4, <3>1
    <3>3. p[x + i].from = At(n, p, (x + i) - 1)
      BY <1>1, <3>1
    <3> HIDE DEF m
    <3> QED
      BY <3>1, <3>2, <3>3
  <2>2. IsWalk(m, in)
    BY <1>2, <2>1, NodesMakeWalk
  <2>3. At(m, in, j - i) = At(n, p, j)
    <3>1. j - i \in 0..(j - i) /\ (j - i) + i = j
      BY <1>1
    <3> HIDE DEF m
    <3> QED
      BY <1>4, <3>1
  <2>4. End(m, in) = m
    BY <1>2, <2>3 DEF End
  <2> QED
    BY <2>2, <2>4
<1>7. IsWalk(n, out) /\ End(n, out) = End(n, p)
  <2>1. ASSUME NEW x \in 1..Len(out) PROVE out[x].from = At(n, out, x - 1)
    <3>1. x \in 1..(Len(p) - (j - i)) /\ x - 1 \in 0..(Len(p) - (j - i)) /\ x \in Nat
      BY <1>1, <1>2
    <3>2. CASE x <= i
      <4>1. out[x] = p[x] /\ x \in 1..Len(p) /\ At(n, out, x - 1) = At(n, p, x - 1)
        BY <1>1, <1>2, <1>5, <3>1, <3>2
      <4> QED
        BY <1>1, <4>1
    <3>3. CASE x = i + 1
      <4>1. out[x] = p[j + 1] /\ j + 1 \in 1..Len(p) /\ (j + 1) - 1 = j
            /\ At(n, out, x - 1) = At(n, p, i)
        <5>1. ~(x <= i) /\ x + (j - i) = j + 1 /\ x - 1 = i /\ j + 1 \in 1..Len(p)
              /\ (j + 1) - 1 = j
          BY <1>1, <3>1, <3>3
        <5> QED
          BY <1>1, <1>2, <1>5, <3>1, <5>1
      <4>2. p[j + 1].from = At(n, p, (j + 1) - 1)
        BY <1>1, <4>1
      <4> QED
        BY <4>1, <4>2
    <3>4. CASE x > i + 1
      <4>1. ~(x <= i) /\ ~(x - 1 <= i) /\ x + (j - i) \in 1..Len(p)
            /\ (x + (j - i)) - 1 = (x - 1) + (j - i)
        BY <1>1, <3>1, <3>4
      <4>2. out[x] = p[x + (j - i)] /\ At(n, out, x - 1) = At(n, p, (x - 1) + (j - i))
        BY <1>2, <1>5, <3>1, <4>1
      <4>3. p[x + (j - i)].from = At(n, p, (x + (j - i)) - 1)
        BY <1>1, <4>1
      <4> QED
        BY <4>1, <4>2, <4>3
    <3> QED
      BY <1>1, <3>1, <3>2, <3>3, <3>4
  <2>2. IsWalk(n, out)
    BY <1>2, <2>1, NodesMakeWalk
  <2>3. At(n, out, Len(p) - (j - i)) = At(n, p, Len(p))
    <3>1. CASE Len(p) - (j - i) <= i
      <4>1. Len(p) = j /\ Len(p) - (j - i) = i
        <5>1. \A l, u, v \in Nat : l - (v - u) <= u /\ v <= l => l = v /\ l - (v - u) = u
          OBVIOUS
        <5> QED
          BY <1>1, <3>1, <5>1
      <4>2. At(n, out, i) = At(n, p, i)
        BY <1>1, <1>5, <4>1
      <4> QED
        BY <4>1, <4>2
    <3>2. CASE ~(Len(p) - (j - i) <= i)
      <4>1. Len(p) - (j - i) \in 0..(Len(p) - (j - i)) /\ (Len(p) - (j - i)) + (j - i) = Len(p)
        BY <1>1
      <4> QED
        BY <1>5, <3>2, <4>1
    <3> QED
      BY <3>1, <3>2
  <2> QED
    BY <1>2, <2>2, <2>3 DEF End
<1> QED
  BY <1>2, <1>3, <1>6, <1>7 DEF in, out, m

\* A way without its last edge.
LEMMA LastEdge ==
    ASSUME BFTyping, NEW n, NEW p, IsWalk(n, p), p # <<>>
    PROVE  \E q : /\ IsWalk(n, q)
                  /\ Len(q) = Len(p) - 1
                  /\ p[Len(p)] \in market.edges
                  /\ p[Len(p)].from = End(n, q)
                  /\ p[Len(p)].to = End(n, p)
                  /\ RouteCost(p) = RouteCost(q) + p[Len(p)].cost
<1> DEFINE k == Len(p)
           q == Outer(p, k - 1, k)
<1>1. /\ k \in Nat /\ k >= 1 /\ p \in Seq(market.edges) /\ p[k] \in market.edges
      /\ \A x \in 1..k : p[x].from = At(n, p, x - 1) /\ p[x].to = At(n, p, x)
  BY WalkNodes
<1>2. k - 1 \in 0..k /\ k \in (k - 1)..k /\ k - (k - (k - 1)) = k - 1
  BY <1>1
<1>3. q \in Seq(market.edges) /\ Len(q) = k - 1
      /\ \A x \in 1..(k - 1) : q[x] = IF x <= k - 1 THEN p[x] ELSE p[x + (k - (k - 1))]
  <2>1. p \in Seq(market.edges) /\ k - 1 \in 0..Len(p) /\ k \in (k - 1)..Len(p)
    BY <1>1, <1>2
  <2>2. ASSUME NEW i \in 0..Len(p), NEW j \in i..Len(p)
        PROVE  /\ Outer(p, i, j) \in Seq(market.edges)
               /\ Len(Outer(p, i, j)) = Len(p) - (j - i)
               /\ \A x \in 1..(Len(p) - (j - i)) :
                     Outer(p, i, j)[x] = IF x <= i THEN p[x] ELSE p[x + (j - i)]
    <3>1. p \in Seq(market.edges)
      BY <2>1
    <3> HIDE DEF k
    <3> QED
      BY <3>1, PartsType
  <2>3. Len(q) = Len(p) - (k - (k - 1)) /\ q \in Seq(market.edges)
        /\ \A x \in 1..(Len(p) - (k - (k - 1))) :
              q[x] = IF x <= k - 1 THEN p[x] ELSE p[x + (k - (k - 1))]
    <3> HIDE DEF k
    <3> QED
      BY <2>1, <2>2
  <2> HIDE DEF q
  <2> QED
    BY <1>2, <2>3
<1> HIDE DEF q
<1>4. \A x \in 1..(k - 1) : q[x] = p[x]
  BY <1>1, <1>3
<1>5. \A x \in 0..(k - 1) : At(n, q, x) = At(n, p, x)
  BY <1>1, <1>4 DEF At
<1>6. ASSUME NEW x \in 1..Len(q) PROVE q[x].from = At(n, q, x - 1)
  <2>1. x \in 1..(k - 1) /\ x \in 1..k /\ x - 1 \in 0..(k - 1)
    BY <1>1, <1>3
  <2> QED
    BY <1>1, <1>4, <1>5, <2>1
<1>7. IsWalk(n, q)
  BY <1>3, <1>6, NodesMakeWalk
<1>8. RouteCost(p) = RouteCost(q) + p[k].cost
  <2>1. Len(p) = Len(q) + 1 /\ \A x \in 1..Len(q) : p[x] = q[x]
    BY <1>1, <1>3, <1>4
  <2> QED
    BY <1>1, <1>3, <2>1, CostOfOneMore
<1>9. p[k].from = End(n, q) /\ p[k].to = End(n, p)
  <2>1. k \in 1..k /\ k - 1 \in 0..(k - 1)
    BY <1>1
  <2> QED
    BY <1>1, <1>3, <1>5, <2>1 DEF End
<1> QED
  BY <1>1, <1>3, <1>7, <1>8, <1>9

LEMMA LeastWalk ==
    ASSUME NEW T \in SUBSET Seq(market.edges), T # {}
    PROVE  \E p \in T : \A q \in T : Len(p) <= Len(q)
<1> DEFINE sizes == {Len(p) : p \in T}
<1>1. \A p \in T : Len(p) \in Nat
  OBVIOUS
<1>2. sizes \in SUBSET Nat /\ sizes # {}
  BY <1>1
<1>3. PICK k \in sizes : \A m \in sizes : k <= m
  <2> HIDE DEF sizes
  <2> QED
    BY <1>2, LeastNat
<1>4. PICK p \in T : k = Len(p)
  OBVIOUS
<1>5. \A q \in T : Len(p) <= Len(q)
  BY <1>3, <1>4
<1> QED
  BY <1>5

\* When no edge improves a distance, no way does.
LEMMA NoWayImproves ==
    ASSUME BFTyping, \A e \in market.edges : ~Improves(e),
           NEW n \in Ids, distances[n] # Unreachable,
           NEW p, IsWalk(n, p)
    PROVE  /\ distances[End(n, p)] # Unreachable
           /\ distances[End(n, p)] <= distances[n] + RouteCost(p)
<1> DEFINE Keeps(q) == /\ distances[End(n, q)] # Unreachable
                       /\ distances[End(n, q)] <= distances[n] + RouteCost(q)
           bad == {q \in Seq(market.edges) : IsWalk(n, q) /\ ~Keeps(q)}
<1>1. distances[n] \in Int
  BY DEF BFTyping
<1>2. Keeps(<<>>)
  <2>1. End(n, <<>>) = n /\ RouteCost(<<>>) = 0
    BY NoWay
  <2> QED
    BY <1>1, <2>1
<1>3. ASSUME NEW q, IsWalk(n, q), NEW r, IsWalk(n, r), Keeps(r),
             NEW e \in market.edges, e.from = End(n, r), e.to = End(n, q),
             RouteCost(q) = RouteCost(r) + e.cost
      PROVE  Keeps(q)
  <2>1. e.from \in Ids /\ e.to \in Ids /\ e.cost \in Int /\ RouteCost(r) \in Int
    <3>1. r \in Seq(market.edges)
      BY <1>3 DEF IsWalk
    <3> QED
      BY <3>1, CostSum DEF BFTyping
  <2>2. distances[e.from] \in Int /\ distances[e.from] # Unreachable
        /\ distances[e.from] <= distances[n] + RouteCost(r)
    BY <1>3, <2>1 DEF BFTyping
  <2>3. ~Less(distances[e.from] + e.cost, distances[e.to])
    BY <1>3, <2>2 DEF Improves, Candidate
  <2>4. distances[e.from] + e.cost # Unreachable
    BY <2>1, <2>2, BellmanFordAssumption
  <2>5. distances[e.to] # Unreachable /\ distances[e.to] \in Int
        /\ distances[e.to] <= distances[e.from] + e.cost
    <3>1. distances[e.to] # Unreachable /\ ~(distances[e.from] + e.cost < distances[e.to])
      BY <2>3, <2>4 DEF Less
    <3>2. distances[e.to] \in Int
      BY <2>1, <3>1 DEF BFTyping
    <3> QED
      BY <2>1, <2>2, <3>1, <3>2
  <2>6. distances[e.to] <= distances[n] + RouteCost(q)
    BY <1>1, <1>3, <2>1, <2>2, <2>5
  <2> QED
    BY <1>3, <2>5, <2>6
<1>4. ASSUME bad # {} PROVE FALSE
  <2>1. PICK q \in bad : \A r \in bad : Len(q) <= Len(r)
    <3>1. bad \in SUBSET Seq(market.edges)
      OBVIOUS
    <3> HIDE DEF bad
    <3> QED
      BY <1>4, <3>1, LeastWalk
  <2>2. IsWalk(n, q) /\ ~Keeps(q) /\ q # <<>> /\ q \in Seq(market.edges)
    BY <1>2, <2>1
  <2> HIDE DEF Keeps
  <2>3. PICK r : /\ IsWalk(n, r)
                 /\ Len(r) = Len(q) - 1
                 /\ q[Len(q)] \in market.edges
                 /\ q[Len(q)].from = End(n, r)
                 /\ q[Len(q)].to = End(n, q)
                 /\ RouteCost(q) = RouteCost(r) + q[Len(q)].cost
    BY <2>2, LastEdge
  <2>4. r \notin bad
    <3>1. Len(q) \in Nat /\ ~(Len(q) <= Len(r))
      BY <2>2, <2>3
    <3> QED
      BY <2>1, <3>1
  <2>5. Keeps(r)
    <3>1. r \in Seq(market.edges)
      BY <2>3 DEF IsWalk
    <3> QED
      BY <2>3, <2>4, <3>1
  <2> QED
    BY <1>3, <2>2, <2>3, <2>5
<1>5. Keeps(p)
  <2>1. p \in Seq(market.edges)
    BY DEF IsWalk
  <2> QED
    BY <1>4, <2>1
<1> QED
  BY <1>5

-----------------------------------------------------------------------------
\* The nodes of a way from the i-th on are all different.
Once(n, p, lo) == \A i, j \in lo..Len(p) : At(n, p, i) = At(n, p, j) => i = j

\* The nodes among which the edges lead are as many as the markets.
OnNodes(M) ==
    /\ IsFiniteSet(M)
    /\ Cardinality(M) = market.size
    /\ \A e \in market.edges : e.from \in M /\ e.to \in M

LEMMA FewNodes ==
    ASSUME BFTyping, NEW M, OnNodes(M), NEW n, NEW p, IsWalk(n, p), NEW lo \in {0, 1},
           p # <<>>, Once(n, p, lo)
    PROVE  Len(p) - lo + 1 <= market.size
<1>1. Len(p) \in Nat /\ p \in Seq(market.edges) /\ Len(p) >= 1
  BY WalkNodes
<1>2. \A i \in 1..Len(p) : p[i] \in market.edges /\ p[i].from = At(n, p, i - 1) /\ p[i].to = At(n, p, i)
  BY WalkNodes
<1>3. \A i \in 0..Len(p) : At(n, p, i) \in M
  <2> TAKE i \in 0..Len(p)
  <2>1. CASE i = 0
    <3>1. 1 \in 1..Len(p) /\ 1 - 1 = 0
      BY <1>1
    <3>2. p[1] \in market.edges /\ p[1].from = At(n, p, 1 - 1)
      BY <1>2, <3>1
    <3> QED
      BY <2>1, <3>1, <3>2 DEF OnNodes
  <2>2. CASE i # 0
    <3>1. i \in 1..Len(p)
      BY <1>1, <2>2
    <3> QED
      BY <1>2, <3>1 DEF OnNodes
  <2> QED
    BY <2>1, <2>2
<1> DEFINE S == lo..Len(p)
           f == [i \in S |-> At(n, p, i)]
<1>4. IsFiniteSet(S) /\ Cardinality(S) = Len(p) - lo + 1
  <2>1. lo \in Int /\ Len(p) \in Int /\ ~(lo > Len(p))
    BY <1>1
  <2> QED
    BY <2>1, FS_Interval
<1>5. f \in [S -> M]
  BY <1>1, <1>3
<1>6. \A i, j \in S : f[i] = f[j] => i = j
  BY DEF Once
<1> HIDE DEF S, f
<1>7. ~(Cardinality(M) < Cardinality(S))
  BY <1>4, <1>5, <1>6, FS_PigeonHole DEF OnNodes
<1> QED
  BY <1>1, <1>4, <1>7 DEF OnNodes, BFTyping

LEMMA WalkIsRoute ==
    ASSUME BFTyping, NEW M, OnNodes(M), NEW n, NEW p, IsWalk(n, p), Once(n, p, 1)
    PROVE  p \in Routes(n) /\ (p # <<>> => RouteEnd(p) = End(n, p))
<1>1. Len(p) \in Nat /\ p \in Seq(market.edges) /\ (p = <<>> => Len(p) = 0)
  BY WalkNodes
<1>2. Len(p) <= market.size
  <2>1. CASE p = <<>>
    BY <1>1, <2>1 DEF BFTyping
  <2>2. CASE p # <<>>
    <3>1. Len(p) - 1 + 1 <= market.size
      BY <2>2, FewNodes
    <3> QED
      BY <1>1, <3>1
  <2> QED
    BY <2>1, <2>2
<1>3. p \in UNION {[1..k -> market.edges] : k \in 0..market.size}
  <2>1. p \in [1..Len(p) -> market.edges] /\ Len(p) \in 0..market.size
    BY <1>1, <1>2 DEF BFTyping
  <2> QED
    BY <2>1
<1>4. \A i, j \in 1..Len(p) : p[i].to = p[j].to => i = j
  <2> TAKE i, j \in 1..Len(p)
  <2>1. p[i].to = At(n, p, i) /\ p[j].to = At(n, p, j)
    BY WalkNodes
  <2> QED
    BY <2>1 DEF Once
<1>5. p # <<>> => RouteEnd(p) = End(n, p)
  <2> SUFFICES ASSUME p # <<>> PROVE RouteEnd(p) = End(n, p)
    OBVIOUS
  <2>1. Len(p) # 0
    BY <1>1
  <2> QED
    BY <2>1 DEF RouteEnd, End, At
<1> QED
  BY <1>3, <1>4, <1>5 DEF Routes, IsWalk

LEMMA RouteIsWalk ==
    ASSUME BFTyping, NEW n, NEW p \in Routes(n)
    PROVE  IsWalk(n, p) /\ (p # <<>> => RouteEnd(p) = End(n, p))
<1>1. PICK k \in 0..market.size : p \in [1..k -> market.edges]
  BY DEF Routes
<1>2. k \in Nat
  BY <1>1 DEF BFTyping
<1>3. p \in Seq(market.edges) /\ Len(p) = k
  BY <1>1, <1>2
<1>4. IsWalk(n, p)
  BY <1>3 DEF Routes, IsWalk
<1>5. p # <<>> => RouteEnd(p) = End(n, p)
  <2> SUFFICES ASSUME p # <<>> PROVE RouteEnd(p) = End(n, p)
    OBVIOUS
  <2>1. Len(p) # 0
    BY <1>3
  <2> QED
    BY <2>1 DEF RouteEnd, End, At
<1> QED
  BY <1>4, <1>5

\* A way back to where it began that comes to no node twice, unless it is no way at all,
\* is a circle; where a negative one can be reached there is a NegativeCycle.
LEMMA CircleOnNodes ==
    ASSUME BFTyping, NEW M, OnNodes(M), NEW q, IsWalk(source, q), Once(source, q, 1),
           NEW c, IsWalk(End(source, q), c), End(End(source, q), c) = End(source, q),
           Once(End(source, q), c, 1), RouteCost(c) < 0
    PROVE  NegativeCycle
<1> DEFINE m == End(source, q)
<1>1. q \in Routes(source) /\ RouteEnd(q) = m
  <2>1. q \in Routes(source) /\ (q # <<>> => RouteEnd(q) = m)
    BY WalkIsRoute
  <2>2. q = <<>> => m = source
    BY NoWay
  <2> QED
    BY <2>1, <2>2 DEF RouteEnd
<1>2. c # <<>>
  BY CostOfNothing
<1>3. c \in Routes(m) /\ RouteEnd(c) = m
  <2> HIDE DEF m
  <2>1. IsWalk(m, c) /\ End(m, c) = m /\ Once(m, c, 1)
    BY DEF m
  <2> QED
    BY <1>2, <2>1, WalkIsRoute
<1>4. m \in {RouteEnd(p) : p \in Routes(source)} /\ c \in Routes(m) \ {<<>>}
  BY <1>1, <1>2, <1>3
<1> QED
  BY <1>3, <1>4, Zenon DEF NegativeCycle

LEMMA OnceIfNoTurn ==
    ASSUME NEW n, NEW p, Len(p) \in Nat, NEW lo \in {0, 1},
           \A i \in lo..Len(p) : \A j \in i..Len(p) : At(n, p, i) = At(n, p, j) => i = j
    PROVE  Once(n, p, lo)
<1> SUFFICES ASSUME NEW i \in lo..Len(p), NEW j \in lo..Len(p), At(n, p, i) = At(n, p, j)
             PROVE  i = j
  BY DEF Once
<1>1. i \in j..Len(p) \/ j \in i..Len(p)
  OBVIOUS
<1> QED
  BY <1>1

\* The shortest way to a node comes to no node twice.
LEMMA SimpleWay ==
    ASSUME BFTyping, NEW n, NEW p, IsWalk(n, p)
    PROVE  \E q : IsWalk(n, q) /\ End(n, q) = End(n, p) /\ Once(n, q, 0)
<1> DEFINE T == {q \in Seq(market.edges) : IsWalk(n, q) /\ End(n, q) = End(n, p)}
<1>1. T \in SUBSET Seq(market.edges) /\ T # {}
  BY DEF IsWalk
<1>2. PICK q \in T : \A r \in T : Len(q) <= Len(r)
  <2> HIDE DEF T
  <2> QED
    BY <1>1, LeastWalk
<1>3. IsWalk(n, q) /\ End(n, q) = End(n, p) /\ Len(q) \in Nat
  BY <1>2
<1>4. ASSUME NEW i \in 0..Len(q), NEW j \in i..Len(q), i # j, At(n, q, i) = At(n, q, j)
      PROVE  FALSE
  <2>1. IsWalk(n, Outer(q, i, j)) /\ End(n, Outer(q, i, j)) = End(n, q)
        /\ Len(Outer(q, i, j)) = Len(q) - (j - i)
    BY <1>3, <1>4, WayIsCut
  <2>2. Outer(q, i, j) \in T
    BY <1>3, <2>1 DEF IsWalk
  <2>3. Len(q) <= Len(q) - (j - i) /\ j > i
    BY <1>2, <1>3, <1>4, <2>1, <2>2
  <2> QED
    BY <1>3, <1>4, <2>3
<1>5. Once(n, q, 0)
  <2>1. \A i \in 0..Len(q) : \A j \in i..Len(q) : At(n, q, i) = At(n, q, j) => i = j
    BY <1>4
  <2> QED
    BY <1>3, <2>1, OnceIfNoTurn
<1> QED
  BY <1>3, <1>5

\* A node some way from the source leads to.
Reached(m) == \E q : IsWalk(source, q) /\ End(source, q) = m

LEMMA WaysStayReached ==
    ASSUME BFTyping, NEW m, Reached(m), NEW r, IsWalk(m, r)
    PROVE  \A i \in 0..Len(r) : Reached(At(m, r, i))
<1> DEFINE bad == {i \in 0..Len(r) : ~Reached(At(m, r, i))}
<1>1. Len(r) \in Nat
  BY WalkNodes
<1>2. ASSUME bad # {} PROVE FALSE
  <2>1. bad \in SUBSET Nat
    BY <1>1
  <2>2. PICK i \in bad : \A j \in bad : i <= j
    <3> HIDE DEF bad
    <3> QED
      BY <1>2, <2>1, LeastNat
  <2>3. i # 0
    BY <2>2 DEF At
  <2>4. i \in 1..Len(r) /\ i - 1 \in 0..Len(r) /\ ~(i <= i - 1)
    BY <1>1, <2>2, <2>3
  <2>5. i - 1 \notin bad
    BY <2>2, <2>4
  <2>6. PICK q : IsWalk(source, q) /\ End(source, q) = At(m, r, i - 1)
    BY <2>4, <2>5 DEF Reached
  <2>7. r[i] \in market.edges /\ r[i].from = At(m, r, i - 1) /\ r[i].to = At(m, r, i)
    BY <2>4, WalkNodes
  <2>8. IsWalk(source, Append(q, r[i])) /\ End(source, Append(q, r[i])) = At(m, r, i)
    BY <2>6, <2>7, WayGoesOn
  <2> QED
    BY <2>2, <2>8 DEF Reached
<1> QED
  BY <1>2

LEMMA NegativeCircle ==
    ASSUME BFTyping, NEW M, OnNodes(M), NEW p, IsWalk(source, p),
           NEW c, IsWalk(End(source, p), c), End(End(source, p), c) = End(source, p),
           RouteCost(c) < 0
    PROVE  NegativeCycle
<1> DEFINE Turns(m, r) == /\ IsWalk(m, r) /\ End(m, r) = m /\ RouteCost(r) < 0
                          /\ Reached(m)
           T == {r \in Seq(market.edges) : \E m : Turns(m, r)}
<1>1. T \in SUBSET Seq(market.edges) /\ T # {}
  <2>1. Turns(End(source, p), c)
    BY DEF Reached
  <2>2. c \in Seq(market.edges)
    BY DEF IsWalk
  <2> HIDE DEF Turns
  <2> QED
    BY <2>1, <2>2
<1>2. PICK r \in T : \A s \in T : Len(r) <= Len(s)
  <2> HIDE DEF T
  <2> QED
    BY <1>1, LeastWalk
<1>3. PICK m : Turns(m, r)
  BY <1>2
<1>4. Reached(m)
  BY <1>3
<1>5. IsWalk(m, r) /\ End(m, r) = m /\ RouteCost(r) < 0 /\ Len(r) \in Nat /\ r \in Seq(market.edges)
  BY <1>2, <1>3
<1>6. ASSUME NEW i \in 1..Len(r), NEW j \in i..Len(r), i # j, At(m, r, i) = At(m, r, j)
      PROVE  FALSE
  <2> DEFINE in == Inner(r, i, j)
             out == Outer(r, i, j)
             k == At(m, r, i)
  <2>1. i \in 0..Len(r) /\ i \in Nat /\ j \in Nat /\ i < j /\ i >= 1 /\ j <= Len(r)
    BY <1>5, <1>6
  <2>2. /\ IsWalk(k, in) /\ End(k, in) = k /\ Len(in) = j - i
        /\ IsWalk(m, out) /\ End(m, out) = m /\ Len(out) = Len(r) - (j - i)
        /\ RouteCost(r) = RouteCost(in) + RouteCost(out)
    BY <1>5, <1>6, <2>1, WayIsCut
  <2>3. in \in Seq(market.edges) /\ out \in Seq(market.edges)
    BY <2>2 DEF IsWalk
  <2>4. RouteCost(in) \in Int /\ RouteCost(out) \in Int
    BY <2>3, CostSum
  <2>5. Reached(k)
    BY <1>4, <1>5, <2>1, WaysStayReached
  <2> HIDE DEF in, out, k
  <2>6. CASE RouteCost(in) < 0
    <3>1. in \in T
      BY <2>2, <2>3, <2>5, <2>6
    <3>2. Len(r) <= j - i
      BY <1>2, <2>2, <3>1
    <3> QED
      BY <1>5, <2>1, <3>2
  <2>7. CASE RouteCost(out) < 0
    <3>1. out \in T
      BY <1>4, <2>2, <2>3, <2>7
    <3>2. Len(r) <= Len(r) - (j - i)
      BY <1>2, <2>2, <3>1
    <3> QED
      BY <1>5, <2>1, <3>2
  <2> QED
    BY <1>5, <2>2, <2>4, <2>6, <2>7
<1>7. Once(m, r, 1)
  <2>1. \A i \in 1..Len(r) : \A j \in i..Len(r) : At(m, r, i) = At(m, r, j) => i = j
    BY <1>6
  <2> QED
    BY <1>5, <2>1, OnceIfNoTurn
<1>8. PICK s : IsWalk(source, s) /\ End(source, s) = m /\ Once(source, s, 0)
  BY <1>4, SimpleWay DEF Reached
<1>9. Once(source, s, 1)
  <2>1. Len(s) \in Nat
    BY <1>8, WalkNodes
  <2> QED
    BY <1>8, <2>1 DEF Once
<1> QED
  BY <1>5, <1>7, <1>8, <1>9, CircleOnNodes

\* Where no circle is negative, no way is cheaper than all those of fewer edges than
\* there are markets.
LEMMA ShortWay ==
    ASSUME BFTyping, NEW M, OnNodes(M), market.size >= 1, ~NegativeCycle,
           NEW p, IsWalk(source, p)
    PROVE  \E q : /\ IsWalk(source, q) /\ End(source, q) = End(source, p)
                  /\ RouteCost(q) <= RouteCost(p)
                  /\ Once(source, q, 0) /\ Len(q) <= market.size - 1
<1> DEFINE T == {q \in Seq(market.edges) : /\ IsWalk(source, q) /\ End(source, q) = End(source, p)
                                           /\ RouteCost(q) <= RouteCost(p)}
<1>1. p \in Seq(market.edges) /\ RouteCost(p) \in Int
  BY CostSum DEF IsWalk
<1>2. p \in T /\ T \in SUBSET Seq(market.edges) /\ T # {}
  BY <1>1
<1>3. PICK q \in T : \A r \in T : Len(q) <= Len(r)
  <2> HIDE DEF T
  <2> QED
    BY <1>2, LeastWalk
<1>4. /\ IsWalk(source, q) /\ End(source, q) = End(source, p) /\ RouteCost(q) <= RouteCost(p)
      /\ Len(q) \in Nat /\ RouteCost(q) \in Int /\ q \in Seq(market.edges)
  <2>1. q \in Seq(market.edges)
    BY <1>3
  <2> QED
    BY <1>3, <2>1, CostSum
<1>5. ASSUME NEW i \in 0..Len(q), NEW j \in i..Len(q), i # j, At(source, q, i) = At(source, q, j)
      PROVE  FALSE
  <2> DEFINE in == Inner(q, i, j)
             out == Outer(q, i, j)
             k == At(source, q, i)
  <2>1. /\ IsWalk(k, in) /\ End(k, in) = k
        /\ IsWalk(source, out) /\ End(source, out) = End(source, q) /\ Len(out) = Len(q) - (j - i)
        /\ RouteCost(q) = RouteCost(in) + RouteCost(out)
    BY <1>4, <1>5, WayIsCut
  <2>2. in \in Seq(market.edges) /\ out \in Seq(market.edges)
    BY <2>1 DEF IsWalk
  <2>3. RouteCost(in) \in Int /\ RouteCost(out) \in Int
    BY <2>2, CostSum
  <2>4. Reached(source)
    BY NoWay DEF Reached
  <2>5. Reached(k)
    BY <1>4, <1>5, <2>4, WaysStayReached
  <2>6. PICK r : IsWalk(source, r) /\ End(source, r) = k
    BY <2>5 DEF Reached
  <2> HIDE DEF in, out, k
  <2>7. ~(RouteCost(in) < 0)
    BY <2>1, <2>6, NegativeCircle
  <2>8. RouteCost(out) <= RouteCost(p)
    BY <1>1, <1>4, <2>1, <2>3, <2>7
  <2>9. out \in T
    BY <1>4, <2>1, <2>2, <2>8
  <2>10. Len(q) <= Len(q) - (j - i) /\ j > i
    BY <1>3, <1>4, <1>5, <2>1, <2>9
  <2> QED
    BY <1>4, <1>5, <2>10
<1>6. Once(source, q, 0)
  <2>1. \A i \in 0..Len(q) : \A j \in i..Len(q) : At(source, q, i) = At(source, q, j) => i = j
    BY <1>5
  <2> QED
    BY <1>4, <2>1, OnceIfNoTurn
<1>7. Len(q) <= market.size - 1
  <2>1. CASE q = <<>>
    <3>1. Len(q) = 0 /\ market.size \in Nat
      BY <1>4, <2>1 DEF BFTyping
    <3> QED
      BY <3>1
  <2>2. CASE q # <<>>
    <3>1. Len(q) - 0 + 1 <= market.size
      BY <1>4, <1>6, <2>2, FewNodes
    <3> QED
      BY <1>4, <3>1 DEF BFTyping
  <2> QED
    BY <2>1, <2>2
<1> QED
  BY <1>4, <1>6, <1>7

-----------------------------------------------------------------------------
(* What the passes have achieved.                                          *)

\* The edges lead among as many nodes as there are markets.
SomeNodes ==
    /\ \E M : OnNodes(M)
    /\ Running => market.size >= 1

\* Every distance is the cost of a way from the source.
DistancesOfWalks ==
    Running =>
        /\ distances[source] # Unreachable /\ distances[source] <= 0
        /\ \A n \in Ids :
              distances[n] # Unreachable =>
                  \E p : IsWalk(source, p) /\ End(source, p) = n /\ RouteCost(p) = distances[n]

\* A distance is no more than the cost of this way to the node.
Below(p) ==
    /\ distances[End(source, p)] # Unreachable
    /\ distances[End(source, p)] <= RouteCost(p)

\* After pass k no way of at most k edges is cheaper; during it, none of those that end
\* with an edge the pass has come to.
PassesDone ==
    /\ bfStage \in {"relax", "detect"} =>
          \A p : IsWalk(source, p) /\ Len(p) <= pass - 1 => Below(p)
    /\ bfStage = "relax" =>
          \A p : IsWalk(source, p) /\ p # <<>> /\ Len(p) <= pass /\ p[Len(p)] \notin todo => Below(p)
    /\ bfStage = "detect" => pass = market.size

\* What the predecessors tell of the distances before they are final.
PredecessorsLead ==
    /\ bfStage = "idle" => \A n \in Ids : predecessors[n] = None
    /\ Running =>
        /\ \A n \in Ids :
              predecessors[n] = None => n = source \/ distances[n] = Unreachable
        /\ \A n \in Ids :
              predecessors[n] # None =>
                 \E e \in market.edges :
                    /\ e.from = predecessors[n] /\ e.to = n
                    /\ distances[n] # Unreachable /\ distances[e.from] # Unreachable
                    /\ distances[e.from] + e.cost <= distances[n]
        /\ predecessors[source] # None => distances[source] < 0

FlagIsRight ==
    /\ hasNegativeCycle \in BOOLEAN
    /\ bfStage # "done" => ~hasNegativeCycle
    /\ hasNegativeCycle => NegativeCycle

ShortestInv == SomeNodes /\ DistancesOfWalks /\ PassesDone /\ PredecessorsLead /\ FlagIsRight

-----------------------------------------------------------------------------
\* Ways depend on the market alone.
LEMMA SameWays ==
    ASSUME market' = market, source' = source
    PROVE  /\ \A n, p : IsWalk(n, p)' <=> IsWalk(n, p)
           /\ \A M : OnNodes(M)' <=> OnNodes(M)
           /\ NegativeCycle' <=> NegativeCycle
<1>1. \A n, p : IsWalk(n, p)' <=> IsWalk(n, p)
  BY DEF IsWalk
<1>2. \A M : OnNodes(M)' <=> OnNodes(M)
  BY DEF OnNodes
<1>3. \A n : Routes(n)' = Routes(n)
  BY DEF Routes
<1>4. \A p : RouteEnd(p)' = RouteEnd(p)
  BY DEF RouteEnd
<1>5. NegativeCycle' <=> NegativeCycle
  BY <1>3, <1>4, Zenon DEF NegativeCycle
<1> QED
  BY <1>1, <1>2, <1>5

LEMMA ShortestStart == BFInit => ShortestInv
<1> SUFFICES ASSUME BFInit PROVE ShortestInv
  OBVIOUS
<1>1. OnNodes({})
  BY FS_EmptySet DEF OnNodes, BFInit
<1> QED
  BY <1>1 DEF BFInit, ShortestInv, SomeNodes, DistancesOfWalks, PassesDone, PredecessorsLead,
              FlagIsRight, Running

LEMMA ShortestStutters ==
    ASSUME BFInv, ShortestInv, UNCHANGED bfVars
    PROVE  ShortestInv'
<1>1. market' = market /\ source' = source
  BY DEF bfVars
<1>2. (\A n, p : IsWalk(n, p)' <=> IsWalk(n, p)) /\ (\A M : OnNodes(M)' <=> OnNodes(M))
      /\ (NegativeCycle' <=> NegativeCycle)
  BY <1>1, SameWays
<1> QED
  BY <1>2 DEF ShortestInv, SomeNodes, DistancesOfWalks, PassesDone, PredecessorsLead,
              FlagIsRight, Running, bfVars, Below

LEMMA ShortestRefuses ==
    ASSUME BFInv, ShortestInv, NEW g, NEW s, BFRefuse(g, s)
    PROVE  ShortestInv'
<1>1. market' = market /\ source' = source /\ bfStage = "idle" /\ bfStage' = "refused"
      /\ UNCHANGED <<predecessors, hasNegativeCycle>>
  BY DEF BFRefuse
<1>2. (\A n, p : IsWalk(n, p)' <=> IsWalk(n, p)) /\ (\A M : OnNodes(M)' <=> OnNodes(M))
      /\ (NegativeCycle' <=> NegativeCycle)
  BY <1>1, SameWays
<1> QED
  BY <1>1, <1>2 DEF ShortestInv, SomeNodes, DistancesOfWalks, PassesDone, PredecessorsLead,
              FlagIsRight, Running

LEMMA ShortestBegins ==
    ASSUME BFInv, ShortestInv, NEW g, IsGraph(g), NEW s \in Ids, BFStart(g, s)
    PROVE  ShortestInv'
<1> DEFINE edges == getEdges(g, "market")
           M == getActiveNodes(g, "market")
<1>1. /\ bfStage = "idle" /\ market' = [edges |-> edges, size |-> Cardinality(M)]
      /\ todo' = edges /\ source' = s /\ pass' = 1 /\ distances' = [distances EXCEPT ![s] = 0]
      /\ UNCHANGED <<predecessors, hasNegativeCycle>>
      /\ bfStage' = IF market'.size = 1 THEN "detect" ELSE "relax"
  BY DEF BFStart
<1>2. Cardinality(M) \in Nat /\ Cardinality(M) >= 1 /\ M \subseteq Ids
  BY NodesOfGraph DEF BFStart, BFAccepts
<1>3. \A e \in edges : e.from \in M /\ e.to \in M
  BY EdgesOfGraph
<1>4. IsFiniteSet(M)
  BY <1>2, IdsAssumption, FS_Subset
<1>5. /\ distances' \in [Ids -> Int \cup {Unreachable}]
      /\ distances'[s] = 0
      /\ \A n \in Ids \ {s} : distances'[n] = Unreachable
      /\ Unreachable # 0
  BY <1>1, BellmanFordAssumption DEF BFInv, BFTyping
<1> HIDE DEF edges, M
<1>6. SomeNodes'
  <2>1. OnNodes(M)'
    BY <1>1, <1>3, <1>4 DEF OnNodes
  <2>2. market'.size >= 1
    BY <1>1, <1>2
  <2> QED
    BY <2>1, <2>2 DEF SomeNodes
<1>7. DistancesOfWalks'
  <2>1. IsWalk(s, <<>>)' /\ End(s, <<>>) = s /\ RouteCost(<<>>) = 0
    <3>1. <<>> \in Seq(market'.edges) /\ Len(<<>>) = 0 /\ 1..(0 - 1) = {}
      OBVIOUS
    <3>2. IsWalk(s, <<>>)'
      BY <3>1 DEF IsWalk
    <3> QED
      BY <3>2, NoWay
  <2> QED
    BY <1>1, <1>5, <2>1 DEF DistancesOfWalks
<1>8. PassesDone'
  <2>1. ASSUME NEW p, IsWalk(source, p)', Len(p) <= 0 PROVE Below(p)'
    <3>1. p \in Seq(market'.edges) /\ source' = s
      BY <1>1, <2>1 DEF IsWalk
    <3>2. p = <<>>
      BY <2>1, <3>1
    <3>3. End(s, p) = s /\ RouteCost(p) = 0
      BY <3>2, NoWay
    <3> QED
      BY <1>5, <3>1, <3>3 DEF Below
  <2>2. ASSUME NEW p, IsWalk(source, p)', p # <<>>, p[Len(p)] \notin todo' PROVE FALSE
    <3>1. p \in Seq(edges)
      BY <1>1, <2>2 DEF IsWalk
    <3>2. p[Len(p)] \in edges
      BY <2>2, <3>1
    <3> QED
      BY <1>1, <2>2, <3>2
  <2>3. bfStage' = "detect" => pass' = market'.size
    BY <1>1
  <2> QED
    BY <1>1, <2>1, <2>2, <2>3 DEF PassesDone
<1>9. PredecessorsLead'
  BY <1>1, <1>5, BellmanFordAssumption DEF PredecessorsLead, ShortestInv
<1>10. FlagIsRight'
  BY <1>1 DEF FlagIsRight, ShortestInv
<1> QED
  BY <1>6, <1>7, <1>8, <1>9, <1>10 DEF ShortestInv

\* An edge that improves nothing leaves no cheaper way that ends with it.
LEMMA EdgeIsBelow ==
    ASSUME BFTyping, NEW p, IsWalk(source, p), p # <<>>,
           NEW r, IsWalk(source, r), Below(r),
           NEW e \in market.edges, e.from = End(source, r),
           RouteCost(p) = RouteCost(r) + e.cost
    PROVE  /\ Candidate(e) = distances[e.from] + e.cost
           /\ Candidate(e) \in Int /\ Candidate(e) # Unreachable
           /\ Candidate(e) <= RouteCost(p)
           /\ ~Improves(e) => distances[e.to] # Unreachable /\ distances[e.to] <= RouteCost(p)
<1>1. e.from \in Ids /\ e.to \in Ids /\ e.cost \in Int
  BY DEF BFTyping
<1>2. RouteCost(r) \in Int
  BY CostSum DEF IsWalk
<1>3. distances[e.from] # Unreachable /\ distances[e.from] \in Int /\ distances[e.from] <= RouteCost(r)
  BY <1>1 DEF Below, BFTyping
<1>4. Candidate(e) = distances[e.from] + e.cost /\ Candidate(e) \in Int /\ Candidate(e) # Unreachable
  BY <1>1, <1>3, BellmanFordAssumption DEF Candidate
<1>5. Candidate(e) <= RouteCost(p)
  BY <1>1, <1>2, <1>3, <1>4
<1>6. ASSUME ~Improves(e) PROVE distances[e.to] # Unreachable /\ distances[e.to] <= RouteCost(p)
  <2>1. distances[e.to] # Unreachable /\ ~(Candidate(e) < distances[e.to])
    BY <1>4, <1>6 DEF Improves, Less
  <2>2. distances[e.to] \in Int
    BY <1>1, <2>1 DEF BFTyping
  <2>3. RouteCost(p) \in Int
    BY <1>1, <1>2
  <2> QED
    BY <1>4, <1>5, <2>1, <2>2, <2>3
<1> QED
  BY <1>4, <1>5, <1>6

LEMMA ShortestRelaxes ==
    ASSUME BFInv, ShortestInv, NEW e \in todo, BFRelax(e)
    PROVE  ShortestInv'
<1>1. BFTyping /\ e \in market.edges /\ e.from \in Ids /\ e.to \in Ids /\ e.cost \in Int /\ source \in Ids
      /\ pass \in Nat /\ todo \subseteq market.edges
  <2>1. BFTyping /\ bfStage = "relax"
    BY DEF BFInv, BFRelax
  <2> QED
    BY <2>1 DEF BFTyping
<1>2. bfStage = "relax" /\ bfStage' = "relax" /\ todo' = todo \ {e} /\ market' = market
      /\ source' = source /\ pass' = pass /\ hasNegativeCycle' = hasNegativeCycle
  BY DEF BFRelax
<1>3. (\A n, p : IsWalk(n, p)' <=> IsWalk(n, p)) /\ (\A M : OnNodes(M)' <=> OnNodes(M))
      /\ (NegativeCycle' <=> NegativeCycle)
  BY <1>2, SameWays
<1>4. SomeNodes' /\ FlagIsRight'
  BY <1>2, <1>3 DEF SomeNodes, FlagIsRight, ShortestInv, Running
\* What the step does to the distances, whether it improves one or not.
<1>5. CASE ~Improves(e)
  <2>1. distances' = distances /\ predecessors' = predecessors
    BY <1>5 DEF BFRelax
  <2>2. DistancesOfWalks' /\ PredecessorsLead'
    BY <1>2, <1>3, <2>1 DEF DistancesOfWalks, PredecessorsLead, ShortestInv, Running
  <2>3. \A p : Below(p)' <=> Below(p)
    BY <1>2, <2>1 DEF Below
  <2>4. ASSUME NEW p, IsWalk(source, p), p # <<>>, Len(p) <= pass, p[Len(p)] = e PROVE Below(p)
    <3>1. PICK r : /\ IsWalk(source, r) /\ Len(r) = Len(p) - 1 /\ e.from = End(source, r)
                   /\ e.to = End(source, p) /\ RouteCost(p) = RouteCost(r) + e.cost
      BY <1>1, <2>4, LastEdge
    <3>2. Len(r) <= pass - 1
      <4>1. Len(p) \in Nat
        BY <1>1, <2>4, WalkNodes
      <4> QED
        BY <1>1, <2>4, <3>1, <4>1
    <3>3. Below(r)
      BY <1>2, <3>1, <3>2 DEF PassesDone, ShortestInv
    <3> QED
      BY <1>1, <1>5, <2>4, <3>1, <3>3, EdgeIsBelow DEF Below
  <2>5. PassesDone'
    <3>1. ASSUME NEW p, IsWalk(source, p), p # <<>>, Len(p) <= pass, p[Len(p)] \notin todo \ {e}
          PROVE  Below(p)
      BY <1>2, <2>4, <3>1 DEF PassesDone, ShortestInv
    <3> QED
      BY <1>2, <1>3, <2>3, <3>1 DEF PassesDone, ShortestInv
  <2> QED
    BY <1>4, <2>2, <2>5 DEF ShortestInv
<1>6. CASE Improves(e)
  <2>1. /\ distances' = [distances EXCEPT ![e.to] = Candidate(e)]
        /\ predecessors' = [predecessors EXCEPT ![e.to] = e.from]
    BY <1>6 DEF BFRelax
  <2>2. /\ distances[e.from] \in Int
        /\ Candidate(e) = distances[e.from] + e.cost
        /\ Candidate(e) \in Int
        /\ Candidate(e) # Unreachable /\ distances[e.from] # Unreachable
    BY <1>1, <1>6, RelaxedIsLower, BellmanFordAssumption
  <2>3. /\ distances'[e.to] = Candidate(e)
        /\ \A n \in Ids \ {e.to} : distances'[n] = distances[n]
        /\ predecessors'[e.to] = e.from
        /\ \A n \in Ids \ {e.to} : predecessors'[n] = predecessors[n]
    BY <1>1, <2>1 DEF BFTyping
  <2>4. distances[e.to] = Unreachable \/ (distances[e.to] \in Int /\ Candidate(e) < distances[e.to])
    BY <1>1, <1>6, <2>2 DEF Improves, Less, BFTyping
  <2>5. \A n \in Ids : distances[n] # Unreachable =>
             /\ distances[n] \in Int /\ distances'[n] \in Int /\ distances'[n] # Unreachable
             /\ distances'[n] <= distances[n]
    <3> TAKE n \in Ids
    <3> SUFFICES ASSUME distances[n] # Unreachable
                 PROVE  /\ distances[n] \in Int /\ distances'[n] \in Int /\ distances'[n] # Unreachable
                        /\ distances'[n] <= distances[n]
      OBVIOUS
    <3>1. distances[n] \in Int
      BY <1>1 DEF BFTyping
    <3>2. CASE n = e.to
      BY <2>2, <2>3, <2>4, <3>1, <3>2
    <3>3. CASE n # e.to
      BY <2>3, <3>1, <3>3
    <3> QED
      BY <3>2, <3>3
  <2>6. \A p : IsWalk(source, p) => End(source, p) \in Ids /\ RouteCost(p) \in Int /\ Len(p) \in Nat
    <3> TAKE p
    <3> HAVE IsWalk(source, p)
    <3>1. Len(p) \in Nat /\ p \in Seq(market.edges)
          /\ \A i \in 1..Len(p) : p[i] \in market.edges
      BY <1>1, WalkNodes
    <3>2. RouteCost(p) \in Int
      BY <1>1, <3>1, CostSum
    <3>3. CASE Len(p) = 0
      BY <1>1, <3>1, <3>2, <3>3 DEF End, At
    <3>4. CASE Len(p) # 0
      <4>1. Len(p) \in 1..Len(p)
        BY <3>1, <3>4
      <4>2. p[Len(p)].to \in Ids
        BY <1>1, <3>1, <4>1 DEF BFTyping
      <4> QED
        BY <3>1, <3>2, <3>4, <4>2 DEF End, At
    <3> QED
      BY <3>3, <3>4
  <2>7. ASSUME NEW p, IsWalk(source, p), Below(p) PROVE Below(p)'
    <3>1. End(source, p) \in Ids /\ RouteCost(p) \in Int
      BY <2>6, <2>7
    <3> DEFINE n == End(source, p)
    <3>2. distances[n] # Unreachable /\ distances[n] <= RouteCost(p)
      BY <2>7 DEF Below
    <3> HIDE DEF n
    <3>3. distances'[n] # Unreachable /\ distances'[n] <= RouteCost(p)
      <4>1. n \in Ids
        BY <3>1 DEF n
      <4> QED
        BY <2>5, <3>1, <3>2, <4>1
    <3> QED
      BY <1>2, <3>3 DEF Below, n
  <2>8. DistancesOfWalks'
    <3>1. distances'[source] # Unreachable /\ distances'[source] <= 0
      <4>1. distances[source] # Unreachable /\ distances[source] <= 0
        BY <1>2 DEF DistancesOfWalks, ShortestInv, Running
      <4> QED
        BY <1>1, <2>5, <4>1
    <3>2. ASSUME NEW n \in Ids, distances'[n] # Unreachable
          PROVE  \E p : IsWalk(source, p) /\ End(source, p) = n /\ RouteCost(p) = distances'[n]
      <4>1. CASE n # e.to
        BY <1>2, <2>3, <3>2, <4>1 DEF DistancesOfWalks, ShortestInv, Running
      <4>2. CASE n = e.to
        <5>1. PICK q : IsWalk(source, q) /\ End(source, q) = e.from /\ RouteCost(q) = distances[e.from]
          BY <1>1, <1>2, <2>2 DEF DistancesOfWalks, ShortestInv, Running
        <5>2. /\ IsWalk(source, Append(q, e)) /\ End(source, Append(q, e)) = e.to
              /\ RouteCost(Append(q, e)) = RouteCost(q) + e.cost
          BY <1>1, <5>1, WayGoesOn
        <5> QED
          BY <2>2, <2>3, <4>2, <5>1, <5>2
      <4> QED
        BY <4>1, <4>2
    <3> QED
      BY <1>2, <1>3, <3>1, <3>2 DEF DistancesOfWalks
  <2>9. ASSUME NEW p, IsWalk(source, p), p # <<>>, Len(p) <= pass, p[Len(p)] = e PROVE Below(p)'
    <3>1. PICK r : /\ IsWalk(source, r) /\ Len(r) = Len(p) - 1 /\ e.from = End(source, r)
                   /\ e.to = End(source, p) /\ RouteCost(p) = RouteCost(r) + e.cost
      BY <1>1, <2>9, LastEdge
    <3>2. Len(r) <= pass - 1
      BY <1>1, <2>6, <2>9, <3>1
    <3>3. Below(r)
      BY <1>2, <3>1, <3>2 DEF PassesDone, ShortestInv
    <3>4. Candidate(e) <= RouteCost(p)
      BY <1>1, <2>9, <3>1, <3>3, EdgeIsBelow
    <3> QED
      BY <1>2, <2>2, <2>3, <3>1, <3>4 DEF Below
  <2>10. PassesDone'
    <3>1. ASSUME NEW p, IsWalk(source, p), Len(p) <= pass - 1
          PROVE  Below(p)'
      BY <1>2, <2>7, <3>1 DEF PassesDone, ShortestInv
    <3>2. ASSUME NEW p, IsWalk(source, p), p # <<>>, Len(p) <= pass, p[Len(p)] \notin todo \ {e}
          PROVE  Below(p)'
      <4>1. CASE p[Len(p)] = e
        BY <2>9, <3>2, <4>1
      <4>2. CASE p[Len(p)] # e
        <5>1. Below(p)
          BY <1>2, <3>2, <4>2 DEF PassesDone, ShortestInv
        <5> QED
          BY <2>7, <3>2, <5>1
      <4> QED
        BY <4>1, <4>2
    <3> QED
      BY <1>2, <1>3, <3>1, <3>2 DEF PassesDone
  <2>11. PredecessorsLead'
    <3>1. ASSUME NEW n \in Ids, predecessors'[n] = None PROVE n = source \/ distances'[n] = Unreachable
      <4>1. n # e.to
        BY <1>1, <2>3, <3>1, BellmanFordAssumption
      <4> QED
        BY <1>2, <2>3, <3>1, <4>1 DEF PredecessorsLead, ShortestInv, Running
    <3>2. ASSUME NEW n \in Ids, predecessors'[n] # None
          PROVE  \E x \in market.edges :
                    /\ x.from = predecessors'[n] /\ x.to = n
                    /\ distances'[n] # Unreachable /\ distances'[x.from] # Unreachable
                    /\ distances'[x.from] + x.cost <= distances'[n]
      <4>1. CASE n = e.to
        <5>1. distances'[e.from] # Unreachable /\ distances'[e.from] <= distances[e.from]
              /\ distances'[e.from] \in Int
          BY <1>1, <2>2, <2>5
        <5>2. distances'[e.from] + e.cost <= distances'[n]
          BY <1>1, <2>2, <2>3, <4>1, <5>1
        <5> QED
          BY <1>1, <2>2, <2>3, <4>1, <5>1, <5>2
      <4>2. CASE n # e.to
        <5>1. predecessors[n] # None
          BY <2>3, <3>2, <4>2
        <5>2. PICK x \in market.edges :
                    /\ x.from = predecessors[n] /\ x.to = n
                    /\ distances[n] # Unreachable /\ distances[x.from] # Unreachable
                    /\ distances[x.from] + x.cost <= distances[n]
          BY <1>2, <5>1 DEF PredecessorsLead, ShortestInv, Running
        <5>3. x.from \in Ids /\ x.cost \in Int
          BY <1>1 DEF BFTyping
        <5>4. /\ distances[x.from] \in Int /\ distances'[x.from] \in Int
              /\ distances'[x.from] # Unreachable /\ distances'[x.from] <= distances[x.from]
          BY <2>5, <5>2, <5>3
        <5>5. distances'[n] = distances[n] /\ distances[n] \in Int
          BY <2>3, <2>5, <4>2, <5>2
        <5>6. distances'[x.from] + x.cost <= distances'[n]
          BY <5>2, <5>3, <5>4, <5>5
        <5> QED
          BY <2>3, <4>2, <5>2, <5>4, <5>5, <5>6
      <4> QED
        BY <4>1, <4>2
    <3>3. ASSUME predecessors'[source] # None PROVE distances'[source] < 0
      <4>1. distances[source] # Unreachable /\ distances[source] <= 0 /\ distances[source] \in Int
        BY <1>1, <1>2 DEF DistancesOfWalks, ShortestInv, Running, BFTyping
      <4>2. CASE source = e.to
        BY <2>2, <2>3, <2>4, <4>1, <4>2
      <4>3. CASE source # e.to
        <5>1. distances[source] < 0
          BY <1>1, <1>2, <2>3, <3>3, <4>3 DEF PredecessorsLead, ShortestInv, Running
        <5> QED
          BY <1>1, <2>3, <4>3, <5>1
      <4> QED
        BY <4>2, <4>3
    <3> QED
      BY <1>2, <3>1, <3>2, <3>3 DEF PredecessorsLead
  <2> QED
    BY <1>4, <2>8, <2>10, <2>11 DEF ShortestInv
<1> QED
  BY <1>5, <1>6

LEMMA ShortestEndsPass ==
    ASSUME BFInv, ShortestInv, BFEndPass
    PROVE  ShortestInv'
<1>1. BFTyping /\ bfStage = "relax" /\ todo = {} /\ market' = market /\ source' = source
      /\ distances' = distances /\ predecessors' = predecessors
      /\ hasNegativeCycle' = hasNegativeCycle /\ bfStage' \in {"relax", "detect", "done"}
  BY DEF BFEndPass, BFInv
<1>2. (\A n, p : IsWalk(n, p)' <=> IsWalk(n, p)) /\ (\A M : OnNodes(M)' <=> OnNodes(M))
      /\ (NegativeCycle' <=> NegativeCycle)
  BY <1>1, SameWays
<1>3. SomeNodes' /\ DistancesOfWalks' /\ PredecessorsLead'
  BY <1>1, <1>2 DEF SomeNodes, DistancesOfWalks, PredecessorsLead, ShortestInv, Running
<1>4. FlagIsRight'
  BY <1>1, <1>2 DEF FlagIsRight, ShortestInv
<1>5. PassesDone'
  <2>1. CASE ~anyRelaxation
    BY <2>1 DEF BFEndPass, PassesDone
  <2>2. CASE anyRelaxation
    <3>1. /\ bfStage' = IF pass < market.size - 1 THEN "relax" ELSE "detect"
          /\ pass' = pass + 1 /\ todo' = market.edges
      BY <2>2 DEF BFEndPass
    <3>2. pass \in 1..(market.size - 1) /\ market.size \in Nat
      BY <1>1 DEF BFTyping
    <3>3. \A p : Below(p)' <=> Below(p)
      BY <1>1 DEF Below
    <3>4. ASSUME NEW p, IsWalk(source, p), Len(p) <= pass PROVE Below(p)
      <4>1. CASE p = <<>>
        <5>1. Len(p) <= pass - 1
          BY <3>2, <4>1
        <5> QED
          BY <1>1, <3>4, <5>1 DEF PassesDone, ShortestInv
      <4>2. CASE p # <<>>
        BY <1>1, <3>4, <4>2 DEF PassesDone, ShortestInv
      <4> QED
        BY <4>1, <4>2
    <3>5. ASSUME NEW p, IsWalk(source, p), p # <<>>, p[Len(p)] \notin market.edges PROVE FALSE
      <4>1. p \in Seq(market.edges)
        BY <3>5 DEF IsWalk
      <4> QED
        BY <3>5, <4>1
    <3>6. pass' - 1 = pass /\ (bfStage' = "detect" => pass' = market'.size)
      BY <1>1, <3>1, <3>2
    <3> QED
      BY <1>1, <1>2, <3>1, <3>3, <3>4, <3>5, <3>6 DEF PassesDone
  <2> QED
    BY <2>1, <2>2 DEF BFEndPass
<1> QED
  BY <1>3, <1>4, <1>5 DEF ShortestInv

\* An improvement the V-th pass still finds is the work of a negative circle.
LEMMA DetectedIsNegative ==
    ASSUME BFInv, ShortestInv, bfStage = "detect", NEW e \in market.edges, Improves(e)
    PROVE  NegativeCycle
<1>1. /\ BFTyping /\ Running /\ market.size \in Nat /\ market.size >= 1 /\ pass = market.size
      /\ e.from \in Ids /\ e.to \in Ids /\ e.cost \in Int
  BY DEF BFInv, BFTyping, ShortestInv, SomeNodes, PassesDone, Running
<1>2. PICK M : OnNodes(M)
  BY DEF ShortestInv, SomeNodes
<1>3. /\ distances[e.from] \in Int /\ distances[e.from] # Unreachable
      /\ Candidate(e) = distances[e.from] + e.cost /\ Candidate(e) \in Int
      /\ Candidate(e) # Unreachable
  BY <1>1, RelaxedIsLower, BellmanFordAssumption
<1>4. PICK q : IsWalk(source, q) /\ End(source, q) = e.from /\ RouteCost(q) = distances[e.from]
  BY <1>1, <1>3 DEF DistancesOfWalks, ShortestInv
<1>5. /\ IsWalk(source, Append(q, e)) /\ End(source, Append(q, e)) = e.to
      /\ RouteCost(Append(q, e)) = Candidate(e)
  BY <1>1, <1>3, <1>4, WayGoesOn
<1> SUFFICES ASSUME ~NegativeCycle PROVE FALSE
  OBVIOUS
<1>6. PICK r : /\ IsWalk(source, r) /\ End(source, r) = e.to /\ RouteCost(r) <= Candidate(e)
               /\ Len(r) <= market.size - 1
  BY <1>1, <1>2, <1>5, ShortWay
<1>7. Below(r)
  BY <1>1, <1>6 DEF PassesDone, ShortestInv
<1>8. distances[e.to] # Unreachable /\ distances[e.to] <= RouteCost(r) /\ distances[e.to] \in Int
  BY <1>1, <1>6, <1>7 DEF Below, BFTyping
<1>9. RouteCost(r) \in Int
  BY <1>1, <1>6, CostSum DEF IsWalk
<1>10. Candidate(e) < distances[e.to]
  BY <1>8 DEF Improves, Less
<1> QED
  BY <1>3, <1>6, <1>8, <1>9, <1>10

LEMMA ShortestDetects ==
    ASSUME BFInv, ShortestInv, BFEndDetect \/ \E e \in todo : BFDetect(e)
    PROVE  ShortestInv'
<1>1. /\ bfStage = "detect" /\ bfStage' \in {"detect", "done"} /\ pass' = pass
      /\ market' = market /\ source' = source
      /\ distances' = distances /\ predecessors' = predecessors
  BY DEF BFEndDetect, BFDetect
<1>2. (\A n, p : IsWalk(n, p)' <=> IsWalk(n, p)) /\ (\A M : OnNodes(M)' <=> OnNodes(M))
      /\ (NegativeCycle' <=> NegativeCycle) /\ (\A p : Below(p)' <=> Below(p))
  BY <1>1, SameWays DEF Below
<1>3. SomeNodes' /\ DistancesOfWalks' /\ PredecessorsLead' /\ PassesDone'
  BY <1>1, <1>2 DEF SomeNodes, DistancesOfWalks, PredecessorsLead, PassesDone, ShortestInv, Running
<1>4. FlagIsRight'
  <2>1. ~hasNegativeCycle /\ hasNegativeCycle \in BOOLEAN
    BY <1>1 DEF FlagIsRight, ShortestInv
  <2>2. hasNegativeCycle' = hasNegativeCycle \/
        (bfStage' = "done" /\ hasNegativeCycle' = TRUE /\ \E e \in todo : Improves(e))
    BY DEF BFEndDetect, BFDetect
  <2>3. (\E e \in todo : Improves(e)) => NegativeCycle
    BY <1>1, DetectedIsNegative DEF BFInv, BFTyping
  <2>4. bfStage' # "done" => hasNegativeCycle' = hasNegativeCycle
    BY <2>2
  <2>5. hasNegativeCycle' = hasNegativeCycle \/ (hasNegativeCycle' = TRUE /\ NegativeCycle)
    BY <2>2, <2>3, Zenon
  <2>6. hasNegativeCycle' \in BOOLEAN /\ (bfStage' # "done" => ~hasNegativeCycle')
    <3>1. TRUE \in BOOLEAN
      OBVIOUS
    <3>2. hasNegativeCycle' \in BOOLEAN
      BY <2>1, <2>5, <3>1, Zenon
    <3>3. bfStage' # "done" => ~hasNegativeCycle'
      BY <2>1, <2>4, Zenon
    <3> QED
      BY <3>2, <3>3
  <2>7. hasNegativeCycle' => NegativeCycle'
    BY <1>2, <2>1, <2>5, Zenon
  <2> QED
    BY <2>6, <2>7, Zenon DEF FlagIsRight
<1> QED
  BY <1>3, <1>4 DEF ShortestInv

-----------------------------------------------------------------------------
LEMMA ShortestAnswer ==
    ASSUME BFInv, ShortestInv
    PROVE  DistancesAreShortest
<1> SUFFICES ASSUME bfStage = "done"
             PROVE  /\ hasNegativeCycle = NegativeCycle
                    /\ ~hasNegativeCycle =>
                          \A n \in Ids :
                             LET costs == {RouteCost(p) : p \in {r \in Routes(source) : RouteEnd(r) = n}}
                             IN  distances[n] = IF costs = {} THEN Unreachable ELSE Min(costs)
                    /\ PredecessorsAccountForDistances
  BY DEF DistancesAreShortest
<1>1. /\ BFTyping /\ Running /\ source \in Ids /\ hasNegativeCycle \in BOOLEAN
      /\ (hasNegativeCycle => NegativeCycle) /\ market.size >= 1
  BY DEF BFInv, BFTyping, ShortestInv, FlagIsRight, SomeNodes, Running
<1>2. CASE hasNegativeCycle
  <2>1. hasNegativeCycle = NegativeCycle
    BY <1>1, <1>2, Zenon DEF NegativeCycle
  <2> QED
    BY <1>2, <2>1 DEF PredecessorsAccountForDistances, Answered
<1>3. CASE ~hasNegativeCycle
  <2>1. \A e \in market.edges : ~Improves(e)
    BY <1>3 DEF BFInv, Settled, Answered
  <2>2. PICK M : OnNodes(M)
    BY DEF ShortestInv, SomeNodes
  <2>3. /\ distances[source] # Unreachable /\ distances[source] <= 0 /\ distances[source] \in Int
        /\ \A n \in Ids : distances[n] # Unreachable => distances[n] \in Int
    BY <1>1 DEF ShortestInv, DistancesOfWalks, BFTyping
  <2>4. ASSUME NEW r \in Routes(source)
        PROVE  /\ IsWalk(source, r) /\ End(source, r) = RouteEnd(r) /\ RouteEnd(r) \in Ids
               /\ RouteCost(r) \in Int
               /\ distances[RouteEnd(r)] # Unreachable /\ distances[RouteEnd(r)] <= RouteCost(r)
    <3>1. IsWalk(source, r) /\ (r # <<>> => RouteEnd(r) = End(source, r))
      BY <1>1, RouteIsWalk
    <3>2. r = <<>> => RouteEnd(r) = source /\ End(source, r) = source
      BY NoWay DEF RouteEnd
    <3>3. RouteCost(r) \in Int
      BY <1>1, <3>1, CostSum DEF IsWalk
    <3>4. distances[End(source, r)] # Unreachable
          /\ distances[End(source, r)] <= distances[source] + RouteCost(r)
      BY <1>1, <2>1, <2>3, <3>1, NoWayImproves
    <3>5. RouteEnd(r) \in Ids
      <4>1. CASE r = <<>>
        BY <1>1, <3>2, <4>1
      <4>2. CASE r # <<>>
        <5>1. r \in Seq(market.edges)
          BY <3>1 DEF IsWalk
        <5>2. r[Len(r)] \in market.edges
          BY <4>2, <5>1
        <5> QED
          BY <1>1, <4>2, <5>2 DEF RouteEnd, BFTyping
      <4> QED
        BY <4>1, <4>2
    <3>6. End(source, r) = RouteEnd(r)
      BY <3>1, <3>2
    <3>7. distances[RouteEnd(r)] <= RouteCost(r)
      <4>1. distances[RouteEnd(r)] <= distances[source] + RouteCost(r) /\ distances[RouteEnd(r)] \in Int
        BY <2>3, <3>4, <3>5, <3>6
      <4> QED
        BY <2>3, <3>3, <4>1
    <3> QED
      BY <3>1, <3>3, <3>4, <3>5, <3>6, <3>7
  <2>5. ~NegativeCycle
    <3> SUFFICES ASSUME NEW q \in Routes(source), NEW c \in Routes(RouteEnd(q)) \ {<<>>},
                        RouteEnd(c) = RouteEnd(q), RouteCost(c) < 0
                 PROVE  FALSE
      BY DEF NegativeCycle
    <3> DEFINE n == RouteEnd(q)
    <3>1. n \in Ids /\ distances[n] # Unreachable
      BY <2>4
    <3>2. IsWalk(n, c) /\ End(n, c) = n
      BY <1>1, RouteIsWalk
    <3> HIDE DEF n
    <3>3. distances[n] <= distances[n] + RouteCost(c)
      BY <1>1, <2>1, <3>1, <3>2, NoWayImproves
    <3>4. RouteCost(c) \in Int
      BY <1>1, <3>2, CostSum DEF IsWalk
    <3> QED
      BY <2>3, <3>1, <3>3, <3>4
  <2>6. ASSUME NEW n \in Ids
        PROVE  LET costs == {RouteCost(p) : p \in {r \in Routes(source) : RouteEnd(r) = n}}
               IN  distances[n] = IF costs = {} THEN Unreachable ELSE Min(costs)
    <3> DEFINE costs == {RouteCost(p) : p \in {r \in Routes(source) : RouteEnd(r) = n}}
    <3>1. \A x \in costs : x \in Int /\ distances[n] # Unreachable /\ distances[n] <= x
      BY <2>4
    <3>2. distances[n] # Unreachable => distances[n] \in costs
      <4> HAVE distances[n] # Unreachable
      <4>1. PICK p : IsWalk(source, p) /\ End(source, p) = n /\ RouteCost(p) = distances[n]
        BY <1>1 DEF ShortestInv, DistancesOfWalks
      <4>2. PICK q : /\ IsWalk(source, q) /\ End(source, q) = n /\ RouteCost(q) <= distances[n]
                     /\ Once(source, q, 0)
        BY <1>1, <2>2, <2>5, <4>1, ShortWay
      <4>3. Once(source, q, 1)
        <5>1. Len(q) \in Nat
          BY <1>1, <4>2, WalkNodes
        <5> QED
          BY <4>2, <5>1 DEF Once
      <4>4. q \in Routes(source)
        BY <1>1, <2>2, <4>2, <4>3, WalkIsRoute
      <4>5. RouteEnd(q) = n /\ distances[n] <= RouteCost(q) /\ RouteCost(q) \in Int
        BY <2>4, <4>2, <4>4
      <4>6. RouteCost(q) = distances[n]
        BY <2>3, <4>2, <4>5
      <4> QED
        BY <4>4, <4>5, <4>6
    <3> HIDE DEF costs
    <3>3. CASE costs = {}
      BY <3>2, <3>3 DEF costs
    <3>4. CASE costs # {}
      <4>1. distances[n] \in costs /\ distances[n] \in Int
        BY <2>3, <3>1, <3>2, <3>4
      <4>2. \E x \in costs : \A y \in costs : x <= y
        BY <3>1, <4>1
      <4>3. Min(costs) \in costs /\ \A y \in costs : Min(costs) <= y
        BY <4>2, Zenon DEF Min
      <4>4. Min(costs) = distances[n]
        <5>1. Min(costs) \in Int /\ Min(costs) <= distances[n] /\ distances[n] <= Min(costs)
          BY <3>1, <4>1, <4>3
        <5> QED
          BY <4>1, <5>1
      <4> QED
        BY <3>4, <4>4 DEF costs
    <3> QED
      BY <3>3, <3>4
  <2>7. PredecessorsAccountForDistances
    <3>1. predecessors[source] = None
      <4> SUFFICES ASSUME predecessors[source] # None PROVE FALSE
        OBVIOUS
      <4>1. distances[source] < 0
        BY <1>1 DEF ShortestInv, PredecessorsLead
      <4>2. PICK p : IsWalk(source, p) /\ End(source, p) = source /\ RouteCost(p) = distances[source]
        BY <1>1, <2>3 DEF ShortestInv, DistancesOfWalks
      <4>3. distances[source] <= distances[source] + distances[source]
        BY <1>1, <2>1, <2>3, <4>2, NoWayImproves
      <4> QED
        BY <2>3, <4>1, <4>3
    <3>2. ASSUME NEW n \in Ids \ {source}, distances[n] = Unreachable PROVE predecessors[n] = None
      BY <1>1, <3>2 DEF ShortestInv, PredecessorsLead
    <3>3. ASSUME NEW n \in Ids \ {source}, distances[n] # Unreachable
          PROVE  \E e \in market.edges :
                    e.from = predecessors[n] /\ e.to = n /\ distances[n] = Candidate(e)
      <4>1. predecessors[n] # None
        BY <1>1, <3>3 DEF ShortestInv, PredecessorsLead
      <4>2. PICK e \in market.edges : /\ e.from = predecessors[n] /\ e.to = n
                                      /\ distances[e.from] # Unreachable
                                      /\ distances[e.from] + e.cost <= distances[n]
        BY <1>1, <4>1 DEF ShortestInv, PredecessorsLead
      <4>3. e.from \in Ids /\ e.cost \in Int /\ distances[e.from] \in Int /\ distances[n] \in Int
        BY <1>1, <2>3, <3>3, <4>2 DEF BFTyping
      <4>4. Candidate(e) = distances[e.from] + e.cost /\ Candidate(e) # Unreachable
        BY <4>2, <4>3, BellmanFordAssumption DEF Candidate
      <4>5. ~(Candidate(e) < distances[n])
        BY <2>1, <3>3, <4>2, <4>4 DEF Improves, Less
      <4>6. distances[n] = Candidate(e)
        BY <4>2, <4>3, <4>4, <4>5
      <4> QED
        BY <4>2, <4>6
    <3> QED
      BY <3>1, <3>2, <3>3 DEF PredecessorsAccountForDistances
  <2>8. hasNegativeCycle = NegativeCycle
    BY <1>1, <1>3, <2>5, Zenon DEF NegativeCycle
  <2> QED
    BY <1>3, <2>6, <2>7, <2>8
<1> QED
  BY <1>1, <1>2, <1>3

-----------------------------------------------------------------------------
(* Ford-Fulkerson: what is pushed one way can be taken back the other, so  *)
(* the residuals of two centers keep their sum; the search leaves no open  *)
(* neighbour behind.                                                       *)

FFTyping ==
    /\ ffStage \in {"idle", "refused", "build", "search", "augment", "done"}
    /\ residual \in [Pairs -> Nat] /\ original \in [Pairs -> Nat]
    /\ parent \in [Ids -> Ids \cup {None}]
    /\ queue \in Seq(Ids)
    /\ maxFlow \in Nat
    /\ \A e \in unread : e.from \in Ids /\ e.to \in Ids /\ e.capacity \in Nat
    /\ ffStage \notin {"idle", "refused"} => sourceId \in Ids /\ sinkId \in Ids

Balanced ==
    \A u, v \in Ids :
        residual[<<u, v>>] + residual[<<v, u>>] = original[<<u, v>>] + original[<<v, u>>]

\* Parents are visited, and there is capacity left from them.
Traced ==
    /\ ffStage \in {"search", "augment", "done"} =>
          /\ sourceId # sinkId
          /\ parent[sourceId] = None
          /\ \A v \in Ids :
                parent[v] # None => residual[<<parent[v], v>>] > 0 /\ Visited(parent[v])
    /\ ffStage = "augment" => parent[sinkId] # None

Queued(n) == \E i \in 1..Len(queue) : queue[i] = n

QueuedVisited == ffStage = "search" => \A n \in Ids : Queued(n) => Visited(n)

\* Visited nodes that have left the queue have no open neighbours.
Searched ==
    ffStage \in {"search", "done"} =>
        /\ ~Visited(sinkId)
        /\ \A u, v \in Ids : Visited(u) /\ ~Queued(u) /\ ~Visited(v) => residual[<<u, v>>] = 0

Distinct == ffStage = "build" => sourceId # sinkId

FFInv ==
    /\ FFTyping /\ Balanced /\ Traced /\ QueuedVisited /\ Searched /\ Distinct
    /\ ffStage = "done" => queue = <<>>

LEMMA FFInitial == FFInit => FFInv
BY DEF FFInit, FFInv, FFTyping, Balanced, Traced, Searched, QueuedVisited, Distinct, NoParent, Pairs

LEMMA FFStutters ==
    ASSUME FFInv, UNCHANGED ffVars
    PROVE  FFInv'
BY DEF ffVars, FFInv, FFTyping, Balanced, Traced, Searched, QueuedVisited, Distinct, Visited, Queued

LEMMA FFRefuses ==
    ASSUME FFInv, NEW g, NEW s, NEW t, FFRefuse(g, s, t)
    PROVE  FFInv'
BY DEF FFRefuse, FFInv, FFTyping, Balanced, Traced, Searched, QueuedVisited, Distinct

LEMMA FFBegins ==
    ASSUME FFInv, NEW g, IsGraph(g), NEW s \in Ids, NEW t \in Ids, FFStart(g, s, t)
    PROVE  FFInv'
<1>1. ffStage' = "build" /\ sourceId' = s /\ sinkId' = t /\ s # t
      /\ unread' = getEdges(g, "center") /\ UNCHANGED <<residual, original, parent, queue, maxFlow>>
  BY DEF FFStart, FFAccepts
<1>2. \A e \in unread' : e.from \in Ids /\ e.to \in Ids /\ e.capacity \in Nat
  BY <1>1, EdgesOfGraph
<1> QED
  BY <1>1, <1>2 DEF FFInv, FFTyping, Balanced, Traced, Searched, QueuedVisited, Distinct

LEMMA FFAdds ==
    ASSUME FFInv, AddEdge
    PROVE  FFInv'
<1> DEFINE e == CHOOSE e \in unread : TRUE
<1>1. /\ ffStage = "build" /\ e \in unread /\ unread' = unread \ {e}
      /\ residual' = [residual EXCEPT ![<<e.from, e.to>>] = @ + e.capacity]
      /\ original' = [original EXCEPT ![<<e.from, e.to>>] = @ + e.capacity]
      /\ UNCHANGED <<ffStage, sourceId, sinkId, parent, queue, maxFlow>>
  BY DEF AddEdge
<1> HIDE DEF e
<1>2. e.from \in Ids /\ e.to \in Ids /\ e.capacity \in Nat /\ <<e.from, e.to>> \in Pairs
  BY <1>1 DEF FFInv, FFTyping, Pairs
<1>3. FFTyping'
  BY <1>1, <1>2 DEF FFInv, FFTyping
<1>4. Balanced'
  <2> SUFFICES ASSUME NEW u \in Ids, NEW v \in Ids
               PROVE  residual'[<<u, v>>] + residual'[<<v, u>>]
                        = original'[<<u, v>>] + original'[<<v, u>>]
    BY DEF Balanced
  <2>1. <<u, v>> \in Pairs /\ <<v, u>> \in Pairs
    BY DEF Pairs
  <2>2. residual[<<u, v>>] + residual[<<v, u>>] = original[<<u, v>>] + original[<<v, u>>]
    BY DEF FFInv, Balanced
  <2>3. \A p \in Pairs :
           /\ residual[p] \in Nat /\ original[p] \in Nat
           /\ residual'[p] = IF p = <<e.from, e.to>> THEN residual[p] + e.capacity ELSE residual[p]
           /\ original'[p] = IF p = <<e.from, e.to>> THEN original[p] + e.capacity ELSE original[p]
    BY <1>1 DEF FFInv, FFTyping
  <2> QED
    BY <1>2, <2>1, <2>2, <2>3
<1> QED
  BY <1>1, <1>3, <1>4 DEF FFInv, Traced, Searched, QueuedVisited, Distinct

\* A search begins with only the source visited.
LEMMA FFSearches ==
    ASSUME FFTyping', Balanced', sourceId' \in Ids, sourceId' # sinkId',
           ffStage' = "search", parent' = NoParent, queue' = <<sourceId'>>
    PROVE  FFInv'
<1>1. \A n \in Ids : parent'[n] = None
  BY DEF NoParent
<1>2. Queued(sourceId)'
  BY DEF Queued
<1>3. QueuedVisited'
  BY DEF QueuedVisited, Queued, Visited
<1>4. Searched'
  <2>1. sinkId' \in Ids
    BY DEF FFTyping
  <2> QED
    BY <1>1, <1>2, <2>1 DEF Searched, QueuedVisited, Visited
<1> QED
  BY <1>1, <1>3, <1>4 DEF FFInv, Traced, Distinct

LEMMA FFFirstSearch ==
    ASSUME FFInv, FirstSearch
    PROVE  FFInv'
<1>1. ffStage = "build" /\ ffStage' = "search" /\ parent' = NoParent /\ queue' = <<sourceId>>
      /\ UNCHANGED <<sourceId, sinkId, unread, residual, original, maxFlow>>
  BY DEF FirstSearch, Search
<1>2. sourceId \in Ids /\ sourceId # sinkId
  BY <1>1 DEF FFInv, FFTyping, Distinct
<1>3. FFTyping' /\ Balanced'
  BY <1>1, <1>2 DEF FFInv, FFTyping, Balanced, NoParent
<1> QED
  BY <1>1, <1>2, <1>3, FFSearches

LEMMA FFVisits ==
    ASSUME FFInv, NEW v \in Ids, Visit(v)
    PROVE  FFInv'
<1> DEFINE u == Head(queue)
<1>1. /\ ffStage = "search" /\ queue # <<>> /\ v \in Open(u)
      /\ parent' = [parent EXCEPT ![v] = u]
      /\ UNCHANGED <<sourceId, sinkId, unread, residual, original, maxFlow>>
  BY DEF Visit
<1>2. queue \in Seq(Ids) /\ u \in Ids /\ u = queue[1] /\ Len(queue) \in Nat /\ Len(queue) >= 1
  BY <1>1 DEF FFInv, FFTyping
<1>3. v # sourceId /\ parent[v] = None /\ residual[<<u, v>>] > 0 /\ parent' \in [Ids -> Ids \cup {None}]
      /\ parent'[v] = u /\ \A n \in Ids \ {v} : parent'[n] = parent[n]
  BY <1>1, <1>2 DEF Open, Visited, FFInv, FFTyping
<1>4. u # None /\ Visited(u)
  <2>1. Queued(u)
    BY <1>2 DEF Queued
  <2> QED
    BY <1>1, <1>2, <2>1, BellmanFordAssumption DEF FFInv, Traced, QueuedVisited
<1>5. Visited(v)' /\ \A n \in Ids \ {v} : Visited(n)' = Visited(n)
  BY <1>1, <1>2, <1>3, BellmanFordAssumption DEF Visited
<1>6. Balanced'
  BY <1>1 DEF FFInv, Balanced
<1>7. Traced'
  <2>1. sourceId' # sinkId' /\ parent'[sourceId'] = None
    BY <1>1, <1>3 DEF FFInv, FFTyping, Traced
  <2>2. ASSUME NEW n \in Ids, parent'[n] # None
        PROVE  residual'[<<parent'[n], n>>] > 0 /\ Visited(parent[n])'
    <3>1. CASE n = v
      <4>1. parent'[n] = u /\ (u = sourceId' \/ parent'[u] # None)
        BY <1>1, <1>2, <1>3, <1>4, <3>1 DEF Visited
      <4>2. residual'[<<u, n>>] > 0
        BY <1>1, <1>3, <3>1
      <4> QED
        BY <4>1, <4>2 DEF Visited
    <3>2. CASE n # v
      <4>1. parent'[n] = parent[n] /\ parent[n] \in Ids
        BY <1>3, <2>2, <3>2 DEF FFInv, FFTyping
      <4>2. residual[<<parent[n], n>>] > 0 /\ Visited(parent[n])
        BY <1>1, <2>2, <4>1 DEF FFInv, Traced
      <4>3. \A m \in Ids : Visited(m) => Visited(m)'
        BY <1>5
      <4>4. \A m \in Ids : Visited(m)' = (m = sourceId' \/ parent'[m] # None)
        BY DEF Visited
      <4>5. parent'[parent'[n]] # None \/ parent'[n] = sourceId'
        BY <4>1, <4>2, <4>3, <4>4
      <4> QED
        BY <1>1, <4>1, <4>2, <4>5 DEF Visited
    <3> QED
      BY <3>1, <3>2
  <2>3. ffStage' = "augment" => parent'[sinkId'] # None
    BY <1>1, <1>2, <1>3, <1>4 DEF Visit
  <2>4. ffStage' \in {"search", "augment"}
    BY <1>1 DEF Visit
  <2> QED
    BY <2>1, <2>2, <2>3, <2>4 DEF Traced
<1>8. CASE v = sinkId
  <2>1. ffStage' = "augment" /\ UNCHANGED queue
    BY <1>8 DEF Visit
  <2>2. FFTyping'
    BY <1>1, <1>3, <2>1 DEF FFInv, FFTyping
  <2> QED
    BY <1>6, <1>7, <2>1, <2>2 DEF FFInv, Searched, QueuedVisited, Distinct
<1>9. CASE v # sinkId
  <2>1. ffStage' = "search" /\ queue' = Append(queue, v)
    BY <1>1, <1>9 DEF Visit
  <2>2. FFTyping'
    BY <1>1, <1>2, <1>3, <2>1 DEF FFInv, FFTyping
  <2>3. /\ Queued(v)'
        /\ \A n : Queued(n) => Queued(n)'
        /\ \A n : Queued(n)' => Queued(n) \/ n = v
    <3>1. /\ Len(queue') = Len(queue) + 1 /\ queue'[Len(queue) + 1] = v
          /\ \A i \in 1..Len(queue) : queue'[i] = queue[i]
      BY <1>2, <2>1
    <3> QED
      BY <1>2, <3>1 DEF Queued
  <2>4. Searched'
    <3>1. ~Visited(sinkId)'
      BY <1>1, <1>5, <1>9 DEF FFInv, FFTyping, Searched
    <3>2. ASSUME NEW x \in Ids, NEW y \in Ids, Visited(x)', ~Queued(x)', ~Visited(y)'
          PROVE  residual'[<<x, y>>] = 0
      <4>1. x # v /\ y # v /\ ~Queued(x)
        BY <1>5, <2>3, <3>2
      <4>2. Visited(x) /\ ~Visited(y)
        BY <1>5, <3>2, <4>1
      <4> QED
        BY <1>1, <4>1, <4>2 DEF FFInv, Searched
    <3>3. (~Visited(sinkId))' /\ \A x, y \in Ids : (Visited(x) /\ ~Queued(x) /\ ~Visited(y))' => residual'[<<x, y>>] = 0
      BY <3>1, <3>2
    <3> QED
      BY <3>3 DEF Searched
  <2>5. QueuedVisited'
    BY <1>1, <1>5, <2>3 DEF FFInv, QueuedVisited
  <2> QED
    BY <1>6, <1>7, <2>1, <2>2, <2>4, <2>5 DEF FFInv, Distinct
<1> QED
  BY <1>8, <1>9

LEMMA FFDequeues ==
    ASSUME FFInv, Dequeue
    PROVE  FFInv'
<1> DEFINE u == Head(queue)
<1>1. /\ ffStage = "search" /\ queue # <<>> /\ Open(u) = {} /\ queue' = Tail(queue)
      /\ UNCHANGED <<ffStage, sourceId, sinkId, unread, residual, original, parent, maxFlow>>
  BY DEF Dequeue
<1>2. queue \in Seq(Ids) /\ u \in Ids /\ u = queue[1] /\ Len(queue) \in Nat /\ Len(queue) >= 1
  BY <1>1 DEF FFInv, FFTyping
<1>3. /\ queue' \in Seq(Ids) /\ Len(queue') = Len(queue) - 1
      /\ \A i \in 1..Len(queue') : queue'[i] = queue[i + 1]
  BY <1>1, <1>2
<1>4. (\A n : Queued(n)' => Queued(n)) /\ (\A n : Queued(n) => Queued(n)' \/ n = u)
  <2>1. \A i \in 2..Len(queue) : i - 1 \in 1..Len(queue') /\ queue[i] = queue'[i - 1]
    BY <1>2, <1>3
  <2>2. \A i \in 1..Len(queue') : i + 1 \in 1..Len(queue)
    BY <1>2, <1>3
  <2>3. \A n : Queued(n)' => Queued(n)
    BY <1>3, <2>2 DEF Queued
  <2>4. ASSUME NEW n, Queued(n) PROVE Queued(n)' \/ n = u
    <3>1. PICK i \in 1..Len(queue) : queue[i] = n
      BY <2>4 DEF Queued
    <3>2. CASE i = 1
      BY <1>2, <3>1, <3>2
    <3>3. CASE i # 1
      <4>1. i \in 2..Len(queue)
        BY <1>2, <3>3
      <4> QED
        BY <2>1, <3>1, <4>1 DEF Queued
    <3> QED
      BY <3>2, <3>3
  <2> QED
    BY <2>3, <2>4
<1>5. \A n : Visited(n)' = Visited(n)
  BY <1>1 DEF Visited
<1>6. FFTyping' /\ Balanced' /\ Traced'
  BY <1>1, <1>3 DEF FFInv, FFTyping, Balanced, Traced, Visited
<1>7. Searched'
  <2>1. \A v \in Ids : ~Visited(v) => residual[<<u, v>>] = 0
    <3>1. \A v \in Ids : <<u, v>> \in Pairs
      BY <1>2 DEF Pairs
    <3> QED
      BY <1>1, <3>1 DEF Open, FFInv, FFTyping
  <2> QED
    BY <1>1, <1>4, <1>5, <2>1 DEF FFInv, Searched
<1>8. QueuedVisited'
  BY <1>1, <1>4, <1>5 DEF FFInv, QueuedVisited
<1> QED
  BY <1>1, <1>6, <1>7, <1>8 DEF FFInv, Distinct

LEMMA FFGivesUp ==
    ASSUME FFInv, NoPath
    PROVE  FFInv'
BY DEF NoPath, FFInv, FFTyping, Balanced, Traced, Searched, Distinct, QueuedVisited, Visited, Queued

-----------------------------------------------------------------------------
(* Augment: the path consists of nodes with a parent, so that at most what *)
(* is left on each of its edges is pushed.                                 *)

LEMMA PathHasParents ==
    ASSUME FFInv, ffStage = "augment"
    PROVE  \A n \in OnPath : n \in Ids /\ parent[n] \in Ids /\ residual[<<parent[n], n>>] > 0
<1> DEFINE S == {n \in Ids : Visited(n)}
<1>1. sinkId \in S
  BY DEF FFInv, FFTyping, Traced, Visited
<1>2. ASSUME NEW n \in S, parent[n] # None PROVE parent[n] \in S
  <2>1. Visited(parent[n]) /\ parent[n] \in Ids
    BY <1>2 DEF FFInv, FFTyping, Traced
  <2> QED
    BY <2>1
<1>3. ClosedBack(S)
  BY <1>1, <1>2 DEF ClosedBack
<1>4. \A n \in OnPath : n \in S /\ n # sourceId
  BY <1>3 DEF OnPath
<1> QED
  BY <1>4 DEF FFInv, FFTyping, Traced, Visited

LEMMA FFAugments ==
    ASSUME FFInv, Augment
    PROVE  FFInv'
<1>1. /\ ffStage = "augment" /\ ffStage' = "search"
      /\ parent' = NoParent /\ queue' = <<sourceId>>
      /\ UNCHANGED <<sourceId, sinkId, unread, original>>
  BY DEF Augment, Search
<1>2. PICK b \in Bottlenecks : residual' = Pushed(b) /\ maxFlow' = maxFlow + b
  BY DEF Augment
<1>3. \A n \in OnPath : n \in Ids /\ parent[n] \in Ids /\ <<parent[n], n>> \in Pairs
                        /\ b <= residual[<<parent[n], n>>]
  BY <1>1, PathHasParents DEF Bottlenecks, Pairs
<1>4. b \in Nat
  <2>1. PICK n \in OnPath : b = residual[<<parent[n], n>>]
    BY DEF Bottlenecks
  <2> QED
    BY <1>3, <2>1 DEF FFInv, FFTyping
<1> DEFINE Taken(p) == p[2] \in OnPath /\ parent[p[2]] = p[1]
           Given(p) == p[1] \in OnPath /\ parent[p[1]] = p[2]
<1>5. /\ residual' = [p \in Pairs |-> residual'[p]]
      /\ \A p \in Pairs : residual'[p] = residual[p] - (IF Taken(p) THEN b ELSE 0)
                                           + (IF Given(p) THEN b ELSE 0)
  BY <1>2 DEF Pushed
<1>6. \A p \in Pairs : residual[p] \in Nat /\ (Taken(p) => b <= residual[p])
  <2>1. \A p \in Pairs : p = <<p[1], p[2]>> /\ residual[p] \in Nat
    BY DEF Pairs, FFInv, FFTyping
  <2> QED
    BY <1>3, <2>1
<1>7. residual' \in [Pairs -> Nat]
  <2>1. \A p \in Pairs : residual'[p] \in Nat
    BY <1>4, <1>5, <1>6
  <2> QED
    BY <1>5, <2>1
<1>8. FFTyping'
  <2>1. sourceId \in Ids /\ maxFlow' \in Nat
    BY <1>1, <1>2, <1>4 DEF FFInv, FFTyping
  <2> QED
    BY <1>1, <1>7, <2>1 DEF FFInv, FFTyping, NoParent
<1>9. Balanced'
  <2> SUFFICES ASSUME NEW u \in Ids, NEW v \in Ids
               PROVE  residual'[<<u, v>>] + residual'[<<v, u>>]
                        = original'[<<u, v>>] + original'[<<v, u>>]
    BY DEF Balanced
  <2>1. <<u, v>> \in Pairs /\ <<v, u>> \in Pairs
    BY DEF Pairs
  <2>2. residual[<<u, v>>] + residual[<<v, u>>] = original[<<u, v>>] + original[<<v, u>>]
    BY DEF FFInv, Balanced
  <2>3. Taken(<<u, v>>) = Given(<<v, u>>) /\ Taken(<<v, u>>) = Given(<<u, v>>)
    OBVIOUS
  <2> HIDE DEF Taken, Given
  <2> QED
    BY <1>1, <1>4, <1>5, <1>6, <2>1, <2>2, <2>3
<1>10. sourceId' \in Ids /\ sourceId' # sinkId'
  BY <1>1 DEF FFInv, FFTyping, Traced
<1> QED
  BY <1>1, <1>8, <1>9, <1>10, FFSearches

LEMMA FFSteps ==
    ASSUME FFInv, FFStep
    PROVE  FFInv'
BY FFAdds, FFFirstSearch, FFVisits, FFDequeues, FFGivesUp, FFAugments DEF FFStep

-----------------------------------------------------------------------------
(* The path of parents: from the sink it leads to the source, and no two   *)
(* of its nodes have the same parent.                                      *)

Links == [Ids -> Ids \cup {None}]

\* What is met when the links are followed from x on.
Back(up, x) ==
    {n \in Ids : \A S \in SUBSET Ids :
        x \in S /\ (\A m \in S : up[m] # None => up[m] \in S) => n \in S}

Ranked(up, rank) ==
    rank \in [Ids -> Nat] /\ \A n \in Ids : up[n] # None => rank[up[n]] < rank[n]

LEMMA BackBegins ==
    ASSUME NEW up \in Links, NEW x \in Ids
    PROVE  /\ x \in Back(up, x)
           /\ \A m \in Back(up, x) : m \in Ids /\ (up[m] # None => up[m] \in Back(up, x))
           /\ \A S \in SUBSET Ids :
                 x \in S /\ (\A m \in S : up[m] # None => up[m] \in S) => Back(up, x) \subseteq S
BY DEF Back, Links

\* The way back from a node is the node and the way back from where its link leads.
LEMMA BackUnfolds ==
    ASSUME NEW up \in Links, NEW x \in Ids, NEW m \in Back(up, x), m # x
    PROVE  up[x] # None /\ m \in Back(up, up[x])
<1> DEFINE S == {x} \cup {n \in Ids : up[x] # None /\ n \in Back(up, up[x])}
<1>1. S \in SUBSET Ids /\ x \in S
  OBVIOUS
<1>2. ASSUME NEW n \in S, up[n] # None PROVE up[n] \in S
  <2>1. up[n] \in Ids /\ n \in Ids
    BY <1>2 DEF Links
  <2>2. CASE n = x
    BY <1>2, <2>1, <2>2, BackBegins
  <2>3. CASE n # x
    <3>1. up[x] # None /\ up[x] \in Ids /\ n \in Back(up, up[x])
      BY <2>3 DEF Links
    <3> QED
      BY <1>2, <2>1, <3>1, BackBegins
  <2> QED
    BY <2>2, <2>3
<1> HIDE DEF S
<1>3. m \in S
  BY <1>1, <1>2, BackBegins
<1> QED
  BY <1>3 DEF S

\* All that is met further on has a lower rank.
LEMMA BackDescends ==
    ASSUME NEW up \in Links, NEW rank, Ranked(up, rank), NEW x \in Ids
    PROVE  \A m \in Back(up, x) : m = x \/ rank[m] < rank[x]
<1> DEFINE S == {n \in Ids : n = x \/ rank[n] < rank[x]}
<1>1. S \in SUBSET Ids /\ x \in S
  OBVIOUS
<1>2. ASSUME NEW n \in S, up[n] # None PROVE up[n] \in S
  <2>1. up[n] \in Ids /\ rank[up[n]] < rank[n]
    BY <1>2 DEF Links, Ranked
  <2>2. rank[up[n]] \in Nat /\ rank[n] \in Nat /\ rank[x] \in Nat
    BY <2>1 DEF Ranked
  <2> QED
    BY <2>1, <2>2
<1> HIDE DEF S
<1>3. Back(up, x) \subseteq S
  BY <1>1, <1>2, BackBegins
<1> QED
  BY <1>3 DEF S

\* Of two nodes on the way one is met from the other.
LEMMA BackIsChain ==
    ASSUME NEW up \in Links, NEW x \in Ids, NEW n \in Back(up, x), NEW m \in Back(up, x)
    PROVE  m \in Back(up, n) \/ n \in Back(up, m)
<1> DEFINE S == {i \in Back(up, x) : \A j \in Back(up, x) : j \in Back(up, i) \/ i \in Back(up, j)}
<1>1. S \in SUBSET Ids /\ x \in S
  BY BackBegins
<1>2. ASSUME NEW i \in S, up[i] # None PROVE up[i] \in S
  <2>1. i \in Ids /\ i \in Back(up, x) /\ up[i] \in Back(up, x) /\ up[i] \in Ids
    BY <1>2, BackBegins
  <2>2. ASSUME NEW j \in Back(up, x)
        PROVE  j \in Back(up, up[i]) \/ up[i] \in Back(up, j)
    <3>1. j \in Ids
      BY BackBegins
    <3>2. CASE i \in Back(up, j)
      BY <1>2, <3>1, <3>2, BackBegins
    <3>3. CASE j \in Back(up, i) /\ j # i
      BY <2>1, <3>3, BackUnfolds
    <3>4. CASE j = i
      BY <1>2, <2>1, <3>4, BackBegins
    <3> QED
      BY <3>2, <3>3, <3>4
  <2> QED
    BY <2>1, <2>2
<1> HIDE DEF S
<1>3. n \in S
  BY <1>1, <1>2, BackBegins
<1> QED
  BY <1>3 DEF S

\* No two nodes of the way have their links to the same.
LEMMA BackIsNarrow ==
    ASSUME NEW up \in Links, NEW rank, Ranked(up, rank), NEW x \in Ids,
           NEW n \in Back(up, x), NEW m \in Back(up, x), up[n] = up[m], up[n] # None
    PROVE  n = m
<1>1. n \in Ids /\ m \in Ids /\ up[n] \in Ids
  BY BackBegins
<1>2. rank[up[n]] < rank[n] /\ rank[up[m]] < rank[m]
      /\ rank[up[n]] \in Nat /\ rank[n] \in Nat /\ rank[m] \in Nat
  BY <1>1 DEF Ranked
<1>3. ASSUME m \in Back(up, n), m # n PROVE FALSE
  <2>1. m \in Back(up, up[n])
    BY <1>1, <1>3, BackUnfolds
  <2>2. m = up[n] \/ rank[m] < rank[up[n]]
    BY <1>1, <2>1, BackDescends
  <2> QED
    BY <1>2, <2>2
<1>4. ASSUME n \in Back(up, m), m # n PROVE FALSE
  <2>1. n \in Back(up, up[m])
    BY <1>1, <1>4, BackUnfolds
  <2>2. n = up[m] \/ rank[n] < rank[up[m]]
    BY <1>1, <2>1, BackDescends
  <2> QED
    BY <1>2, <2>2
<1> QED
  BY <1>3, <1>4, BackIsChain

\* Every node of the way but the first is linked to, by one of the way; none to the first.
LEMMA BackIsLinked ==
    ASSUME NEW up \in Links, NEW rank, Ranked(up, rank), NEW x \in Ids, NEW n \in Back(up, x)
    PROVE  /\ n # x => \E m \in Back(up, x) : up[m] = n
           /\ n = x => \A m \in Back(up, x) : up[m] # n
<1>1. ASSUME n # x, \A m \in Back(up, x) : up[m] # n PROVE FALSE
  <2> DEFINE S == Back(up, x) \ {n}
  <2>1. S \in SUBSET Ids /\ x \in S /\ \A m \in S : up[m] # None => up[m] \in S
    BY <1>1, BackBegins
  <2> HIDE DEF S
  <2>2. Back(up, x) \subseteq S
    BY <2>1, BackBegins
  <2> QED
    BY <2>2 DEF S
<1>2. ASSUME NEW m \in Back(up, x), up[m] = x PROVE FALSE
  <2>1. m = x \/ rank[m] < rank[x]
    BY BackDescends
  <2>2. m \in Ids /\ rank[m] \in Nat /\ rank[x] \in Nat
    BY BackBegins DEF Ranked
  <2>3. up[m] # None
    BY <1>2, BellmanFordAssumption
  <2>4. rank[x] < rank[m]
    BY <1>2, <2>2, <2>3 DEF Ranked
  <2> QED
    BY <2>1, <2>2, <2>4
<1> QED
  BY <1>1, <1>2

\* The way ends at a node without a link.
LEMMA BackEnds ==
    ASSUME NEW up \in Links, NEW rank, Ranked(up, rank), NEW x \in Ids
    PROVE  \E n \in Back(up, x) : up[n] = None
<1> DEFINE ranks == {rank[n] : n \in Back(up, x)}
<1>1. \A n \in Back(up, x) : n \in Ids /\ rank[n] \in Nat
  BY BackBegins DEF Ranked
<1>2. ranks \in SUBSET Nat /\ ranks # {}
  BY <1>1, BackBegins
<1> HIDE DEF ranks
<1>3. PICK r \in ranks : \A q \in ranks : r <= q
  BY <1>2, LeastNat
<1>4. PICK n \in Back(up, x) : r = rank[n]
  BY DEF ranks
<1>5. ASSUME up[n] # None PROVE FALSE
  <2>1. up[n] \in Back(up, x)
    BY <1>5, BackBegins
  <2>2. rank[up[n]] < rank[n]
    BY <1>1, <1>5 DEF Ranked
  <2>3. rank[n] <= rank[up[n]]
    BY <1>3, <1>4, <2>1 DEF ranks
  <2> QED
    BY <1>1, <2>1, <2>2, <2>3
<1> QED
  BY <1>5

-----------------------------------------------------------------------------
(* The value of the flow: at every node but the source and the sink as     *)
(* much comes in as leaves, before and after every augmentation.           *)

\* What leaves a node, less what comes in: the flow against an edge is negative.
NetFlow(n) == SumFunction([m \in Ids |-> Flow(n, m)])

\* The parents lead back to the source.
Acyclic == \E rank : Ranked(parent, rank)

Unpushed == ffStage \in {"idle", "build"} => residual = original /\ maxFlow = 0

Conserved ==
    ffStage \in {"search", "augment", "done"} =>
        \A n \in Ids : NetFlow(n) = IF n = sourceId THEN maxFlow
                                    ELSE IF n = sinkId THEN -maxFlow ELSE 0

FlowInv == Acyclic /\ Unpushed /\ Conserved

LEMMA FlowType ==
    ASSUME FFInv
    PROVE  /\ \A u, v \in Ids : Flow(u, v) \in Int /\ Flow(u, v) = -Flow(v, u)
           /\ \A u, v \in Ids : Flow(u, v) <= original[<<u, v>>] /\ original[<<u, v>>] \in Nat
<1> SUFFICES ASSUME NEW u \in Ids, NEW v \in Ids
             PROVE  /\ Flow(u, v) \in Int /\ Flow(u, v) = -Flow(v, u)
                    /\ Flow(u, v) <= original[<<u, v>>] /\ original[<<u, v>>] \in Nat
  OBVIOUS
<1>1. <<u, v>> \in Pairs /\ <<v, u>> \in Pairs
  BY DEF Pairs
<1>2. /\ residual[<<u, v>>] \in Nat /\ residual[<<v, u>>] \in Nat
      /\ original[<<u, v>>] \in Nat /\ original[<<v, u>>] \in Nat
  BY <1>1 DEF FFInv, FFTyping
<1>3. residual[<<u, v>>] + residual[<<v, u>>] = original[<<u, v>>] + original[<<v, u>>]
  BY DEF FFInv, Balanced
<1> QED
  BY <1>2, <1>3 DEF Flow

LEMMA NoParentRanked == \E rank : Ranked(NoParent, rank)
<1>1. Ranked(NoParent, [n \in Ids |-> 0])
  BY DEF Ranked, NoParent
<1> QED
  BY <1>1

LEMMA FlowInitial == FFInit => FlowInv
<1>1. FFInit => Acyclic
  BY NoParentRanked DEF FFInit, Acyclic
<1> QED
  BY <1>1 DEF FFInit, FlowInv, Unpushed, Conserved, Pairs

\* The steps of the search do not touch the flow.
LEMMA FlowKept ==
    ASSUME FlowInv, UNCHANGED <<sourceId, sinkId, residual, original, maxFlow>>,
           ffStage' \in {"search", "augment", "done"} => ffStage \in {"search", "augment", "done"},
           ffStage' \in {"idle", "build"} => ffStage \in {"idle", "build"}
    PROVE  Unpushed' /\ Conserved'
BY DEF FlowInv, Unpushed, Conserved, NetFlow, Flow

LEMMA FlowStutters ==
    ASSUME FlowInv, UNCHANGED ffVars
    PROVE  FlowInv'
<1>1. Acyclic'
  BY DEF FlowInv, Acyclic, Ranked, ffVars
<1> QED
  BY <1>1, FlowKept DEF ffVars, FlowInv

LEMMA FlowBegins ==
    ASSUME FlowInv, NEW g, NEW s, NEW t, FFRefuse(g, s, t) \/ FFStart(g, s, t)
    PROVE  FlowInv'
<1>1. UNCHANGED parent
  BY DEF FFRefuse, FFStart
<1>2. Acyclic'
  BY <1>1 DEF FlowInv, Acyclic, Ranked
<1> QED
  BY <1>2 DEF FlowInv, Unpushed, Conserved, FFRefuse, FFStart

LEMMA FlowAdds ==
    ASSUME FlowInv, AddEdge
    PROVE  FlowInv'
<1>1. ffStage = "build" /\ UNCHANGED <<ffStage, parent, maxFlow>>
  BY DEF AddEdge
<1>2. Acyclic'
  BY <1>1 DEF FlowInv, Acyclic, Ranked
<1>3. Unpushed'
  BY <1>1 DEF AddEdge, FlowInv, Unpushed
<1> QED
  BY <1>1, <1>2, <1>3 DEF FlowInv, Conserved

LEMMA FlowFirst ==
    ASSUME FFInv, FlowInv, FirstSearch
    PROVE  FlowInv'
<1>1. /\ ffStage = "build" /\ ffStage' = "search" /\ parent' = NoParent
      /\ UNCHANGED <<sourceId, sinkId, residual, original, maxFlow>>
  BY DEF FirstSearch, Search
<1>2. Acyclic'
  BY <1>1, NoParentRanked DEF Acyclic
<1>3. maxFlow = 0 /\ residual = original
  BY <1>1 DEF FlowInv, Unpushed
<1>4. ASSUME NEW n \in Ids PROVE NetFlow(n)' = 0
  <2> DEFINE f == [m \in Ids |-> Flow(n, m)']
  <2>1. \A m \in Ids : f[m] = 0
    <3> TAKE m \in Ids
    <3>1. <<n, m>> \in Pairs
      BY DEF Pairs
    <3>2. original[<<n, m>>] \in Nat
      BY <3>1 DEF FFInv, FFTyping
    <3> QED
      BY <1>1, <1>3, <3>2 DEF Flow
  <2>2. NetFlow(n)' = SumFunctionOnSet(f, Ids)
    BY DEF NetFlow, SumFunction
  <2> HIDE DEF f
  <2> QED
    BY <2>1, <2>2, SumZero, IdsAssumption
<1> QED
  BY <1>1, <1>2, <1>3, <1>4 DEF FlowInv, Unpushed, Conserved

LEMMA FlowVisits ==
    ASSUME FFInv, FlowInv, NEW v \in Ids, Visit(v)
    PROVE  FlowInv'
<1> DEFINE u == Head(queue)
<1>1. /\ ffStage = "search" /\ queue # <<>> /\ v \in Open(u) /\ ffStage' \in {"search", "augment"}
      /\ parent' = [parent EXCEPT ![v] = u]
      /\ UNCHANGED <<sourceId, sinkId, residual, original, maxFlow>>
  BY DEF Visit
<1>2. queue \in Seq(Ids) /\ u \in Ids /\ u = queue[1] /\ Len(queue) \in Nat /\ Len(queue) >= 1
      /\ parent \in [Ids -> Ids \cup {None}]
  BY <1>1 DEF FFInv, FFTyping
<1>3. ~Visited(v) /\ Visited(u)
  <2>1. Queued(u)
    BY <1>2 DEF Queued
  <2> QED
    BY <1>1, <1>2, <2>1 DEF Open, FFInv, QueuedVisited
<1>4. \A n \in Ids : parent[n] # None => parent[n] # v
  BY <1>1, <1>3 DEF FFInv, Traced
<1>5. PICK rank : Ranked(parent, rank)
  BY DEF FlowInv, Acyclic
<1> DEFINE new == [rank EXCEPT ![v] = rank[u] + 1]
<1>6. new \in [Ids -> Nat] /\ new[v] = rank[u] + 1 /\ \A n \in Ids \ {v} : new[n] = rank[n]
  BY <1>2, <1>5 DEF Ranked
<1>7. u # v
  BY <1>3
<1> HIDE DEF new, u
<1>8. ASSUME NEW n \in Ids, parent'[n] # None PROVE new[parent'[n]] < new[n]
  <2>1. CASE n = v
    <3>1. parent'[n] = u /\ new[u] = rank[u] /\ rank[u] \in Nat
      BY <1>1, <1>2, <1>5, <1>6, <1>7, <2>1 DEF Ranked
    <3> QED
      BY <1>6, <2>1, <3>1
  <2>2. CASE n # v
    <3>1. parent'[n] = parent[n] /\ parent[n] # v /\ parent[n] \in Ids
      BY <1>1, <1>2, <1>4, <1>8, <2>2
    <3> QED
      BY <1>5, <1>6, <1>8, <2>2, <3>1 DEF Ranked
  <2> QED
    BY <2>1, <2>2
<1>9. Acyclic'
  <2>1. Ranked(parent', new)
    BY <1>6, <1>8 DEF Ranked
  <2> QED
    BY <2>1 DEF Acyclic
<1> QED
  BY <1>1, <1>9, FlowKept DEF FlowInv

\* The path that is augmented: from the source to the sink, one link at each node.
LEMMA PathIsChain ==
    ASSUME FFInv, FlowInv, ffStage = "augment"
    PROVE  /\ sinkId \in OnPath
           /\ \A v \in OnPath : parent[v] = sourceId \/ parent[v] \in OnPath
           /\ \A v \in OnPath : parent[v] # sinkId
           /\ \A v, w \in OnPath : parent[v] = parent[w] => v = w
           /\ \A n \in OnPath \cup {sourceId} : n # sinkId => \E v \in OnPath : parent[v] = n
<1> DEFINE way == Back(parent, sinkId)
<1>1. parent \in Links /\ sinkId \in Ids /\ sourceId \in Ids /\ sourceId # sinkId
      /\ parent[sourceId] = None
  BY DEF FFInv, FFTyping, Traced, Links
<1>2. PICK rank : Ranked(parent, rank)
  BY DEF FlowInv, Acyclic
<1>3. OnPath = way \ {sourceId}
  BY Zenon DEF OnPath, Back, ClosedBack
<1>4. \A n \in OnPath : n \in Ids /\ parent[n] \in Ids
  BY PathHasParents
<1>5. \A n \in OnPath : parent[n] # None
  BY <1>4, BellmanFordAssumption
<1>6. sourceId \in way
  BY <1>1, <1>2, <1>3, <1>5, BackEnds
<1>7. sinkId \in way /\ \A n \in way : n \in Ids /\ (parent[n] # None => parent[n] \in way)
  BY <1>1, BackBegins
<1>8. \A v, w \in OnPath : parent[v] = parent[w] => v = w
  BY <1>1, <1>2, <1>3, <1>5, BackIsNarrow
<1>9. \A n \in way : n # sinkId => \E v \in way : parent[v] = n
  BY <1>1, <1>2, BackIsLinked
<1>10. \A v \in way : parent[v] # sinkId
  BY <1>1, <1>2, <1>7, BackIsLinked
<1>11. \A n \in OnPath \cup {sourceId} : n # sinkId => \E v \in OnPath : parent[v] = n
  BY <1>1, <1>3, <1>6, <1>7, <1>9, BellmanFordAssumption
<1> HIDE DEF way
<1> QED
  BY <1>1, <1>3, <1>5, <1>7, <1>8, <1>10, <1>11

LEMMA FlowAugments ==
    ASSUME FFInv, FlowInv, Augment
    PROVE  FlowInv'
<1>1. /\ ffStage = "augment" /\ ffStage' = "search" /\ parent' = NoParent
      /\ UNCHANGED <<sourceId, sinkId, original>>
  BY DEF Augment, Search
<1>2. PICK b \in Bottlenecks : residual' = Pushed(b) /\ maxFlow' = maxFlow + b
  BY DEF Augment
<1>3. \A n \in OnPath : n \in Ids /\ parent[n] \in Ids /\ <<parent[n], n>> \in Pairs
  BY <1>1, PathHasParents DEF Pairs
<1>4. b \in Nat /\ maxFlow \in Nat
  <2>1. PICK n \in OnPath : b = residual[<<parent[n], n>>]
    BY DEF Bottlenecks
  <2> QED
    BY <1>3, <2>1 DEF FFInv, FFTyping
<1>5. Acyclic'
  BY <1>1, NoParentRanked DEF Acyclic
<1>6. sourceId \in Ids /\ sinkId \in Ids /\ sourceId # sinkId /\ sourceId \notin OnPath
      /\ \A n \in OnPath : n # sourceId
  BY <1>1 DEF FFInv, FFTyping, Traced, OnPath
<1>7. /\ sinkId \in OnPath
      /\ \A v \in OnPath : parent[v] = sourceId \/ parent[v] \in OnPath
      /\ \A v \in OnPath : parent[v] # sinkId
      /\ \A v, w \in OnPath : parent[v] = parent[w] => v = w
      /\ \A n \in OnPath \cup {sourceId} : n # sinkId => \E v \in OnPath : parent[v] = n
  BY <1>1, PathIsChain
<1>8. ASSUME NEW n \in Ids
      PROVE  NetFlow(n)' = NetFlow(n) + (IF n = sourceId THEN b ELSE IF n = sinkId THEN -b ELSE 0)
  <2> DEFINE f == [m \in Ids |-> Flow(n, m)]
             g == [m \in Ids |-> Flow(n, m)']
             out == [m \in Ids |-> IF m \in OnPath /\ parent[m] = n THEN b ELSE 0]
             in == [m \in Ids |-> IF n \in OnPath /\ parent[n] = m THEN b ELSE 0]
             diff == [m \in Ids |-> out[m] - in[m]]
  <2>1. NetFlow(n) = SumFunctionOnSet(f, Ids) /\ NetFlow(n)' = SumFunctionOnSet(g, Ids)
    BY DEF NetFlow, SumFunction
  <2>2. \A m \in Ids : out[m] \in Int /\ in[m] \in Int /\ diff[m] \in Int
                       /\ out[m] = diff[m] + in[m]
    BY <1>4
  <2>3. \A m \in Ids : f[m] \in Int /\ g[m] = f[m] + diff[m]
    <3> TAKE m \in Ids
    <3>1. <<n, m>> \in Pairs
      BY DEF Pairs
    <3>2. residual[<<n, m>>] \in Nat /\ original[<<n, m>>] \in Nat
      BY <3>1 DEF FFInv, FFTyping
    <3>3. residual'[<<n, m>>] = residual[<<n, m>>] - out[m] + in[m]
      BY <1>2, <3>1 DEF Pushed
    <3>4. f[m] = original[<<n, m>>] - residual[<<n, m>>]
          /\ g[m] = original[<<n, m>>] - residual'[<<n, m>>]
      BY <1>1 DEF Flow
    <3> HIDE DEF f, g, out, in
    <3> QED
      BY <2>2, <3>2, <3>3, <3>4
  <2>4. SumFunctionOnSet(out, Ids) = IF n \in (OnPath \cup {sourceId}) /\ n # sinkId THEN b ELSE 0
    <3>1. CASE n \in (OnPath \cup {sourceId}) /\ n # sinkId
      <4>1. PICK v \in OnPath : parent[v] = n
        BY <1>7, <3>1
      <4>2. v \in Ids /\ out[v] = b /\ \A m \in Ids \ {v} : out[m] = 0
        BY <1>3, <1>7, <4>1
      <4> HIDE DEF out
      <4>3. SumFunctionOnSet(out, Ids) = b
        BY <1>4, <4>2, SumSingle, IdsAssumption
      <4> QED
        BY <3>1, <4>3
    <3>2. CASE ~(n \in (OnPath \cup {sourceId}) /\ n # sinkId)
      <4>1. \A m \in Ids : out[m] = 0
        BY <1>7, <3>2
      <4> HIDE DEF out
      <4>2. SumFunctionOnSet(out, Ids) = 0
        BY <4>1, SumZero, IdsAssumption
      <4> QED
        BY <3>2, <4>2
    <3> HIDE DEF out
    <3> QED
      BY <3>1, <3>2
  <2>5. SumFunctionOnSet(in, Ids) = IF n \in OnPath THEN b ELSE 0
    <3>1. CASE n \in OnPath
      <4>1. parent[n] \in Ids /\ in[parent[n]] = b /\ \A m \in Ids \ {parent[n]} : in[m] = 0
        BY <1>3, <3>1
      <4> HIDE DEF in
      <4>2. SumFunctionOnSet(in, Ids) = b
        BY <1>4, <4>1, SumSingle, IdsAssumption
      <4> QED
        BY <3>1, <4>2
    <3>2. CASE n \notin OnPath
      <4>1. \A m \in Ids : in[m] = 0
        BY <3>2
      <4> HIDE DEF in
      <4>2. SumFunctionOnSet(in, Ids) = 0
        BY <4>1, SumZero, IdsAssumption
      <4> QED
        BY <3>2, <4>2
    <3> HIDE DEF in
    <3> QED
      BY <3>1, <3>2
  <2> HIDE DEF f, g, out, in, diff
  <2>6. SumFunctionOnSet(out, Ids) = SumFunctionOnSet(diff, Ids) + SumFunctionOnSet(in, Ids)
    BY <2>2, SumPlus, IdsAssumption
  <2>7. SumFunctionOnSet(g, Ids) = SumFunctionOnSet(f, Ids) + SumFunctionOnSet(diff, Ids)
    BY <2>2, <2>3, SumPlus, IdsAssumption
  <2>8. SumFunctionOnSet(f, Ids) \in Int /\ SumFunctionOnSet(diff, Ids) \in Int
    BY <2>2, <2>3, SumType, IdsAssumption
  <2>9. SumFunctionOnSet(diff, Ids) = IF n = sourceId THEN b ELSE IF n = sinkId THEN -b ELSE 0
    BY <1>4, <1>6, <1>7, <2>4, <2>5, <2>6, <2>8
  <2> QED
    BY <2>1, <2>7, <2>8, <2>9
<1>9. Conserved'
  <2> SUFFICES ASSUME NEW n \in Ids
               PROVE  NetFlow(n)' = IF n = sourceId THEN maxFlow'
                                    ELSE IF n = sinkId THEN -maxFlow' ELSE 0
    BY <1>1 DEF Conserved
  <2>1. NetFlow(n) = IF n = sourceId THEN maxFlow ELSE IF n = sinkId THEN -maxFlow ELSE 0
    BY <1>1 DEF FlowInv, Conserved
  <2> QED
    BY <1>2, <1>4, <1>8, <2>1
<1> QED
  BY <1>1, <1>5, <1>9 DEF FlowInv, Unpushed

LEMMA FlowSteps ==
    ASSUME FFInv, FlowInv, FFStep
    PROVE  FlowInv'
<1>1. CASE Dequeue \/ NoPath
  <2>1. /\ UNCHANGED <<sourceId, sinkId, residual, original, maxFlow, parent>>
        /\ ffStage = "search" /\ ffStage' \in {"search", "done"}
    BY <1>1 DEF Dequeue, NoPath
  <2>2. Acyclic'
    BY <2>1 DEF FlowInv, Acyclic, Ranked
  <2> QED
    BY <2>1, <2>2, FlowKept DEF FlowInv
<1> QED
  BY <1>1, FlowAdds, FlowFirst, FlowVisits, FlowAugments DEF FFStep

-----------------------------------------------------------------------------
(* The sum of the flows that leave a set of nodes around the source is the *)
(* value of the flow, whatever the cut.                                    *)

FlowOver == [p \in Pairs |-> Flow(p[1], p[2])]

LEMMA FlowInside ==
    ASSUME FFInv, NEW S \in SUBSET Ids
    PROVE  SumFunctionOnSet(FlowOver, S \X S) = 0
<1> DEFINE T == S \X S
           b == [p \in T |-> <<p[2], p[1]>>]
           g == [p \in T |-> FlowOver[b[p]]]
           z == [p \in T |-> 0]
<1>1. IsFiniteSet(T)
  BY IdsAssumption, FS_Subset, FS_Product
<1>2. /\ b \in [T -> T]
      /\ \A p, q \in T : b[p] = b[q] => p = q
      /\ \A p \in T : \E q \in T : b[q] = p
  <2>1. \A p \in T : b[p] = <<p[2], p[1]>> /\ b[p] \in T /\ p = <<p[1], p[2]>>
    OBVIOUS
  <2>2. \A p \in T : b[b[p]] = p
    BY <2>1
  <2>3. b \in [T -> T]
    BY <2>1
  <2> HIDE DEF b, T
  <2> QED
    BY <2>1, <2>2, <2>3
<1>3. \A p \in T : FlowOver[p] \in Int /\ g[p] \in Int /\ 0 = FlowOver[p] + g[p]
  BY FlowType DEF FlowOver, Pairs
<1>4. \A p \in T : g[p] = FlowOver[b[p]]
  OBVIOUS
<1>5. \A p \in T : z[p] = 0
  OBVIOUS
<1> HIDE DEF T, b, g, z
<1>6. SumFunctionOnSet(FlowOver, T) = SumFunctionOnSet(g, T)
  <2>1. (\A p \in T : FlowOver[p] \in Int) /\ (\A p \in T : g[p] = FlowOver[b[p]])
    BY <1>3, <1>4
  <2>2. (\A p, q \in T : b[p] = b[q] => p = q) /\ (\A t \in T : \E p \in T : b[p] = t)
    BY <1>2
  <2>3. b \in [T -> T]
    BY <1>2
  <2> QED
    BY <1>1, <2>1, <2>2, <2>3, SumRenamed
<1>7. SumFunctionOnSet(z, T) = SumFunctionOnSet(FlowOver, T) + SumFunctionOnSet(g, T)
  BY <1>1, <1>3, <1>5, SumPlus
<1>8. SumFunctionOnSet(z, T) = 0
  BY <1>1, <1>5, SumZero
<1>9. SumFunctionOnSet(g, T) \in Int
  BY <1>1, <1>3, SumType
<1>10. SumFunctionOnSet(FlowOver, T) = 0
  BY <1>6, <1>7, <1>8, <1>9
<1> QED
  BY <1>10 DEF T

LEMMA FlowAcross ==
    ASSUME FFInv, FlowInv, ffStage \in {"search", "augment", "done"},
           NEW S \in SUBSET Ids, sourceId \in S, sinkId \notin S
    PROVE  SumFunctionOnSet(FlowOver, S \X (Ids \ S)) = maxFlow
<1> DEFINE net == [n \in S |-> NetFlow(n)]
<1>1. IsFiniteSet(S) /\ IsFiniteSet(Ids) /\ IsFiniteSet(Ids \ S)
  BY IdsAssumption, FS_Subset
<1>2. \A p \in Pairs : FlowOver[p] \in Int
  BY FlowType DEF FlowOver, Pairs
<1>3. SumFunctionOnSet(FlowOver, S \X Ids) = SumFunctionOnSet(net, S)
  <2>1. \A p \in S \X Ids : FlowOver[p] \in Int
    BY <1>2 DEF Pairs
  <2> DEFINE rows == [n \in S |-> [m \in Ids |-> Flow(n, m)]]
  <2>2. \A n \in S : \A m \in Ids : rows[n][m] = FlowOver[<<n, m>>]
    BY DEF FlowOver, Pairs
  <2>3. \A n \in S : net[n] = SumFunctionOnSet(rows[n], Ids)
    BY DEF NetFlow, SumFunction
  <2> HIDE DEF net, rows
  <2> QED
    BY <1>1, <2>1, <2>2, <2>3, SumOfSums
<1>4. SumFunctionOnSet(net, S) = maxFlow
  <2>1. maxFlow \in Nat
    BY DEF FFInv, FFTyping
  <2>2. net[sourceId] = maxFlow /\ \A n \in S \ {sourceId} : net[n] = 0
    BY DEF FlowInv, Conserved
  <2> HIDE DEF net
  <2> QED
    BY <1>1, <2>1, <2>2, SumSingle
<1>5. /\ S \X Ids = (S \X S) \cup (S \X (Ids \ S))
      /\ (S \X S) \cap (S \X (Ids \ S)) = {}
      /\ \A p \in (S \X S) \cup (S \X (Ids \ S)) : p \in Pairs
  BY DEF Pairs
<1>6. IsFiniteSet(S \X S) /\ IsFiniteSet(S \X (Ids \ S))
  BY <1>1, FS_Product
<1>7. \A p \in (S \X S) \cup (S \X (Ids \ S)) : FlowOver[p] \in Int
  BY <1>2, <1>5
<1>8. SumFunctionOnSet(FlowOver, (S \X S) \cup (S \X (Ids \ S)))
        = SumFunctionOnSet(FlowOver, S \X S) + SumFunctionOnSet(FlowOver, S \X (Ids \ S))
  BY <1>5, <1>6, <1>7, SumUnion
<1>9. SumFunctionOnSet(FlowOver, S \X S) = 0
  BY FlowInside
<1>10. SumFunctionOnSet(FlowOver, S \X (Ids \ S)) \in Int
  BY <1>6, <1>7, SumType
<1>11. SumFunctionOnSet(FlowOver, (S \X S) \cup (S \X (Ids \ S))) = maxFlow
  BY <1>3, <1>4, <1>5, Zenon
<1> HIDE DEF net
<1> QED
  BY <1>8, <1>9, <1>10, <1>11

\* No cut has less capacity than the flow has, and the one the search ends with has no
\* more.
LEMMA FlowFillsCut ==
    ASSUME FFInv, FlowInv, ffStage \in {"search", "augment", "done"},
           NEW S \in SUBSET Ids, sourceId \in S, sinkId \notin S
    PROVE  /\ maxFlow <= CutCapacity(S) /\ CutCapacity(S) \in Int
           /\ ffStage = "done" /\ S = {n \in Ids : Visited(n)} => CutCapacity(S) = maxFlow
<1> DEFINE T == S \X (Ids \ S)
<1>1. IsFiniteSet(T)
  BY IdsAssumption, FS_Subset, FS_Product
<1>2. \A p \in T : FlowOver[p] \in Int /\ original[p] \in Int /\ FlowOver[p] <= original[p]
  <2> TAKE p \in T
  <2>1. p = <<p[1], p[2]>> /\ p[1] \in Ids /\ p[2] \in Ids /\ p \in Pairs
    BY DEF Pairs
  <2>2. FlowOver[p] = Flow(p[1], p[2])
    BY <2>1 DEF FlowOver
  <2>3. Flow(p[1], p[2]) \in Int /\ Flow(p[1], p[2]) <= original[<<p[1], p[2]>>]
        /\ original[<<p[1], p[2]>>] \in Nat
    BY <2>1, FlowType
  <2> QED
    BY <2>1, <2>2, <2>3
<1>3. SumFunctionOnSet(FlowOver, T) = maxFlow
  BY FlowAcross
<1>4. ASSUME ffStage = "done", S = {n \in Ids : Visited(n)} PROVE \A p \in T : original[p] = FlowOver[p]
  <2> TAKE p \in T
  <2>1. p = <<p[1], p[2]>> /\ p[1] \in Ids /\ p[2] \in Ids /\ p \in Pairs
        /\ Visited(p[1]) /\ ~Visited(p[2])
    BY <1>4 DEF Pairs
  <2>2. ~Queued(p[1])
    BY <1>4 DEF FFInv, Queued
  <2>3. residual[<<p[1], p[2]>>] = 0
    BY <1>4, <2>1, <2>2 DEF FFInv, Searched
  <2>4. original[p] \in Nat
    BY <2>1 DEF FFInv, FFTyping
  <2> QED
    BY <2>1, <2>3, <2>4 DEF FlowOver, Flow
<1>5. CutCapacity(S) = SumFunctionOnSet(original, T)
  BY DEF CutCapacity
<1> HIDE DEF T
<1>6. maxFlow <= CutCapacity(S)
  BY <1>1, <1>2, <1>3, <1>5, SumAtMost
<1>7. CutCapacity(S) \in Int
  BY <1>1, <1>2, <1>5, SumType
<1>8. ASSUME ffStage = "done", S = {n \in Ids : Visited(n)} PROVE CutCapacity(S) = maxFlow
  BY <1>1, <1>2, <1>3, <1>4, <1>5, <1>8, SumEqual
<1> QED
  BY <1>6, <1>7, <1>8

LEMMA MatrixConserves ==
    ASSUME FFInv, FlowInv, ffStage = "done"
    PROVE  FlowIsConserved
<1> SUFFICES ASSUME NEW n \in Ids PROVE Outflow(n) - Inflow(n) = NetFlow(n)
  BY DEF FlowIsConserved, FlowInv, Conserved
<1> DEFINE out == [m \in Ids |-> EdgeFlow(n, m)]
           in == [m \in Ids |-> EdgeFlow(m, n)]
           net == [m \in Ids |-> Flow(n, m)]
<1>1. /\ Outflow(n) = SumFunctionOnSet(out, Ids) /\ Inflow(n) = SumFunctionOnSet(in, Ids)
      /\ NetFlow(n) = SumFunctionOnSet(net, Ids)
  BY DEF Outflow, Inflow, NetFlow, SumFunction
<1>2. \A m \in Ids : in[m] \in Int /\ net[m] \in Int /\ out[m] = net[m] + in[m]
  <2> TAKE m \in Ids
  <2>1. /\ Flow(n, m) \in Int /\ Flow(m, n) \in Int /\ Flow(n, m) = -Flow(m, n)
        /\ Flow(n, m) <= original[<<n, m>>] /\ Flow(m, n) <= original[<<m, n>>]
        /\ original[<<n, m>>] \in Nat /\ original[<<m, n>>] \in Nat
    BY FlowType
  <2> QED
    BY <2>1 DEF EdgeFlow, Positive
<1> HIDE DEF out, in, net
<1>3. SumFunctionOnSet(out, Ids) = SumFunctionOnSet(net, Ids) + SumFunctionOnSet(in, Ids)
  BY <1>2, SumPlus, IdsAssumption
<1>4. SumFunctionOnSet(net, Ids) \in Int /\ SumFunctionOnSet(in, Ids) \in Int
  BY <1>2, SumType, IdsAssumption
<1> QED
  BY <1>1, <1>3, <1>4

LEMMA FlowIsCut ==
    ASSUME FFInv, FlowInv
    PROVE  FlowIsMaximal
<1> SUFFICES ASSUME ffStage = "done"
             PROVE  maxFlow = Min({CutCapacity(S) :
                                    S \in {S \in SUBSET Ids : sourceId \in S /\ sinkId \notin S}})
  BY MatrixConserves DEF FlowIsMaximal
<1> DEFINE cuts == {S \in SUBSET Ids : sourceId \in S /\ sinkId \notin S}
           capacities == {CutCapacity(S) : S \in cuts}
           reached == {n \in Ids : Visited(n)}
<1>1. sourceId \in Ids /\ maxFlow \in Nat
  BY DEF FFInv, FFTyping
<1>2. ~Visited(sinkId)
  BY DEF FFInv, Searched
<1>3. reached \in cuts
  BY <1>1, <1>2 DEF Visited
<1>4. maxFlow \in capacities
  BY <1>3, FlowFillsCut
<1>5. \A c \in capacities : c \in Int /\ maxFlow <= c
  BY FlowFillsCut
<1> HIDE DEF capacities
<1>6. Min(capacities) = maxFlow
  <2>1. \A c \in capacities : maxFlow <= c
    BY <1>5
  <2>2. Min(capacities) \in capacities /\ \A c \in capacities : Min(capacities) <= c
    BY <1>4, <2>1, Zenon DEF Min
  <2>3. Min(capacities) <= maxFlow /\ maxFlow <= Min(capacities) /\ Min(capacities) \in Int
    BY <1>4, <1>5, <2>2
  <2> QED
    BY <1>1, <2>3
<1> QED
  BY <1>6 DEF capacities

-----------------------------------------------------------------------------
(* Kaufmann-Malgrange: the path is a simple one along the edges, and the   *)
(* visited nodes are those on it.                                          *)

OnceEach(p) == \A i, j \in 1..Len(p) : p[i] = p[j] => i = j

KMTyping ==
    /\ kmStage \in {"idle", "error", "search", "done"}
    /\ path \in Seq(centers)
    /\ untried \in Seq(SUBSET centers)
    /\ kmStage = "idle" => path = <<>> /\ untried = <<>> /\ ~feasible
    /\ kmStage = "search" =>
          /\ centers \subseteq Ids
          /\ Cardinality(centers) \in Nat \ {0, 1}
          /\ adj \in [Ids -> SUBSET centers]
          /\ starts \subseteq centers
    /\ kmStage = "done" => Cardinality(centers) \in Nat
    /\ feasible \in BOOLEAN

SimplePath ==
    kmStage = "search" =>
        /\ ~feasible
        /\ Len(path) <= Cardinality(centers)
        /\ Len(untried) = Len(path)
        /\ \A i \in 1..Len(path) : untried[i] \subseteq adj[path[i]]
        /\ \A i \in 1..(Len(path) - 1) : path[i + 1] \in adj[path[i]]
        /\ OnceEach(path)
        /\ visited = {path[i] : i \in 1..Len(path)} \/ path = <<>>

KMInv == KMTyping /\ SimplePath /\ CircuitIsHamiltonian

LEMMA KMInitial == KMInit => KMInv
<1>1. KMInit => feasible \in BOOLEAN
  BY Zenon DEF KMInit
<1> QED
  BY <1>1 DEF KMInit, KMInv, KMTyping, SimplePath, CircuitIsHamiltonian

LEMMA KMStutters ==
    ASSUME KMInv, UNCHANGED kmVars
    PROVE  KMInv'
BY DEF kmVars, KMInv, KMTyping, SimplePath, OnceEach, CircuitIsHamiltonian

LEMMA KMBegins ==
    ASSUME KMInv, NEW g, IsGraph(g), KMError(g) \/ KMSingle(g) \/ KMStart(g)
    PROVE  KMInv'
<1>1. CASE KMError(g)
  BY <1>1 DEF KMError, KMInv, KMTyping, SimplePath, CircuitIsHamiltonian
<1>2. CASE KMSingle(g)
  <2>1. /\ kmStage = "idle" /\ kmStage' = "done" /\ feasible' = TRUE
        /\ Cardinality(centers') = 1 /\ UNCHANGED untried
    BY <1>2 DEF KMSingle
  <2>2. PICK n \in centers' : path' = <<n, n>>
    BY <1>2 DEF KMSingle
  <2>3. KMTyping'
    BY <2>1, <2>2 DEF KMInv, KMTyping
  <2>4. CircuitIsHamiltonian'
    BY <2>1, <2>2 DEF CircuitIsHamiltonian
  <2> QED
    BY <2>1, <2>3, <2>4 DEF KMInv, SimplePath
<1>3. CASE KMStart(g)
  <2>1. /\ kmStage = "idle" /\ kmStage' = "search" /\ centers' = getActiveNodes(g, "center")
        /\ Cardinality(centers') \in 2..MaxNodes
        /\ adj' = [n \in Ids |-> Neighbours(g, n)] /\ starts' = centers'
        /\ UNCHANGED <<path, visited, untried, feasible>>
    BY <1>3 DEF KMStart
  <2>2. path = <<>> /\ untried = <<>> /\ ~feasible
    BY <2>1 DEF KMInv, KMTyping
  <2>3. adj' \in [Ids -> SUBSET centers']
    BY <2>1, EdgesOfGraph DEF Neighbours
  <2>4. KMTyping'
    <3>1. feasible' \in BOOLEAN
      BY <2>1 DEF KMInv, KMTyping
    <3> QED
      BY <2>1, <2>2, <2>3, <3>1, NodesOfGraph, KaufmannMalgrangeAssumption DEF KMTyping
  <2>5. SimplePath'
    BY <2>1, <2>2 DEF KMTyping, SimplePath, OnceEach
  <2> QED
    BY <2>1, <2>4, <2>5 DEF KMInv, CircuitIsHamiltonian
<1> QED
  BY <1>1, <1>2, <1>3

LEMMA KMBegin ==
    ASSUME KMInv, NEW s \in Ids, Begin(s)
    PROVE  KMInv'
<1>1. /\ kmStage = "search" /\ s \in starts /\ starts' = starts \ {s}
      /\ path' = <<s>> /\ visited' = {s} /\ untried' = <<adj[s]>>
      /\ UNCHANGED <<kmStage, centers, adj, feasible>>
  BY DEF Begin
<1>2. s \in centers /\ adj[s] \in SUBSET centers /\ Cardinality(centers) >= 1
  BY <1>1 DEF KMInv, KMTyping
<1>3. KMTyping'
  BY <1>1, <1>2 DEF KMInv, KMTyping
<1>4. SimplePath'
  BY <1>1, <1>2 DEF KMInv, SimplePath, OnceEach
<1> QED
  BY <1>1, <1>3, <1>4 DEF KMInv, CircuitIsHamiltonian

LEMMA KMExtends ==
    ASSUME KMInv, NEW n \in Ids, Extend(n)
    PROVE  KMInv'
<1> DEFINE k == Len(path)
<1>1. /\ kmStage = "search" /\ path # <<>> /\ k # Cardinality(centers)
      /\ n \in untried[k] \ visited
      /\ path' = Append(path, n) /\ visited' = visited \cup {n}
      /\ untried' = Append([untried EXCEPT ![k] = @ \ {n}], adj[n])
      /\ UNCHANGED <<kmStage, centers, adj, starts, feasible>>
  BY DEF Extend, Full
<1>2. /\ path \in Seq(centers) /\ untried \in Seq(SUBSET centers) /\ k \in Nat /\ k >= 1
      /\ Len(untried) = k /\ Cardinality(centers) \in Nat /\ k + 1 <= Cardinality(centers)
  BY <1>1 DEF KMInv, KMTyping, SimplePath
<1>3. n \in centers /\ n \in adj[path[k]] /\ adj[n] \in SUBSET centers
  BY <1>1, <1>2 DEF KMInv, KMTyping, SimplePath
<1>4. /\ path' \in Seq(centers) /\ Len(path') = k + 1 /\ path'[k + 1] = n
      /\ \A i \in 1..k : path'[i] = path[i]
  BY <1>1, <1>2, <1>3
<1>5. /\ untried' \in Seq(SUBSET centers) /\ Len(untried') = k + 1 /\ untried'[k + 1] = adj[n]
      /\ \A i \in 1..k : untried'[i] \subseteq untried[i]
  <2> DEFINE rest == [untried EXCEPT ![k] = @ \ {n}]
  <2>1. rest \in Seq(SUBSET centers) /\ Len(rest) = k /\ \A i \in 1..k : rest[i] \subseteq untried[i]
    BY <1>2
  <2> HIDE DEF rest
  <2> QED
    BY <1>1, <1>2, <1>3, <2>1
<1>6. visited = {path[i] : i \in 1..k}
  BY <1>1 DEF KMInv, SimplePath
<1>7. KMTyping'
  BY <1>1, <1>4, <1>5 DEF KMInv, KMTyping
<1>8. SimplePath'
  <2>1. \A i \in 1..(k + 1) : untried'[i] \subseteq adj'[path'[i]]
    BY <1>1, <1>2, <1>4, <1>5 DEF KMInv, SimplePath
  <2>2. \A i \in 1..k : path'[i + 1] \in adj'[path'[i]]
    BY <1>1, <1>2, <1>3, <1>4 DEF KMInv, SimplePath
  <2>3. OnceEach(path)'
    <3>1. OnceEach(path)
      BY <1>1 DEF KMInv, SimplePath
    <3>2. \A i \in 1..k : path[i] # n
      BY <1>1, <1>6
    <3> QED
      BY <1>2, <1>4, <3>1, <3>2 DEF OnceEach
  <2>4. visited' = {path'[i] : i \in 1..Len(path')}
    <3>1. \A i \in 1..(k + 1) : i \in 1..k \/ i = k + 1
      BY <1>2
    <3>2. k + 1 \in 1..(k + 1) /\ \A i \in 1..k : i \in 1..(k + 1)
      BY <1>2
    <3> QED
      BY <1>1, <1>4, <1>6, <3>1, <3>2
  <2> QED
    BY <1>1, <1>2, <1>4, <1>5, <2>1, <2>2, <2>3, <2>4 DEF KMInv, SimplePath
<1> QED
  BY <1>1, <1>7, <1>8 DEF KMInv, CircuitIsHamiltonian

LEMMA KMBacktracks ==
    ASSUME KMInv, Backtrack
    PROVE  KMInv'
<1> DEFINE k == Len(path)
<1>1. /\ kmStage = "search" /\ path # <<>>
      /\ path' = SubSeq(path, 1, k - 1) /\ visited' = visited \ {path[k]}
      /\ untried' = SubSeq(untried, 1, Len(untried) - 1)
      /\ UNCHANGED <<kmStage, centers, adj, starts, feasible>>
  BY DEF Backtrack, DeadEnd, Current
<1>2. /\ path \in Seq(centers) /\ untried \in Seq(SUBSET centers) /\ k \in Nat /\ k >= 1
      /\ Len(untried) = k /\ k <= Cardinality(centers) /\ Cardinality(centers) \in Nat
  BY <1>1 DEF KMInv, KMTyping, SimplePath
<1>3. /\ path' \in Seq(centers) /\ Len(path') = k - 1 /\ \A i \in 1..(k - 1) : path'[i] = path[i]
  BY <1>1, <1>2
<1>4. /\ untried' \in Seq(SUBSET centers) /\ Len(untried') = k - 1
      /\ \A i \in 1..(k - 1) : untried'[i] = untried[i]
  BY <1>1, <1>2
<1>5. KMTyping'
  BY <1>1, <1>3, <1>4 DEF KMInv, KMTyping
<1>6. SimplePath'
  <2>1. OnceEach(path) /\ visited = {path[i] : i \in 1..k}
    BY <1>1 DEF KMInv, SimplePath
  <2>2. OnceEach(path)'
    BY <1>2, <1>3, <2>1 DEF OnceEach
  <2>3. visited' = {path'[i] : i \in 1..Len(path')}
    <3>1. \A i \in 1..k : i \in 1..(k - 1) \/ i = k
      BY <1>2
    <3>2. \A i \in 1..(k - 1) : i \in 1..k /\ k \in 1..k /\ path[i] # path[k]
      BY <1>2, <2>1 DEF OnceEach
    <3> QED
      BY <1>1, <1>2, <1>3, <2>1, <3>1, <3>2
  <2>4. \A i \in 1..(k - 1) : untried'[i] \subseteq adj'[path'[i]]
    BY <1>1, <1>2, <1>3, <1>4 DEF KMInv, SimplePath
  <2>5. \A i \in 1..(k - 2) : path'[i + 1] \in adj'[path'[i]]
    <3>1. \A i \in 1..(k - 2) : i \in 1..(k - 1) /\ i + 1 \in 1..(k - 1)
      BY <1>2
    <3> QED
      BY <1>1, <1>3, <3>1 DEF KMInv, SimplePath
  <2>6. /\ Len(path') - 1 = k - 2 /\ Len(path') <= Cardinality(centers')
        /\ Len(untried') = Len(path') /\ ~feasible'
    BY <1>1, <1>2, <1>3, <1>4 DEF KMInv, SimplePath
  <2> QED
    BY <1>3, <2>2, <2>3, <2>4, <2>5, <2>6 DEF SimplePath
<1> QED
  BY <1>1, <1>5, <1>6 DEF KMInv, CircuitIsHamiltonian

LEMMA KMCloses ==
    ASSUME KMInv, CloseCircuit
    PROVE  KMInv'
<1> DEFINE k == Len(path)
<1>1. /\ kmStage = "search" /\ kmStage' = "done" /\ path # <<>> /\ k = Cardinality(centers)
      /\ path[1] \in adj[path[k]] /\ path' = Append(path, path[1])
      /\ UNCHANGED <<centers, adj, untried>>
  BY DEF CloseCircuit, Full, Closes, Current
<1>2. /\ path \in Seq(centers) /\ k \in Nat /\ k > 1
      /\ OnceEach(path) /\ \A i \in 1..(k - 1) : path[i + 1] \in adj[path[i]]
  BY <1>1 DEF KMInv, KMTyping, SimplePath
<1>3. /\ path' \in Seq(centers) /\ Len(path') = k + 1 /\ path'[k + 1] = path[1]
      /\ \A i \in 1..k : path'[i] = path[i] /\ path[i] \in centers
  BY <1>1, <1>2
<1>4. \A i \in 1..k : path'[i + 1] \in adj[path'[i]]
  <2> TAKE i \in 1..k
  <2>1. CASE i = k
    BY <1>1, <1>3, <2>1
  <2>2. CASE i # k
    <3>1. i \in 1..(k - 1) /\ i + 1 \in 1..k
      BY <1>2, <2>2
    <3> QED
      BY <1>2, <1>3, <3>1
  <2> QED
    BY <2>1, <2>2
<1>5. \A i, j \in 1..k : path'[i] = path'[j] => i = j
  BY <1>2, <1>3 DEF OnceEach
<1>6. path'[1] = path[1] /\ path'[Len(path')] = path'[1]
  BY <1>2, <1>3
<1>7. CircuitIsHamiltonian'
  <2> DEFINE size == Cardinality(centers')
  <2>1. size = k
    BY <1>1
  <2>2. /\ Len(path') = size + 1
        /\ \A i \in 1..size : path'[i] \in centers'
        /\ \A i, j \in 1..size : path'[i] = path'[j] => i = j
        /\ \A i \in 1..size : path'[i + 1] \in adj'[path'[i]]
    BY <1>1, <1>3, <1>4, <1>5, <2>1
  <2> QED
    BY <1>6, <2>2 DEF CircuitIsHamiltonian
<1>8. feasible' \in BOOLEAN
  BY Zenon DEF CloseCircuit
<1> QED
  BY <1>1, <1>3, <1>7, <1>8 DEF KMInv, KMTyping, SimplePath

LEMMA KMSteps ==
    ASSUME KMInv, KMStep
    PROVE  KMInv'
<1>1. CASE GiveUp
  BY <1>1 DEF GiveUp, KMInv, KMTyping, SimplePath, CircuitIsHamiltonian
<1> QED
  BY <1>1, KMBegin, KMExtends, KMBacktracks, KMCloses DEF KMStep

-----------------------------------------------------------------------------
(* No circuit is missed: as long as the search goes on, every circuit of   *)
(* the graph begins at a start node that is left or leaves the path at a   *)
(* neighbour that some loop has not come to.                               *)

Orders == [1..Cardinality(centers) -> centers]

\* The order begins with the first i nodes of the path.
Follows(order, i) == \A j \in 1..i : order[j] = path[j]

\* A circuit that has not come up begins at a start node that is left, or leaves the
\* path at a neighbour some loop has not come to.
NothingMissed ==
    /\ kmStage = "search" =>
          \A order \in Orders : IsCircuit(order) =>
              /\ order[1] \in starts \/ (path # <<>> /\ order[1] = path[1])
              /\ \A i \in 1..Len(path) :
                    i < Cardinality(centers) /\ Follows(order, i) =>
                       \/ order[i + 1] \in untried[i]
                       \/ i < Len(path) /\ order[i + 1] = path[i + 1]
    /\ kmStage = "done" /\ Cardinality(centers) > 1 => feasible \/ ~HasCircuit

LEMMA KMSearchFacts ==
    ASSUME KMInv, kmStage = "search"
    PROVE  /\ path \in Seq(centers) /\ untried \in Seq(SUBSET centers)
           /\ Len(path) \in Nat /\ Len(untried) = Len(path)
           /\ Cardinality(centers) \in Nat /\ Cardinality(centers) >= 2
           /\ Len(path) <= Cardinality(centers)
           /\ path # <<>> => Len(path) >= 1 /\ visited = {path[i] : i \in 1..Len(path)}
           /\ \A order \in Orders : order[1] \in centers
BY DEF KMInv, KMTyping, SimplePath, Orders

\* An order with an edge from each to the next.
LEMMA CircuitGoesOn ==
    ASSUME NEW order \in Orders, IsCircuit(order),
           Cardinality(centers) \in Nat, Cardinality(centers) >= 2
    PROVE  /\ \A i \in 1..(Cardinality(centers) - 1) : order[i + 1] \in adj[order[i]]
           /\ order[1] \in adj[order[Cardinality(centers)]]
<1> DEFINE N == Cardinality(centers)
<1>1. DOMAIN order = 1..N /\ \A i \in 1..N : order[(i % N) + 1] \in adj[order[i]]
  BY DEF Orders, IsCircuit
<1> HIDE DEF N
<1>2. N \in Nat /\ N >= 2
  BY DEF N
<1>3. \A i \in 1..(N - 1) : i \in 1..N /\ i % N = i
  BY <1>2
<1>4. N % N = 0 /\ N \in 1..N
  BY <1>2
<1>5. \A i \in 1..(N - 1) : order[i + 1] \in adj[order[i]]
  BY <1>1, <1>3
<1>6. order[0 + 1] \in adj[order[N]]
  BY <1>1, <1>4
<1> QED
  BY <1>5, <1>6 DEF N

LEMMA KMStartMisses ==
    ASSUME KMInv, NEW g, IsGraph(g), KMError(g) \/ KMSingle(g) \/ KMStart(g)
    PROVE  NothingMissed'
<1>1. CASE KMError(g)
  BY <1>1 DEF KMError, NothingMissed
<1>2. CASE KMSingle(g)
  BY <1>2 DEF KMSingle, NothingMissed
<1>3. CASE KMStart(g)
  <2>1. kmStage = "idle" /\ kmStage' = "search" /\ starts' = centers' /\ path' = path
        /\ Cardinality(centers') \in 2..MaxNodes
    BY <1>3 DEF KMStart
  <2>2. path' = <<>>
    BY <2>1 DEF KMInv, KMTyping
  <2>3. \A order \in Orders' : order[1] \in centers'
    BY <2>1, KaufmannMalgrangeAssumption DEF Orders
  <2> QED
    BY <2>1, <2>2, <2>3 DEF NothingMissed
<1> QED
  BY <1>1, <1>2, <1>3

LEMMA KMBeginMisses ==
    ASSUME KMInv, NothingMissed, NEW s \in Ids, Begin(s)
    PROVE  NothingMissed'
<1>1. /\ kmStage = "search" /\ path = <<>> /\ s \in starts /\ starts' = starts \ {s}
      /\ path' = <<s>> /\ untried' = <<adj[s]>>
      /\ UNCHANGED <<kmStage, centers, adj, feasible>>
  BY DEF Begin
<1> SUFFICES ASSUME NEW order \in Orders, IsCircuit(order)
             PROVE  /\ order[1] \in starts' \/ (path' # <<>> /\ order[1] = path'[1])
                    /\ \A i \in 1..Len(path') :
                          i < Cardinality(centers') /\ Follows(order, i)' =>
                             \/ order[i + 1] \in untried'[i]
                             \/ i < Len(path') /\ order[i + 1] = path'[i + 1]
  BY <1>1 DEF NothingMissed, Orders, IsCircuit
<1>2. order[1] \in starts
  BY <1>1 DEF NothingMissed
<1>3. path' # <<>> /\ path'[1] = s /\ Len(path') = 1
  BY <1>1
<1>4. Follows(order, 1)' => order[2] \in untried'[1]
  <2>1. Cardinality(centers) \in Nat /\ Cardinality(centers) >= 2
    BY <1>1, KMSearchFacts
  <2>2. 1 \in 1..(Cardinality(centers) - 1)
    BY <2>1
  <2>3. order[1 + 1] \in adj[order[1]]
    BY <2>1, <2>2, CircuitGoesOn
  <2> QED
    BY <1>1, <1>3, <2>3 DEF Follows
<1> QED
  BY <1>1, <1>2, <1>3, <1>4

LEMMA KMExtendMisses ==
    ASSUME KMInv, NothingMissed, NEW n \in Ids, Extend(n)
    PROVE  NothingMissed'
<1> DEFINE k == Len(path)
           N == Cardinality(centers)
<1>1. /\ kmStage = "search" /\ path # <<>> /\ k # N
      /\ n \in untried[k] \ visited
      /\ path' = Append(path, n)
      /\ untried' = Append([untried EXCEPT ![k] = @ \ {n}], adj[n])
      /\ UNCHANGED <<kmStage, centers, adj, starts, feasible>>
  BY DEF Extend, Full
<1>2. /\ path \in Seq(centers) /\ untried \in Seq(SUBSET centers) /\ k \in Nat /\ k >= 1
      /\ Len(untried) = k /\ N \in Nat /\ N >= 2 /\ k + 1 <= N
  BY <1>1, KMSearchFacts
<1>3. n \in centers /\ adj[n] \in SUBSET centers
  BY <1>1, <1>2 DEF KMInv, KMTyping
<1>4. /\ Len(path') = k + 1 /\ path'[k + 1] = n /\ path' # <<>>
      /\ \A i \in 1..k : path'[i] = path[i]
  BY <1>1, <1>2, <1>3
<1>5. /\ untried'[k + 1] = adj[n] /\ untried'[k] = untried[k] \ {n}
      /\ \A i \in 1..(k - 1) : untried'[i] = untried[i]
  <2> DEFINE rest == [untried EXCEPT ![k] = @ \ {n}]
  <2>1. rest \in Seq(SUBSET centers) /\ Len(rest) = k /\ rest[k] = untried[k] \ {n}
        /\ \A i \in 1..(k - 1) : rest[i] = untried[i]
    BY <1>2
  <2> HIDE DEF rest
  <2>2. untried' = Append(rest, adj[n])
    BY <1>1 DEF rest
  <2> QED
    BY <1>2, <1>3, <2>1, <2>2
<1> SUFFICES ASSUME NEW order \in Orders, IsCircuit(order)
             PROVE  /\ order[1] \in starts' \/ (path' # <<>> /\ order[1] = path'[1])
                    /\ \A i \in 1..Len(path') :
                          i < Cardinality(centers') /\ Follows(order, i)' =>
                             \/ order[i + 1] \in untried'[i]
                             \/ i < Len(path') /\ order[i + 1] = path'[i + 1]
  BY <1>1 DEF NothingMissed, Orders, IsCircuit
<1>6. order[1] \in starts \/ order[1] = path[1]
  BY <1>1 DEF NothingMissed
<1>7. ASSUME NEW i \in 1..(k + 1), i < N, Follows(order, i)'
      PROVE  order[i + 1] \in untried'[i] \/ (i < k + 1 /\ order[i + 1] = path'[i + 1])
  <2>1. CASE i = k + 1
    <3>1. order[i] = n
      BY <1>2, <1>4, <1>7, <2>1 DEF Follows
    <3>2. i \in 1..(N - 1)
      BY <1>2, <1>7
    <3>3. order[i + 1] \in adj[order[i]]
      BY <1>2, <3>2, CircuitGoesOn
    <3> QED
      BY <1>5, <2>1, <3>1, <3>3
  <2>2. CASE i # k + 1
    <3>1. i \in 1..k
      BY <1>2, <2>2
    <3>2. Follows(order, i)
      BY <1>2, <1>4, <1>7, <3>1 DEF Follows
    <3>3. order[i + 1] \in untried[i] \/ (i < k /\ order[i + 1] = path[i + 1])
      BY <1>1, <1>7, <3>1, <3>2 DEF NothingMissed
    <3>4. CASE i = k
      BY <1>2, <1>4, <1>5, <3>3, <3>4
    <3>5. CASE i # k
      <4>1. i \in 1..(k - 1) /\ i + 1 \in 1..k
        BY <1>2, <3>1, <3>5
      <4> QED
        BY <1>2, <1>4, <1>5, <3>3, <4>1
    <3> QED
      BY <3>4, <3>5
  <2> QED
    BY <2>1, <2>2
<1> QED
  BY <1>1, <1>2, <1>4, <1>6, <1>7

\* The dead end: no circuit goes on from the whole path.
LEMMA DeadEndIsNoCircuit ==
    ASSUME KMInv, NothingMissed, kmStage = "search", DeadEnd,
           NEW order \in Orders, IsCircuit(order)
    PROVE  ~Follows(order, Len(path))
<1> DEFINE k == Len(path)
           N == Cardinality(centers)
<1>1. path # <<>> /\ IF k = N THEN path[1] \notin adj[path[k]] ELSE untried[k] \subseteq visited
  BY DEF DeadEnd, Full, Closes, Current
<1>2. /\ k \in Nat /\ k >= 1 /\ N \in Nat /\ N >= 2 /\ k <= N
      /\ visited = {path[i] : i \in 1..k}
  BY <1>1, KMSearchFacts
<1> SUFFICES ASSUME Follows(order, k) PROVE FALSE
  OBVIOUS
<1>3. \A i \in 1..k : order[i] = path[i]
  BY DEF Follows
<1>4. CASE k = N
  <2>1. order[1] \in adj[order[N]]
    BY <1>2, CircuitGoesOn
  <2> QED
    BY <1>1, <1>2, <1>3, <1>4, <2>1
<1>5. CASE k # N
  <2>1. order[k + 1] \in untried[k]
    BY <1>2, <1>5 DEF NothingMissed
  <2>2. PICK j \in 1..k : order[k + 1] = order[j]
    BY <1>1, <1>2, <1>3, <1>5, <2>1
  <2>3. DOMAIN order = 1..N /\ k + 1 \in 1..N /\ j \in 1..N
    BY <1>2, <1>5 DEF Orders
  <2>4. j = k + 1
    BY <2>2, <2>3 DEF IsCircuit
  <2> QED
    BY <1>2, <2>4
<1> QED
  BY <1>4, <1>5

LEMMA KMBacktrackMisses ==
    ASSUME KMInv, NothingMissed, Backtrack
    PROVE  NothingMissed'
<1> DEFINE k == Len(path)
           N == Cardinality(centers)
<1>1. /\ kmStage = "search" /\ DeadEnd /\ path # <<>>
      /\ path' = SubSeq(path, 1, k - 1)
      /\ untried' = SubSeq(untried, 1, Len(untried) - 1)
      /\ UNCHANGED <<kmStage, centers, adj, starts, feasible>>
  BY DEF Backtrack, DeadEnd
<1>2. /\ path \in Seq(centers) /\ untried \in Seq(SUBSET centers) /\ k \in Nat /\ k >= 1
      /\ Len(untried) = k /\ N \in Nat /\ N >= 2 /\ k <= N
  BY <1>1, KMSearchFacts
<1>3. /\ Len(path') = k - 1 /\ \A i \in 1..(k - 1) : path'[i] = path[i]
      /\ k > 1 => path' # <<>>
  <2>1. Len(path') = k - 1 /\ \A i \in 1..(k - 1) : path'[i] = path[i]
    BY <1>1, <1>2
  <2>2. k > 1 => path' # <<>>
    BY <1>2, <2>1
  <2> QED
    BY <2>1, <2>2
<1>4. \A i \in 1..(k - 1) : untried'[i] = untried[i]
  BY <1>1, <1>2
<1> SUFFICES ASSUME NEW order \in Orders, IsCircuit(order)
             PROVE  /\ order[1] \in starts' \/ (path' # <<>> /\ order[1] = path'[1])
                    /\ \A i \in 1..Len(path') :
                          i < Cardinality(centers') /\ Follows(order, i)' =>
                             \/ order[i + 1] \in untried'[i]
                             \/ i < Len(path') /\ order[i + 1] = path'[i + 1]
  BY <1>1 DEF NothingMissed, Orders, IsCircuit
<1>5. ~Follows(order, k)
  BY <1>1, DeadEndIsNoCircuit
<1>6. order[1] \in starts' \/ (path' # <<>> /\ order[1] = path'[1])
  <2>1. order[1] \in starts \/ order[1] = path[1]
    BY <1>1 DEF NothingMissed
  <2>2. CASE k = 1
    BY <1>1, <1>5, <2>1, <2>2 DEF Follows
  <2>3. CASE k # 1
    <3>1. 1 \in 1..(k - 1)
      BY <1>2, <2>3
    <3> QED
      BY <1>1, <1>2, <1>3, <2>1, <2>3, <3>1
  <2> QED
    BY <2>2, <2>3
<1>7. ASSUME NEW i \in 1..(k - 1), i < N, Follows(order, i)'
      PROVE  order[i + 1] \in untried'[i] \/ (i < k - 1 /\ order[i + 1] = path'[i + 1])
  <2>1. Follows(order, i)
    BY <1>2, <1>3, <1>7 DEF Follows
  <2>2. order[i + 1] \in untried[i] \/ order[i + 1] = path[i + 1]
    BY <1>1, <1>2, <1>7, <2>1 DEF NothingMissed
  <2>3. CASE i = k - 1
    <3>1. order[k] # path[k]
      BY <1>2, <1>5, <2>1, <2>3 DEF Follows
    <3> QED
      BY <1>2, <1>4, <2>2, <2>3, <3>1
  <2>4. CASE i # k - 1
    <3>1. i + 1 \in 1..(k - 1) /\ i < k - 1
      BY <1>2, <2>4
    <3> QED
      BY <1>3, <1>4, <2>2, <3>1
  <2> QED
    BY <2>3, <2>4
<1> QED
  BY <1>1, <1>3, <1>6, <1>7

LEMMA KMStepMisses ==
    ASSUME KMInv, NothingMissed, KMStep
    PROVE  NothingMissed'
<1>1. CASE CloseCircuit
  BY <1>1 DEF CloseCircuit, NothingMissed
<1>2. CASE GiveUp
  <2>1. kmStage = "search" /\ kmStage' = "done" /\ path = <<>> /\ starts = {}
        /\ UNCHANGED <<centers, adj>>
    BY <1>2 DEF GiveUp
  <2>2. ~HasCircuit
    BY <2>1 DEF NothingMissed, HasCircuit, Orders
  <2> QED
    BY <2>1, <2>2 DEF NothingMissed, HasCircuit, IsCircuit
<1> QED
  BY <1>1, <1>2, KMBeginMisses, KMExtendMisses, KMBacktrackMisses DEF KMStep

LEMMA KMStuttersMisses ==
    ASSUME NothingMissed, UNCHANGED kmVars
    PROVE  NothingMissed'
BY DEF kmVars, NothingMissed, HasCircuit, IsCircuit, Orders, Follows

\* The path that is answered is a circuit.
LEMMA PathIsCircuit ==
    ASSUME KMInv, kmStage = "done", feasible, Cardinality(centers) > 1
    PROVE  HasCircuit
<1> DEFINE N == Cardinality(centers)
           order == [i \in 1..N |-> path[i]]
<1>1. N \in Nat /\ N > 1
  BY DEF KMInv, KMTyping
<1>2. /\ Len(path) = N + 1 /\ path[N + 1] = path[1]
      /\ \A i \in 1..N : path[i] \in centers
      /\ \A i, j \in 1..N : path[i] = path[j] => i = j
      /\ \A i \in 1..N : path[i + 1] \in adj[path[i]]
  BY DEF KMInv, CircuitIsHamiltonian
<1>3. order \in [1..N -> centers]
  BY <1>2
<1>4. ASSUME NEW i \in 1..N PROVE order[(i % N) + 1] \in adj[order[i]]
  <2> HIDE DEF N
  <2>1. CASE i = N
    <3>1. (i % N) + 1 = 1 /\ 1 \in 1..N
      BY <1>1, <2>1
    <3> QED
      BY <1>2, <2>1, <3>1
  <2>2. CASE i # N
    <3>1. (i % N) + 1 = i + 1 /\ i + 1 \in 1..N
      BY <1>1, <2>2
    <3> QED
      BY <1>2, <3>1
  <2> QED
    BY <2>1, <2>2
<1>5. IsCircuit(order)
  BY <1>2, <1>4 DEF IsCircuit
<1> HIDE DEF order
<1> QED
  BY <1>3, <1>5 DEF HasCircuit

-----------------------------------------------------------------------------
(* Ore's theorem.  Of the orders of the centers in a circle one has the    *)
(* least number of gaps, places where no edge leads to the next; when it   *)
(* has one, the condition on the degrees lets a piece of the circle be     *)
(* turned round so that there are fewer.                                   *)

LEMMA NoMoreThan ==
    ASSUME NEW S, NEW T, IsFiniteSet(T), NEW h \in [S -> T],
           \A x, y \in S : h[x] = h[y] => x = y
    PROVE  IsFiniteSet(S) /\ Cardinality(S) \in Nat /\ Cardinality(S) <= Cardinality(T)
<1>1. h \in Injection(S, T)
  BY DEF Injection, IsInjective
<1>2. IsFiniteSet(S) /\ Cardinality(S) <= Cardinality(T)
  BY <1>1, FS_Injection
<1> QED
  BY <1>2, FS_CardinalityType

\* The nodes of S in some order, n of them.
Arrangement(f, S, n) ==
    /\ f \in [1..n -> S]
    /\ \A i, j \in 1..n : f[i] = f[j] => i = j
    /\ \A s \in S : \E i \in 1..n : f[i] = s

\* The next place in the circle.
After(i, n) == IF i = n THEN 1 ELSE i + 1

\* The places whose node has no edge to the node after it.
Gaps(f, near, n) == {i \in 1..n : f[After(i, n)] \notin near[f[i]]}

\* What a node is near to is near to it, and no node is near to itself.
Mutual(near, S) ==
    /\ near \in [S -> SUBSET S]
    /\ \A x, y \in S : x \in near[y] => y \in near[x]
    /\ \A x \in S : x \notin near[x]

\* A circle may be read from any place.
LEMMA Turned ==
    ASSUME NEW S, NEW n \in Nat, n >= 2, NEW f, Arrangement(f, S, n), NEW near,
           NEW k \in Gaps(f, near, n)
    PROVE  \E g : /\ Arrangement(g, S, n) /\ n \in Gaps(g, near, n)
                  /\ Cardinality(Gaps(g, near, n)) <= Cardinality(Gaps(f, near, n))
<1> DEFINE r == [i \in 1..n |-> IF i + k <= n THEN i + k ELSE i + k - n]
           g == [i \in 1..n |-> f[r[i]]]
<1>1. k \in 1..n /\ IsFiniteSet(Gaps(f, near, n))
  <2>1. IsFiniteSet(1..n)
    BY FS_Interval
  <2>2. Gaps(f, near, n) \in SUBSET (1..n)
    BY DEF Gaps
  <2> QED
    BY <2>1, <2>2, FS_Subset
<1>2. r \in [1..n -> 1..n] /\ (\A i, j \in 1..n : r[i] = r[j] => i = j)
      /\ r[n] = k /\ r[1] = After(k, n)
  <2>1. \A i \in 1..n : r[i] = IF i + k <= n THEN i + k ELSE i + k - n
    OBVIOUS
  <2>2. r \in [1..n -> 1..n]
    BY <1>1
  <2> HIDE DEF r
  <2>3. \A i, j \in 1..n : r[i] = r[j] => i = j
    BY <1>1, <2>1
  <2>4. r[n] = k /\ r[1] = After(k, n)
    BY <1>1, <2>1 DEF After
  <2> QED
    BY <2>2, <2>3, <2>4
<1>3. \A j \in 1..n : \E i \in 1..n : r[i] = j
  <2> TAKE j \in 1..n
  <2>1. CASE j > k
    <3>1. j - k \in 1..n /\ r[j - k] = j
      BY <1>1, <2>1
    <3> QED
      BY <3>1
  <2>2. CASE j <= k
    <3>1. j - k + n \in 1..n /\ r[j - k + n] = j
      BY <1>1, <2>2
    <3> QED
      BY <3>1
  <2> QED
    BY <1>1, <2>1, <2>2
<1>4. \A i \in 1..n : After(i, n) \in 1..n /\ r[After(i, n)] = After(r[i], n)
  <2> TAKE i \in 1..n
  <2>1. After(i, n) \in 1..n
    BY DEF After
  <2>2. CASE i = n
    BY <1>2, <2>2 DEF After
  <2>3. CASE i # n /\ i + k < n
    BY <1>1, <2>3 DEF After
  <2>4. CASE i # n /\ i + k = n
    BY <1>1, <2>4 DEF After
  <2>5. CASE i # n /\ i + k > n
    BY <1>1, <2>5 DEF After
  <2> QED
    BY <1>1, <2>1, <2>2, <2>3, <2>4, <2>5
<1>5. g \in [1..n -> S] /\ \A i \in 1..n : g[i] = f[r[i]]
  BY <1>2 DEF Arrangement
<1> HIDE DEF r, g
<1>6. Arrangement(g, S, n)
  <2>1. \A i, j \in 1..n : g[i] = g[j] => i = j
    BY <1>2, <1>5 DEF Arrangement
  <2>2. ASSUME NEW s \in S PROVE \E i \in 1..n : g[i] = s
    <3>1. PICK j \in 1..n : f[j] = s
      BY DEF Arrangement
    <3>2. PICK i \in 1..n : r[i] = j
      BY <1>3
    <3> QED
      BY <1>5, <3>1, <3>2
  <2> QED
    BY <1>5, <2>1, <2>2 DEF Arrangement
<1>7. \A i \in 1..n : i \in Gaps(g, near, n) <=> r[i] \in Gaps(f, near, n)
  <2> TAKE i \in 1..n
  <2>1. g[i] = f[r[i]] /\ g[After(i, n)] = f[After(r[i], n)] /\ r[i] \in 1..n
    BY <1>2, <1>4, <1>5
  <2> QED
    BY <2>1 DEF Gaps
<1>8. n \in Gaps(g, near, n)
  BY <1>2, <1>7
<1>9. Cardinality(Gaps(g, near, n)) <= Cardinality(Gaps(f, near, n))
  <2> DEFINE h == [i \in Gaps(g, near, n) |-> r[i]]
  <2>1. \A i \in Gaps(g, near, n) : i \in 1..n
    BY DEF Gaps
  <2>2. h \in [Gaps(g, near, n) -> Gaps(f, near, n)]
    BY <1>7, <2>1
  <2>3. \A x, y \in Gaps(g, near, n) : h[x] = h[y] => x = y
    BY <1>2, <2>1
  <2> HIDE DEF h
  <2> QED
    BY <1>1, <2>2, <2>3, NoMoreThan
<1> QED
  BY <1>6, <1>8, <1>9

\* The piece from place k + 1 to the last, read backwards, closes the gap after the last
\* place when the last node is near to that of place k, and the first to that after it.
LEMMA Mended ==
    ASSUME NEW S, NEW n \in Nat, n >= 2, NEW f, Arrangement(f, S, n),
           NEW near, Mutual(near, S), n \in Gaps(f, near, n),
           NEW k \in 1..(n - 1), f[k] \in near[f[n]], f[k + 1] \in near[f[1]]
    PROVE  \E g : /\ Arrangement(g, S, n)
                  /\ Cardinality(Gaps(g, near, n)) < Cardinality(Gaps(f, near, n))
<1> DEFINE r == [i \in 1..n |-> IF i <= k THEN i ELSE n + k + 1 - i]
           g == [i \in 1..n |-> f[r[i]]]
           old == Gaps(f, near, n)
           new == Gaps(g, near, n)
<1>1. IsFiniteSet(old \ {n}) /\ Cardinality(old \ {n}) < Cardinality(old)
  <2>1. IsFiniteSet(1..n)
    BY FS_Interval
  <2>2. old \in SUBSET (1..n)
    BY DEF Gaps
  <2>3. IsFiniteSet(old)
    BY <2>1, <2>2, FS_Subset
  <2>4. IsFiniteSet(old \ {n}) /\ Cardinality(old \ {n}) = Cardinality(old) - 1
        /\ Cardinality(old) \in Nat
    BY <2>3, FS_RemoveElement, FS_CardinalityType
  <2> QED
    BY <2>4
<1>2. /\ r \in [1..n -> 1..n] /\ \A i \in 1..n : r[i] = IF i <= k THEN i ELSE n + k + 1 - i
  OBVIOUS
<1>3. g \in [1..n -> S] /\ \A i \in 1..n : g[i] = f[r[i]]
  BY DEF Arrangement
<1> HIDE DEF r, g
<1>4. \A i, j \in 1..n : r[i] = r[j] => i = j
  BY <1>2
<1>5. \A j \in 1..n : r[j] \in 1..n /\ r[r[j]] = j
  <2> TAKE j \in 1..n
  <2>1. r[j] \in 1..n
    BY <1>2
  <2>2. CASE j <= k
    BY <1>2, <2>2
  <2>3. CASE j > k
    <3>1. r[j] = n + k + 1 - j /\ n + k + 1 - j \in 1..n /\ ~(n + k + 1 - j <= k)
      BY <1>2, <2>3
    <3>2. r[n + k + 1 - j] = n + k + 1 - (n + k + 1 - j)
      BY <1>2, <3>1
    <3> QED
      BY <3>1, <3>2
  <2> QED
    BY <2>1, <2>2, <2>3
<1>6. Arrangement(g, S, n)
  <2>1. \A i, j \in 1..n : g[i] = g[j] => i = j
    BY <1>2, <1>3, <1>4 DEF Arrangement
  <2>2. ASSUME NEW s \in S PROVE \E i \in 1..n : g[i] = s
    <3>1. PICK j \in 1..n : f[j] = s
      BY DEF Arrangement
    <3>2. r[j] \in 1..n /\ g[r[j]] = s
      BY <1>3, <1>5, <3>1
    <3> QED
      BY <3>2
  <2> QED
    BY <1>3, <2>1, <2>2 DEF Arrangement
<1> DEFINE h == [i \in new |-> IF i < k THEN i ELSE n + k - i]
<1>7. \A x, y \in S : x \in near[y] <=> y \in near[x]
  BY DEF Mutual
<1>8. ASSUME NEW i \in new
      PROVE  i \in 1..n /\ i # k /\ i # n /\ (IF i < k THEN i ELSE n + k - i) \in old \ {n}
  <2>1. i \in 1..n /\ g[After(i, n)] \notin near[g[i]]
    BY <1>8 DEF Gaps
  <2>2. f \in [1..n -> S]
    BY DEF Arrangement
  <2>3. i # k
    <3> SUFFICES ASSUME i = k PROVE FALSE
      OBVIOUS
    <3>1. After(k, n) = k + 1 /\ k + 1 \in 1..n /\ k \in 1..n
      BY DEF After
    <3>2. r[k + 1] = n /\ r[k] = k
      BY <1>2, <3>1
    <3>3. g[k + 1] = f[n] /\ g[k] = f[k]
      BY <1>3, <3>1, <3>2
    <3>4. f[n] \in near[f[k]]
      BY <1>7, <2>2, <3>1
    <3> QED
      BY <2>1, <3>1, <3>3, <3>4
  <2>4. i # n
    <3> SUFFICES ASSUME i = n PROVE FALSE
      OBVIOUS
    <3>1. After(n, n) = 1 /\ 1 \in 1..n /\ n \in 1..n /\ k + 1 \in 1..n
      BY DEF After
    <3>2. r[1] = 1 /\ r[n] = k + 1
      BY <1>2, <3>1
    <3>3. g[1] = f[1] /\ g[n] = f[k + 1]
      BY <1>3, <3>1, <3>2
    <3>4. f[1] \in near[f[k + 1]]
      BY <1>7, <2>2, <3>1
    <3> QED
      BY <2>1, <3>1, <3>3, <3>4
  <2>5. CASE i < k
    <3>1. After(i, n) = i + 1 /\ i + 1 \in 1..n /\ r[i] = i /\ r[i + 1] = i + 1 /\ i # n
      BY <1>2, <2>1, <2>5 DEF After
    <3>2. f[After(i, n)] \notin near[f[i]]
      BY <1>3, <2>1, <3>1
    <3>3. i \in old
      BY <2>1, <3>2 DEF Gaps
    <3> QED
      BY <2>1, <2>3, <2>4, <2>5, <3>3
  <2>6. CASE i > k
    <3> DEFINE j == n + k - i
    <3>1. After(i, n) = i + 1 /\ i + 1 \in 1..n /\ r[i] = j + 1 /\ r[i + 1] = j
          /\ j \in 1..n /\ j + 1 \in 1..n /\ j # n /\ After(j, n) = j + 1
      <4>1. i \in 1..n /\ i + 1 \in 1..n /\ ~(i <= k) /\ ~(i + 1 <= k) /\ After(i, n) = i + 1
        BY <2>1, <2>4, <2>6 DEF After
      <4>2. r[i] = n + k + 1 - i /\ r[i + 1] = n + k + 1 - (i + 1)
        BY <1>2, <4>1
      <4>3. j \in 1..n /\ j + 1 \in 1..n /\ j # n /\ n + k + 1 - i = j + 1
            /\ n + k + 1 - (i + 1) = j
        BY <4>1
      <4> QED
        BY <4>1, <4>2, <4>3 DEF After
    <3> HIDE DEF j
    <3>2. f[j] \notin near[f[j + 1]]
      BY <1>3, <2>1, <3>1
    <3>3. f[j + 1] \notin near[f[j]]
      BY <1>7, <2>2, <3>1, <3>2
    <3>4. j \in old
      BY <3>1, <3>3 DEF Gaps
    <3>5. ~(i < k)
      BY <2>1, <2>6
    <3> QED
      BY <2>1, <2>3, <2>4, <3>1, <3>4, <3>5 DEF j
  <2> QED
    BY <2>1, <2>3, <2>5, <2>6
<1>9. h \in [new -> old \ {n}] /\ (\A x, y \in new : h[x] = h[y] => x = y)
  <2>1. h \in [new -> old \ {n}]
    BY <1>8
  <2>2. \A x, y \in new : h[x] = h[y] => x = y
    <3> TAKE x, y \in new
    <3>1. x \in 1..n /\ x # k /\ x # n /\ y \in 1..n /\ y # k /\ y # n
      BY <1>8
    <3>2. h[x] = (IF x < k THEN x ELSE n + k - x) /\ h[y] = (IF y < k THEN y ELSE n + k - y)
      OBVIOUS
    <3> HIDE DEF h, new
    <3> QED
      BY <3>1, <3>2
  <2> QED
    BY <2>1, <2>2
<1> HIDE DEF h
<1>10. Cardinality(new) \in Nat /\ Cardinality(new) <= Cardinality(old \ {n})
  <2> HIDE DEF new, old
  <2> QED
    BY <1>1, <1>9, NoMoreThan
<1>11. Cardinality(new) < Cardinality(old)
  <2>1. Cardinality(old \ {n}) \in Nat /\ Cardinality(old) \in Nat
    <3>1. IsFiniteSet(old)
      <4>1. IsFiniteSet(1..n)
        BY FS_Interval
      <4>2. old \in SUBSET (1..n)
        BY DEF Gaps
      <4> QED
        BY <4>1, <4>2, FS_Subset
    <3> QED
      BY <1>1, <3>1, FS_CardinalityType
  <2> HIDE DEF new, old
  <2> QED
    BY <1>1, <1>10, <2>1
<1> QED
  BY <1>6, <1>11

\* When the first node and the last, which are not near, are near to as many nodes
\* together as there are, the gap between them can be mended.
LEMMA GapIsMended ==
    ASSUME NEW S, IsFiniteSet(S), NEW n \in Nat, n >= 2, NEW f, Arrangement(f, S, n),
           NEW near, Mutual(near, S), n \in Gaps(f, near, n),
           Cardinality(near[f[1]]) + Cardinality(near[f[n]]) >= n
    PROVE  \E k \in 1..(n - 1) : f[k] \in near[f[n]] /\ f[k + 1] \in near[f[1]]
<1> DEFINE u == f[1]
           v == f[n]
           A == {i \in 1..(n - 1) : f[i + 1] \in near[u]}
           B == {i \in 1..(n - 1) : f[i] \in near[v]}
           place == [s \in S |-> CHOOSE i \in 1..n : f[i] = s]
<1>1. u \in S /\ v \in S /\ near[u] \in SUBSET S /\ near[v] \in SUBSET S /\ u \notin near[v]
      /\ u \notin near[u] /\ v \notin near[v] /\ v \notin near[u]
  <2>1. 1 \in 1..n /\ n \in 1..n /\ After(n, n) = 1
    BY DEF After
  <2>2. u \in S /\ v \in S /\ u \notin near[v]
    BY <2>1 DEF Arrangement, Gaps
  <2> HIDE DEF u, v
  <2> QED
    BY <2>2 DEF Mutual
<1>2. \A s \in S : place[s] \in 1..n /\ f[place[s]] = s
  <2> TAKE s \in S
  <2>1. \E i \in 1..n : f[i] = s
    BY DEF Arrangement
  <2>2. place[s] = CHOOSE i \in 1..n : f[i] = s
    OBVIOUS
  <2> QED
    BY <2>1, <2>2, Zenon
<1> HIDE DEF place
<1>3. IsFiniteSet(1..(n - 1)) /\ Cardinality(1..(n - 1)) = n - 1
  <2>1. ~(1 > n - 1) /\ n - 1 \in Int /\ 1 \in Int /\ (n - 1) - 1 + 1 = n - 1
    OBVIOUS
  <2> QED
    BY <2>1, FS_Interval
<1>4. IsFiniteSet(A) /\ IsFiniteSet(B) /\ Cardinality(A) \in Nat /\ Cardinality(B) \in Nat
  <2>1. A \in SUBSET (1..(n - 1)) /\ B \in SUBSET (1..(n - 1))
    OBVIOUS
  <2> HIDE DEF A, B
  <2> QED
    BY <1>3, <2>1, FS_Subset, FS_CardinalityType
<1>5. Cardinality(near[u]) \in Nat /\ Cardinality(near[u]) <= Cardinality(A)
  <2> DEFINE h == [s \in near[u] |-> place[s] - 1]
             N == near[u]
  <2>1. ASSUME NEW s \in N PROVE place[s] - 1 \in A /\ place[s] \in 1..n /\ f[place[s]] = s
    <3>1. s \in S /\ place[s] \in 1..n /\ f[place[s]] = s
      BY <1>1, <1>2
    <3>2. place[s] # 1
      BY <1>1, <3>1
    <3>3. place[s] - 1 \in 1..(n - 1) /\ (place[s] - 1) + 1 = place[s]
      BY <3>1, <3>2
    <3> QED
      BY <3>1, <3>3
  <2>2. h \in [N -> A]
    BY <2>1
  <2>3. \A x, y \in N : h[x] = h[y] => x = y
    <3> TAKE x, y \in N
    <3>1. h[x] = place[x] - 1 /\ h[y] = place[y] - 1
      OBVIOUS
    <3> HIDE DEF h, N, A
    <3>2. h[x] = h[y] => place[x] = place[y]
      BY <2>1, <3>1
    <3> QED
      BY <2>1, <3>2
  <2> HIDE DEF h, A, N
  <2>4. Cardinality(N) \in Nat /\ Cardinality(N) <= Cardinality(A)
    BY <1>4, <2>2, <2>3, NoMoreThan
  <2> QED
    BY <2>4 DEF N
<1>6. Cardinality(near[v]) \in Nat /\ Cardinality(near[v]) <= Cardinality(B)
  <2> DEFINE h == [s \in near[v] |-> place[s]]
             N == near[v]
  <2>1. ASSUME NEW s \in N PROVE place[s] \in B /\ f[place[s]] = s
    <3>1. s \in S /\ place[s] \in 1..n /\ f[place[s]] = s
      BY <1>1, <1>2
    <3>2. place[s] # n
      BY <1>1, <3>1
    <3>3. place[s] \in 1..(n - 1)
      BY <3>1, <3>2
    <3> QED
      BY <3>1, <3>3
  <2>2. h \in [N -> B]
    BY <2>1
  <2>3. \A x, y \in N : h[x] = h[y] => x = y
    <3> TAKE x, y \in N
    <3>1. h[x] = place[x] /\ h[y] = place[y]
      OBVIOUS
    <3> HIDE DEF h, N, B
    <3> QED
      BY <2>1, <3>1
  <2> HIDE DEF h, B, N
  <2>4. Cardinality(N) \in Nat /\ Cardinality(N) <= Cardinality(B)
    BY <1>4, <2>2, <2>3, NoMoreThan
  <2> QED
    BY <2>4 DEF N
<1>7. A \cap B # {}
  <2> SUFFICES ASSUME A \cap B = {} PROVE FALSE
    OBVIOUS
  <2>1. A \cup B \in SUBSET (1..(n - 1))
    OBVIOUS
  <2> HIDE DEF A, B
  <2>2. Cardinality(A \cup B) = Cardinality(A) + Cardinality(B)
    <3>1. Cardinality(A \cap B) = 0
      BY FS_EmptySet
    <3>2. Cardinality(A \cup B) = Cardinality(A) + Cardinality(B) - Cardinality(A \cap B)
      BY <1>4, FS_Union
    <3> QED
      BY <1>4, <3>1, <3>2
  <2>3. Cardinality(A \cup B) <= n - 1
    BY <1>3, <2>1, FS_Subset
  <2>4. Cardinality(near[u]) + Cardinality(near[v]) >= n
    OBVIOUS
  <2> HIDE DEF u, v
  <2> QED
    BY <1>4, <1>5, <1>6, <2>2, <2>3, <2>4
<1> QED
  BY <1>7

\* Ore's theorem.
LEMMA OresTheorem ==
    ASSUME NEW S, IsFiniteSet(S), NEW n, n = Cardinality(S), n >= 2,
           NEW near, Mutual(near, S),
           \A u, v \in S : u # v /\ v \notin near[u]
               => Cardinality(near[u]) + Cardinality(near[v]) >= n
    PROVE  \E f : Arrangement(f, S, n) /\ Gaps(f, near, n) = {}
<1> DEFINE T == {m \in Nat : \E f : Arrangement(f, S, n) /\ Cardinality(Gaps(f, near, n)) = m}
<1>1. n \in Nat
  BY FS_CardinalityType
<1>2. \A f : IsFiniteSet(Gaps(f, near, n)) /\ Cardinality(Gaps(f, near, n)) \in Nat
  <2> TAKE f
  <2>1. IsFiniteSet(1..n) /\ Gaps(f, near, n) \in SUBSET (1..n)
    BY <1>1, FS_Interval DEF Gaps
  <2> QED
    BY <2>1, FS_Subset, FS_CardinalityType
<1>3. \E f : Arrangement(f, S, n)
  <2>1. PICK m \in Nat : ExistsBijection(1..m, S)
    BY FS_NatBijection
  <2>2. m = n
    BY <2>1, FS_CountingElements
  <2>3. PICK f : f \in Bijection(1..n, S)
    BY <2>1, <2>2 DEF ExistsBijection
  <2> QED
    BY <2>3 DEF Bijection, Injection, Surjection, IsInjective, Arrangement
<1>4. T \in SUBSET Nat /\ T # {}
  BY <1>2, <1>3
<1>5. PICK m \in T : \A k \in T : m <= k
  <2> HIDE DEF T
  <2> QED
    BY <1>4, LeastNat
<1>6. PICK f : Arrangement(f, S, n) /\ Cardinality(Gaps(f, near, n)) = m
  BY <1>5
<1>7. ASSUME NEW g, Arrangement(g, S, n), Cardinality(Gaps(g, near, n)) < m PROVE FALSE
  <2>1. Cardinality(Gaps(g, near, n)) \in T /\ m \in Nat
    BY <1>2, <1>5, <1>7
  <2> HIDE DEF T
  <2> QED
    BY <1>2, <1>5, <1>7, <2>1
<1>8. ASSUME NEW k \in Gaps(f, near, n) PROVE FALSE
  <2>1. PICK g : /\ Arrangement(g, S, n) /\ n \in Gaps(g, near, n)
                 /\ Cardinality(Gaps(g, near, n)) <= Cardinality(Gaps(f, near, n))
    BY <1>1, <1>6, <1>8, Turned
  <2>2. Cardinality(near[g[1]]) + Cardinality(near[g[n]]) >= n
    <3>1. 1 \in 1..n /\ n \in 1..n /\ 1 # n /\ After(n, n) = 1
      BY <1>1 DEF After
    <3>2. g[1] \in S /\ g[n] \in S /\ g[1] # g[n] /\ g[1] \notin near[g[n]]
      BY <2>1, <3>1 DEF Arrangement, Gaps
    <3>3. g[n] \notin near[g[1]]
      BY <3>2 DEF Mutual
    <3> QED
      BY <3>2, <3>3
  <2>3. PICK i \in 1..(n - 1) : g[i] \in near[g[n]] /\ g[i + 1] \in near[g[1]]
    BY <1>1, <2>1, <2>2, GapIsMended
  <2>4. PICK h : Arrangement(h, S, n) /\ Cardinality(Gaps(h, near, n)) < Cardinality(Gaps(g, near, n))
    BY <1>1, <2>1, <2>3, Mended
  <2>5. Cardinality(Gaps(h, near, n)) < m
    BY <1>2, <1>6, <2>1, <2>4
  <2> QED
    BY <1>7, <2>4, <2>5
<1> QED
  BY <1>6, <1>8

-----------------------------------------------------------------------------
\* The search works on the graph the handler took.
OnGraph ==
    /\ graph = None => bfStage = "idle" /\ ffStage = "idle" /\ kmStage = "idle"
    /\ kmStage = "idle" => ~feasible
    /\ kmStage # "idle" => graph # None /\ IsGraph(graph)
    /\ kmStage \in {"search", "done"} => centers = getActiveNodes(graph, "center")
    /\ kmStage \in {"search", "done"} /\ Cardinality(centers) > 1 =>
          adj = [n \in Ids |-> Neighbours(graph, n)]

LEMMA OnGraphStarts == Init => OnGraph
BY Zenon DEF Init, BFInit, FFInit, KMInit, OnGraph

LEMMA OnGraphSteps ==
    ASSUME OnGraph, [Next]_vars
    PROVE  OnGraph'
<1>1. CASE UNCHANGED vars
  BY <1>1 DEF vars, bfVars, ffVars, kmVars, OnGraph
<1>2. ASSUME NEW r \in MarketRequests, MarketsPath(r)
      PROVE  OnGraph'
  <2>1. graph' # None /\ UNCHANGED kmVars /\ kmStage = "idle"
    BY <1>2, RoutingAssumption DEF MarketsPath, OnGraph
  <2> QED
    BY <2>1 DEF kmVars, OnGraph
<1>3. ASSUME NEW r \in FlowRequests, FulfillmentFlow(r)
      PROVE  OnGraph'
  <2>1. graph' # None /\ UNCHANGED kmVars /\ kmStage = "idle"
    BY <1>3, RoutingAssumption DEF FulfillmentFlow, OnGraph
  <2> QED
    BY <2>1 DEF kmVars, OnGraph
<1>4. ASSUME NEW g \in CircuitGraphs, FulfillmentCircuit(g)
      PROVE  OnGraph'
  <2>1. graph' = g /\ g # None /\ IsGraph(g) /\ (KMError(g) \/ KMSingle(g) \/ KMStart(g))
    BY <1>4, RoutingAssumption DEF FulfillmentCircuit
  <2>2. IsGraph(graph')
    BY <2>1
  <2>3. CASE KMError(g)
    BY <2>1, <2>2, <2>3 DEF KMError, OnGraph
  <2>4. CASE KMSingle(g)
    BY <2>1, <2>2, <2>4 DEF KMSingle, OnGraph
  <2>5. CASE KMStart(g)
    BY <2>1, <2>2, <2>5 DEF KMStart, OnGraph
  <2> QED
    BY <2>1, <2>3, <2>4, <2>5
<1>5. CASE BellmanFordStep
  <2>1. UNCHANGED <<graph, kmVars, ffVars>> /\ bfStage # "idle"
    BY <1>5 DEF BellmanFordStep, BFStep, BFRelax, BFEndPass, BFDetect, BFEndDetect
  <2> QED
    BY <2>1 DEF kmVars, ffVars, OnGraph
<1>6. CASE FordFulkersonStep
  <2>1. UNCHANGED <<graph, kmVars, bfVars>> /\ ffStage # "idle"
    BY <1>6 DEF FordFulkersonStep, FFStep, AddEdge, FirstSearch, Visit, Dequeue, NoPath, Augment
  <2> QED
    BY <2>1 DEF kmVars, bfVars, OnGraph
<1>7. CASE KaufmannMalgrangeStep
  <2>1. UNCHANGED <<graph, centers, adj, bfVars, ffVars>> /\ kmStage = "search"
        /\ kmStage' \in {"search", "done"}
    BY <1>7 DEF KaufmannMalgrangeStep, KMStep, Begin, Extend, CloseCircuit, Backtrack, GiveUp
  <2> QED
    BY <2>1 DEF bfVars, ffVars, OnGraph
<1> QED
  BY <1>1, <1>2, <1>3, <1>4, <1>5, <1>6, <1>7 DEF Next

-----------------------------------------------------------------------------
RoutingInv == BFInv /\ ShortestInv /\ FFInv /\ FlowInv /\ KMInv /\ NothingMissed /\ OnGraph

LEMMA RoutingInitial == Init => RoutingInv
BY BFInitial, ShortestStart, FFInitial, FlowInitial, KMInitial, OnGraphStarts
  DEF Init, RoutingInv, KMInit, NothingMissed

LEMMA RoutingStep ==
    ASSUME RoutingInv, [Next]_vars
    PROVE  RoutingInv'
<1>0. OnGraph'
  BY OnGraphSteps DEF RoutingInv
<1>1. CASE UNCHANGED vars
  BY <1>0, <1>1, BFStutters, ShortestStutters, FFStutters, FlowStutters, KMStutters, KMStuttersMisses DEF vars, RoutingInv
<1>2. ASSUME NEW r \in MarketRequests, MarketsPath(r)
      PROVE  RoutingInv'
  <2>1. IsGraph(r.graph) /\ r.source \in Ids
    BY RoutingAssumption
  <2> QED
    BY <1>0, <1>2, <2>1, BFRefuses, BFBegins, ShortestRefuses, ShortestBegins, FFStutters, FlowStutters, KMStutters, KMStuttersMisses
      DEF MarketsPath, RoutingInv
<1>3. ASSUME NEW r \in FlowRequests, FulfillmentFlow(r)
      PROVE  RoutingInv'
  <2>1. IsGraph(r.graph) /\ r.source \in Ids /\ r.sink \in Ids
    BY RoutingAssumption
  <2> QED
    BY <1>0, <1>3, <2>1, FFRefuses, FFBegins, FlowBegins, BFStutters, ShortestStutters, KMStutters, KMStuttersMisses
      DEF FulfillmentFlow, RoutingInv
<1>4. ASSUME NEW g \in CircuitGraphs, FulfillmentCircuit(g)
      PROVE  RoutingInv'
  <2>1. IsGraph(g)
    BY RoutingAssumption
  <2> QED
    BY <1>0, <1>4, <2>1, KMBegins, KMStartMisses, BFStutters, ShortestStutters, FFStutters, FlowStutters
      DEF FulfillmentCircuit, RoutingInv
<1>5. CASE BellmanFordStep
  <2>1. BFInv'
    BY <1>5, BFRelaxes, BFEndsPass, BFDetects DEF BellmanFordStep, BFStep, RoutingInv
  <2>2. ShortestInv'
    BY <1>5, ShortestRelaxes, ShortestEndsPass, ShortestDetects DEF BellmanFordStep, BFStep, RoutingInv
  <2> QED
    BY <1>0, <1>5, <2>1, <2>2, FFStutters, FlowStutters, KMStutters, KMStuttersMisses
      DEF BellmanFordStep, RoutingInv
<1>6. CASE FordFulkersonStep
  BY <1>0, <1>6, FFSteps, FlowSteps, BFStutters, ShortestStutters, KMStutters, KMStuttersMisses
      DEF FordFulkersonStep, RoutingInv
<1>7. CASE KaufmannMalgrangeStep
  BY <1>0, <1>7, KMSteps, KMStepMisses, BFStutters, ShortestStutters, FFStutters, FlowStutters
     DEF KaufmannMalgrangeStep, RoutingInv
<1> QED
  BY <1>1, <1>2, <1>3, <1>4, <1>5, <1>6, <1>7 DEF Next

LEMMA RoutingInvariant == Spec => []RoutingInv
BY RoutingInitial, RoutingStep, PTL DEF Spec

\* The residuals never get below zero and a pass is never past the last.
THEOREM TypeCorrect == Spec => []TypeOK
<1>1. RoutingInv => TypeOK
  <2>1. BFTyping => (bfStage \in {"relax", "detect"} => pass \in 1..market.size)
    BY DEF BFTyping
  <2> QED
    BY <2>1 DEF RoutingInv, BFInv, BFTyping, FFInv, FFTyping, KMInv, KMTyping, TypeOK
<1> QED
  BY <1>1, RoutingInvariant, PTL

\* BellmanFord::compute: an answer leaves no edge that shortens a way and lies above
\* every bound that agrees with the edges, whatever their order.
THEOREM DistancesCorrect == Spec => []DistancesAreOptimal
<1>1. RoutingInv => DistancesAreOptimal
  BY DEF RoutingInv, BFInv, Settled, AboveBounds, Running, Answered, DistancesAreOptimal
<1> QED
  BY <1>1, RoutingInvariant, PTL

\* BellmanFord::compute: the distances answered are the costs of the cheapest routes, on
\* any graph and in any order of the edges; what has none is left out; the predecessors
\* account for the distances; hasNegativeCycle tells whether a negative circle can be
\* reached (bellman_ford.hpp:43).
THEOREM DistancesShortest == Spec => []DistancesAreShortest
<1>1. RoutingInv => DistancesAreShortest
  BY ShortestAnswer DEF RoutingInv
<1> QED
  BY <1>1, RoutingInvariant, PTL

\* FordFulkerson::compute: no augmentation overdraws an edge, in either direction.
THEOREM CapacityKept == Spec => []FlowWithinCapacity
<1>1. RoutingInv => FlowWithinCapacity
  <2> SUFFICES ASSUME RoutingInv, NEW u \in Ids, NEW v \in Ids
               PROVE  Flow(u, v) <= original[<<u, v>>] /\ -original[<<v, u>>] <= Flow(u, v)
    BY DEF FlowWithinCapacity
  <2>1. <<u, v>> \in Pairs /\ <<v, u>> \in Pairs
    BY DEF Pairs
  <2>2. /\ residual[<<u, v>>] \in Nat /\ residual[<<v, u>>] \in Nat
        /\ original[<<u, v>>] \in Nat /\ original[<<v, u>>] \in Nat
    BY <2>1 DEF RoutingInv, FFInv, FFTyping
  <2>3. residual[<<u, v>>] + residual[<<v, u>>] = original[<<u, v>>] + original[<<v, u>>]
    BY DEF RoutingInv, FFInv, Balanced
  <2> QED
    BY <2>2, <2>3 DEF Flow
<1> QED
  BY <1>1, RoutingInvariant, PTL

\* FordFulkerson::bfs: it gives up only when a cut without capacity separates the sink.
THEOREM CutFound == Spec => []CutIsSaturated
<1>1. RoutingInv => CutIsSaturated
  <2> SUFFICES ASSUME RoutingInv, ffStage = "done"
               PROVE  /\ ~Visited(sinkId)
                      /\ \A u, v \in Ids : Visited(u) /\ ~Visited(v) => residual[<<u, v>>] = 0
    BY DEF CutIsSaturated
  <2>1. \A n : ~Queued(n)
    BY DEF RoutingInv, FFInv, Queued
  <2> QED
    BY <2>1 DEF RoutingInv, FFInv, Searched
<1> QED
  BY <1>1, RoutingInvariant, PTL

\* FordFulkerson::compute: what is answered is the least capacity of a cut between
\* source and sink, and the matrix is a flow of this value.  However the paths are
\* chosen, each augmentation adds to the flow what it adds to the value.
THEOREM FlowMaximal == Spec => []FlowIsMaximal
<1>1. RoutingInv => FlowIsMaximal
  BY FlowIsCut DEF RoutingInv
<1> QED
  BY <1>1, RoutingInvariant, PTL

\* KaufmannMalgrange::compute: what is answered as a circuit is one, whichever way the
\* search took and however often it went back.
THEOREM CircuitCorrect == Spec => []CircuitIsHamiltonian
<1>1. RoutingInv => CircuitIsHamiltonian
  BY DEF RoutingInv, KMInv
<1> QED
  BY <1>1, RoutingInvariant, PTL

LEMMA FoundIfThere ==
    ASSUME RoutingInv
    PROVE  CircuitIsFound
<1> SUFFICES ASSUME kmStage = "done", Cardinality(centers) > 1
             PROVE  feasible = HasCircuit
  BY DEF CircuitIsFound
<1>1. feasible => HasCircuit
  BY PathIsCircuit DEF RoutingInv
<1>2. feasible \/ ~HasCircuit
  BY DEF RoutingInv, NothingMissed
<1>3. feasible \in BOOLEAN /\ HasCircuit \in BOOLEAN
  BY DEF HasCircuit, RoutingInv, KMInv, KMTyping
<1> QED
  BY <1>1, <1>2, <1>3

\* KaufmannMalgrange::hamiltonian: a circuit is found if the graph has one, whichever
\* way the search takes; backtracking gives up no order of the centers unseen.
THEOREM CircuitComplete == Spec => []CircuitIsFound
BY FoundIfThere, RoutingInvariant, PTL

LEMMA GuaranteeHolds ==
    ASSUME RoutingInv
    PROVE  OreGuaranteesWhenSymmetric
<1> SUFFICES ASSUME kmStage = "done", Symmetric(graph), Loopless(graph), OresTheoremHolds(graph)
             PROVE  feasible
  BY DEF OreGuaranteesWhenSymmetric
<1> DEFINE S == getActiveNodes(graph, "center")
           n == Cardinality(S)
           near == [x \in S |-> Neighbours(graph, x)]
<1>1. IsGraph(graph) /\ centers = S /\ n \in Nat /\ n >= 3 /\ S \subseteq Ids /\ IsFiniteSet(S)
  <2>1. IsGraph(graph) /\ centers = S
    BY DEF OnGraph, RoutingInv
  <2>2. S \subseteq Ids /\ n \in Nat
    BY <2>1, NodesOfGraph
  <2>3. IsFiniteSet(S)
    BY <2>2, IdsAssumption, FS_Subset
  <2> QED
    BY <2>1, <2>2, <2>3 DEF OresTheoremHolds
<1>2. adj = [x \in Ids |-> Neighbours(graph, x)]
  BY <1>1 DEF OnGraph, RoutingInv
<1>3. \A x, y : x \in Neighbours(graph, y) => x \in S /\ y \in S /\ x # y /\ y \in Neighbours(graph, x)
  <2> TAKE x, y
  <2> HAVE x \in Neighbours(graph, y)
  <2>1. PICK e \in getEdges(graph, "center") : e.from = y /\ e.to = x
    BY DEF Neighbours
  <2>2. e \in graph.edges /\ {e.from, e.to} \subseteq S
    BY <2>1 DEF getEdges
  <2>3. PICK t \in graph.edges : t.from = x /\ t.to = y
    BY <2>1, <2>2 DEF Symmetric
  <2>4. t \in getEdges(graph, "center")
    BY <2>1, <2>2, <2>3 DEF getEdges
  <2>5. y \in Neighbours(graph, x)
    BY <2>3, <2>4 DEF Neighbours
  <2>6. x # y
    BY <2>1, <2>2 DEF Loopless
  <2> QED
    BY <2>1, <2>2, <2>5, <2>6
<1>4. Mutual(near, S)
  BY <1>3 DEF Mutual
<1>5. \A x \in S : UndirectedNeighbours(graph, x) = near[x] /\ Degree(graph, x) = Cardinality(near[x])
  <2> TAKE x \in S
  <2>1. UndirectedNeighbours(graph, x) = Neighbours(graph, x)
    BY <1>3 DEF UndirectedNeighbours
  <2>2. x \notin Neighbours(graph, x)
    BY <1>3
  <2>3. IsFiniteSet(Neighbours(graph, x))
    <3>1. Neighbours(graph, x) \in SUBSET S
      BY <1>3
    <3> QED
      BY <1>1, <3>1, FS_Subset
  <2>4. Cardinality(Neighbours(graph, x)) \in Nat
    BY <2>3, FS_CardinalityType
  <2>5. Degree(graph, x) = Cardinality(Neighbours(graph, x))
    BY <2>1, <2>2, <2>4 DEF Degree
  <2> QED
    BY <2>1, <2>5
<1>6. \A u, v \in S : u # v /\ v \notin near[u] => Cardinality(near[u]) + Cardinality(near[v]) >= n
  BY <1>5 DEF OresTheoremHolds
<1>7. \A x \in S : near[x] = adj[x]
  BY <1>1, <1>2
<1> HIDE DEF near, S
<1>8. PICK f : Arrangement(f, S, n) /\ Gaps(f, near, n) = {}
  BY <1>1, <1>4, <1>6, OresTheorem
<1>9. f \in [1..n -> centers] /\ \A i, j \in 1..n : f[i] = f[j] => i = j
  BY <1>1, <1>8 DEF Arrangement
<1>10. ASSUME NEW i \in 1..n PROVE f[(i % n) + 1] \in adj[f[i]]
  <2>1. (i % n) + 1 = After(i, n)
    <3> HIDE DEF n
    <3>1. CASE i = n
      BY <1>1, <3>1 DEF After
    <3>2. CASE i # n
      BY <1>1, <3>2 DEF After
    <3> QED
      BY <3>1, <3>2
  <2>2. f[After(i, n)] \in near[f[i]]
    BY <1>8 DEF Gaps
  <2>3. f[i] \in S
    BY <1>8 DEF Arrangement
  <2> QED
    BY <1>7, <2>1, <2>2, <2>3
<1>11. HasCircuit
  <2>1. n = Cardinality(centers) /\ DOMAIN f = 1..n
    BY <1>1, <1>9
  <2>2. IsCircuit(f)
    BY <1>9, <1>10, <2>1 DEF IsCircuit
  <2> QED
    BY <1>9, <2>1, <2>2 DEF HasCircuit
<1>12. feasible = HasCircuit
  BY <1>1, FoundIfThere DEF CircuitIsFound
<1> QED
  BY <1>11, <1>12

\* KaufmannMalgrange::compute: the message of Ore's pre-check
\* (kaufmann_malgrange.cpp:90) is true of any graph whose edges all lead both ways and
\* none of which is a loop.
THEOREM GuaranteeWhenSymmetric == Spec => []OreGuaranteesWhenSymmetric
BY GuaranteeHolds, RoutingInvariant, PTL

-----------------------------------------------------------------------------
(* Every call ends.  A step lowers a tuple of numbers, which cannot go on  *)
(* for ever; that there is a step until the end, and that the thread takes *)
(* it, is what TLC checks in CallEnds.                                     *)

\* A graph has finitely many edges, and so have the lists made of them.
FiniteWork ==
    /\ IsFiniteSet(market.edges) /\ todo \subseteq market.edges
    /\ IsFiniteSet(unread)

LEMMA EdgesAreFinite ==
    ASSUME NEW g, IsGraph(g), NEW kind
    PROVE  IsFiniteSet(getEdges(g, kind))
<1>1. IsFiniteSet(g.edges) /\ getEdges(g, kind) \subseteq g.edges
  BY DEF IsGraph, getEdges
<1> QED
  BY <1>1, FS_Subset

LEMMA FiniteWorkStarts == Init => FiniteWork
<1>1. Init => market.edges = {} /\ todo = {} /\ unread = {}
  BY DEF Init, BFInit, FFInit
<1> QED
  BY <1>1, FS_EmptySet DEF FiniteWork

LEMMA FiniteWorkSteps ==
    ASSUME FiniteWork, [Next]_vars
    PROVE  FiniteWork'
<1>1. CASE UNCHANGED vars
  BY <1>1 DEF vars, bfVars, ffVars, FiniteWork
<1>2. ASSUME NEW r \in MarketRequests, MarketsPath(r)
      PROVE  FiniteWork'
  <2>1. IsFiniteSet(getEdges(r.graph, "market"))
    BY RoutingAssumption, EdgesAreFinite
  <2>2. UNCHANGED unread
    BY <1>2 DEF MarketsPath, ffVars
  <2>3. CASE BFRefuse(r.graph, r.source)
    BY <2>2, <2>3 DEF BFRefuse, FiniteWork
  <2>4. CASE BFStart(r.graph, r.source)
    <3>1. market'.edges = getEdges(r.graph, "market") /\ todo' = getEdges(r.graph, "market")
      BY <2>4 DEF BFStart
    <3> QED
      BY <2>1, <2>2, <3>1 DEF FiniteWork
  <2> QED
    BY <1>2, <2>3, <2>4 DEF MarketsPath
<1>3. ASSUME NEW r \in FlowRequests, FulfillmentFlow(r)
      PROVE  FiniteWork'
  <2>1. IsFiniteSet(getEdges(r.graph, "center"))
    BY RoutingAssumption, EdgesAreFinite
  <2>2. UNCHANGED <<market, todo>>
    BY <1>3 DEF FulfillmentFlow, bfVars
  <2>3. unread' = unread \/ unread' = getEdges(r.graph, "center")
    BY <1>3 DEF FulfillmentFlow, FFRefuse, FFStart
  <2> QED
    BY <2>1, <2>2, <2>3 DEF FiniteWork
<1>4. ASSUME NEW g \in CircuitGraphs, FulfillmentCircuit(g)
      PROVE  FiniteWork'
  BY <1>4 DEF FulfillmentCircuit, bfVars, ffVars, FiniteWork
<1>5. CASE BellmanFordStep
  <2>1. UNCHANGED <<market, unread>>
    BY <1>5 DEF BellmanFordStep, BFStep, BFRelax, BFDetect, BFEndPass, BFEndDetect, ffVars
  <2>2. todo' \subseteq todo \cup market.edges
    BY <1>5 DEF BellmanFordStep, BFStep, BFRelax, BFDetect, BFEndPass, BFEndDetect
  <2> QED
    BY <2>1, <2>2 DEF FiniteWork
<1>6. CASE FordFulkersonStep
  <2>1. UNCHANGED <<market, todo>>
    BY <1>6 DEF FordFulkersonStep, bfVars
  <2>2. unread' \subseteq unread
    BY <1>6 DEF FordFulkersonStep, FFStep, AddEdge, FirstSearch, Visit, Dequeue, NoPath, Augment
  <2> QED
    BY <2>1, <2>2, FS_Subset DEF FiniteWork
<1>7. CASE KaufmannMalgrangeStep
  BY <1>7 DEF KaufmannMalgrangeStep, bfVars, ffVars, FiniteWork
<1> QED
  BY <1>1, <1>2, <1>3, <1>4, <1>5, <1>6, <1>7 DEF Next

\* What a set loses it has less of.
LEMMA OneLess ==
    ASSUME NEW S, IsFiniteSet(S), NEW T \in SUBSET S, NEW x \in S, x \notin T
    PROVE  IsFiniteSet(T) /\ Cardinality(T) \in Nat /\ Cardinality(S) \in Nat
           /\ Cardinality(T) < Cardinality(S)
<1>1. IsFiniteSet(T) /\ Cardinality(T) <= Cardinality(S)
      /\ (Cardinality(S) = Cardinality(T) => S = T)
  BY FS_Subset
<1>2. Cardinality(T) \in Nat /\ Cardinality(S) \in Nat
  BY <1>1, FS_CardinalityType
<1> QED
  BY <1>1, <1>2

\* From some place on, the entries below m do not change.
Steady(f, D, m, n) == \A i \in Nat : i >= n => \A k \in D : k < m => f[i][k] = f[n][k]

\* No sequence of tuples of the same length goes on counting down.
LEMMA NoEndlessDescent ==
    ASSUME NEW top \in Nat, NEW D \in SUBSET (0..top), NEW f,
           \A i \in Nat : DOMAIN f[i] = D /\ LowerThan(f[i + 1], f[i])
    PROVE  FALSE
<1>0. \A k \in D : k \in Nat
  OBVIOUS
<1>1. \A i \in Nat : \A k \in D : f[i + 1][k] \in Nat
  BY DEF LowerThan
<1>2. ASSUME NEW i \in Nat
      PROVE  \E k \in D : f[i + 1][k] < f[i][k] /\ \A j \in D : j < k => f[i + 1][j] = f[i][j]
  BY DEF LowerThan
<1>3. \A m \in Nat : \E n \in Nat : n > 0 /\ Steady(f, D, m, n)
  <2> DEFINE bad == {m \in Nat : ~\E n \in Nat : n > 0 /\ Steady(f, D, m, n)}
  <2> SUFFICES ASSUME bad # {} PROVE FALSE
    OBVIOUS
  <2>1. bad \in SUBSET Nat
    OBVIOUS
  <2>2. PICK m \in bad : \A k \in bad : m <= k
    BY <2>1, LeastNat
  <2>3. Steady(f, D, 0, 1)
    <3>1. \A k \in D : ~(k < 0)
      OBVIOUS
    <3> QED
      BY <3>1 DEF Steady
  <2>4. m \in Nat /\ m # 0 /\ m - 1 \in Nat /\ m - 1 \notin bad
    BY <2>2, <2>3
  <2>5. PICK n \in Nat : n > 0 /\ Steady(f, D, m - 1, n)
    BY <2>4
  <2>6. CASE m - 1 \notin D
    <3>1. \A k \in D : k < m => k < m - 1
      BY <2>4, <2>6
    <3>2. Steady(f, D, m, n)
      BY <2>5, <3>1 DEF Steady
    <3> QED
      BY <2>2, <2>5, <3>2
  <2>7. CASE m - 1 \in D
    <3> DEFINE v == [i \in Nat |-> f[i][m - 1]]
               values == {v[i] : i \in {i \in Nat : i >= n}}
    <3>1. \A i \in Nat : i > 0 => v[i] \in Nat
      <4> SUFFICES ASSUME NEW i \in Nat, i > 0 PROVE f[i][m - 1] \in Nat
        OBVIOUS
      <4>1. i - 1 \in Nat /\ (i - 1) + 1 = i
        OBVIOUS
      <4> QED
        BY <1>1, <2>7, <4>1
    <3>2. ASSUME NEW i \in Nat, i >= n PROVE v[i + 1] <= v[i]
      <4>1. PICK k \in D : f[i + 1][k] < f[i][k] /\ \A j \in D : j < k => f[i + 1][j] = f[i][j]
        BY <1>2
      <4>2. k < m - 1 => f[i + 1][k] = f[n][k] /\ f[i][k] = f[n][k]
        BY <2>5, <3>2 DEF Steady
      <4>3. f[i + 1][k] \in Nat
        BY <1>1
      <4>4. ~(k < m - 1)
        BY <4>1, <4>2, <4>3
      <4>5. k = m - 1 \/ m - 1 < k
        BY <1>0, <2>4, <4>4
      <4>6. v[i] \in Nat /\ v[i + 1] \in Nat
        BY <2>5, <3>1, <3>2
      <4>7. v[i + 1] = f[i + 1][m - 1] /\ v[i] = f[i][m - 1]
        OBVIOUS
      <4> HIDE DEF v
      <4> QED
        BY <2>7, <4>1, <4>5, <4>6, <4>7
    <3>3. values \in SUBSET Nat /\ values # {}
      BY <2>5, <3>1
    <3> HIDE DEF v
    <3>4. PICK least \in values : \A w \in values : least <= w
      BY <3>3, LeastNat
    <3>5. PICK p \in Nat : p >= n /\ least = v[p]
      BY <3>4
    <3>6. \A i \in Nat : i >= p => v[i] = least
      <4> DEFINE odd == {i \in Nat : i >= p /\ v[i] # least}
      <4> SUFFICES ASSUME odd # {} PROVE FALSE
        OBVIOUS
      <4>1. odd \in SUBSET Nat
        OBVIOUS
      <4>2. PICK i \in odd : \A j \in odd : i <= j
        BY <4>1, LeastNat
      <4>3. i - 1 \in Nat /\ i - 1 >= p /\ i - 1 >= n /\ (i - 1) + 1 = i /\ i - 1 \notin odd /\ i >= n
        BY <3>5, <4>2
      <4>4. v[i] <= v[i - 1] /\ v[i - 1] = least
        BY <3>2, <4>3
      <4>5. least <= v[i] /\ v[i] \in Nat /\ least \in Nat
        BY <3>3, <3>4, <4>3
      <4> QED
        BY <4>2, <4>4, <4>5
    <3>7. Steady(f, D, m, p)
      <4> SUFFICES ASSUME NEW i \in Nat, i >= p, NEW k \in D, k < m
                   PROVE  f[i][k] = f[p][k]
        BY DEF Steady
      <4>1. CASE k = m - 1
        BY <3>5, <3>6, <4>1 DEF v
      <4>2. CASE k < m - 1
        BY <2>5, <3>5, <4>2 DEF Steady
      <4> QED
        BY <1>0, <2>4, <4>1, <4>2
    <3> QED
      BY <2>2, <2>5, <3>5, <3>7
  <2> QED
    BY <2>6, <2>7
<1>4. PICK n \in Nat : n > 0 /\ Steady(f, D, top + 1, n)
  BY <1>3
<1>5. PICK k \in D : f[n + 1][k] < f[n][k]
  BY <1>2
<1>6. f[n + 1][k] = f[n][k]
  <2>1. k < top + 1 /\ n + 1 \in Nat /\ n + 1 >= n
    OBVIOUS
  <2> QED
    BY <1>4, <2>1 DEF Steady
<1> QED
  BY <1>1, <1>5, <1>6

LEMMA LowerPair ==
    ASSUME NEW a, NEW b, NEW c \in Nat, NEW d \in Nat, c < a \/ (c = a /\ d < b)
    PROVE  LowerThan(<<c, d>>, <<a, b>>)
<1>1. DOMAIN <<c, d>> = DOMAIN <<a, b>> /\ DOMAIN <<c, d>> = {1, 2}
  OBVIOUS
<1>2. <<c, d>>[1] = c /\ <<c, d>>[2] = d /\ <<a, b>>[1] = a /\ <<a, b>>[2] = b
  OBVIOUS
<1> QED
  BY <1>1, <1>2 DEF LowerThan

LEMMA BFCountsDown ==
    ASSUME BFInv, ShortestInv, FiniteWork, BFStep
    PROVE  LowerThan(BFLeft', BFLeft)
<1>1. market.size \in Nat /\ IsFiniteSet(todo) /\ Cardinality(todo) \in Nat
      /\ Cardinality(market.edges) \in Nat
  BY FS_Subset, FS_CardinalityType DEF FiniteWork, BFInv, BFTyping
<1>2. bfStage \in {"relax", "detect"} => pass \in 1..market.size
  BY DEF BFInv, BFTyping
<1>3. ASSUME NEW e \in todo, BFRelax(e) \/ BFDetect(e)
      PROVE  LowerThan(BFLeft', BFLeft)
  <2>1. todo' = todo \ {e} /\ UNCHANGED <<market, pass>>
        /\ bfStage \in {"relax", "detect"} /\ bfStage' \in {bfStage, "done"}
    BY <1>3 DEF BFRelax, BFDetect
  <2>2. Cardinality(todo') \in Nat /\ Cardinality(todo') < Cardinality(todo)
    BY <1>1, <2>1, OneLess
  <2> QED
    BY <1>1, <1>2, <2>1, <2>2, LowerPair DEF BFLeft
<1>4. CASE BFEndPass
  <2>1. bfStage = "relax" /\ todo = {} /\ UNCHANGED market
        /\ \/ bfStage' = "done" /\ UNCHANGED <<pass, todo>>
           \/ /\ bfStage' = IF pass < market.size - 1 THEN "relax" ELSE "detect"
              /\ pass' = pass + 1 /\ todo' = market.edges
    BY <1>4 DEF BFEndPass
  <2>2. Cardinality(todo') \in Nat
    BY <1>1, <2>1
  <2>3. pass < market.size
    BY <2>1 DEF BFInv, BFTyping
  <2> QED
    BY <1>1, <1>2, <2>1, <2>2, <2>3, LowerPair DEF BFLeft
<1>5. CASE BFEndDetect
  <2>1. bfStage = "detect" /\ bfStage' = "done" /\ UNCHANGED <<market, pass, todo>>
    BY <1>5 DEF BFEndDetect
  <2> QED
    BY <1>1, <1>2, <2>1, LowerPair DEF BFLeft
<1> QED
  BY <1>3, <1>4, <1>5 DEF BFStep

LEMMA LowerFive ==
    ASSUME NEW a1, NEW a2, NEW a3, NEW a4, NEW a5,
           NEW b1 \in Nat, NEW b2 \in Nat, NEW b3 \in Nat, NEW b4 \in Nat, NEW b5 \in Nat,
           \/ b1 < a1
           \/ b1 = a1 /\ b2 < a2
           \/ b1 = a1 /\ b2 = a2 /\ b3 < a3
           \/ b1 = a1 /\ b2 = a2 /\ b3 = a3 /\ b4 < a4
           \/ b1 = a1 /\ b2 = a2 /\ b3 = a3 /\ b4 = a4 /\ b5 < a5
    PROVE  LowerThan(<<b1, b2, b3, b4, b5>>, <<a1, a2, a3, a4, a5>>)
<1> DEFINE old == <<a1, a2, a3, a4, a5>>
           new == <<b1, b2, b3, b4, b5>>
<1>1. DOMAIN new = DOMAIN old /\ DOMAIN new = {1, 2, 3, 4, 5}
  OBVIOUS
<1>2. /\ old[1] = a1 /\ old[2] = a2 /\ old[3] = a3 /\ old[4] = a4 /\ old[5] = a5
      /\ new[1] = b1 /\ new[2] = b2 /\ new[3] = b3 /\ new[4] = b4 /\ new[5] = b5
  OBVIOUS
<1> HIDE DEF old, new
<1>3. \A k \in DOMAIN new : new[k] \in Nat
  BY <1>1, <1>2
<1>4. \E k \in DOMAIN new : new[k] < old[k] /\ \A j \in DOMAIN new : j < k => new[j] = old[j]
  <2>1. CASE b1 < a1
    BY <1>1, <1>2, <2>1
  <2>2. CASE b1 = a1 /\ b2 < a2
    BY <1>1, <1>2, <2>2
  <2>3. CASE b1 = a1 /\ b2 = a2 /\ b3 < a3
    BY <1>1, <1>2, <2>3
  <2>4. CASE b1 = a1 /\ b2 = a2 /\ b3 = a3 /\ b4 < a4
    BY <1>1, <1>2, <2>4
  <2>5. CASE b1 = a1 /\ b2 = a2 /\ b3 = a3 /\ b4 = a4 /\ b5 < a5
    BY <1>1, <1>2, <2>5
  <2> QED
    BY <2>1, <2>2, <2>3, <2>4, <2>5
<1>5. LowerThan(new, old)
  BY <1>1, <1>3, <1>4 DEF LowerThan
<1> QED
  BY <1>5 DEF old, new

\* No more flows than the edges at the source can take.
FlowLeavesSource ==
    ffStage \in {"build", "search", "augment", "done"} =>
        CutCapacity({sourceId}) \in Int /\ maxFlow <= CutCapacity({sourceId})

LEMMA SourceBoundsFlow ==
    ASSUME FFInv, FlowInv
    PROVE  FlowLeavesSource
<1> SUFFICES ASSUME ffStage \in {"build", "search", "augment", "done"}
             PROVE  CutCapacity({sourceId}) \in Int /\ maxFlow <= CutCapacity({sourceId})
  BY DEF FlowLeavesSource
<1> DEFINE S == {sourceId}
           T == S \X (Ids \ S)
           z == [p \in T |-> 0]
<1>1. sourceId \in Ids /\ sourceId # sinkId /\ maxFlow \in Nat
  BY DEF FFInv, FFTyping, Distinct, Traced
<1>2. S \in SUBSET Ids /\ sourceId \in S /\ sinkId \notin S
  BY <1>1
<1>3. CASE ffStage = "build"
  <2>1. IsFiniteSet(T)
    BY <1>2, IdsAssumption, FS_Subset, FS_Product
  <2>2. \A p \in T : p \in Pairs
    BY <1>2 DEF Pairs
  <2>3. \A p \in T : z[p] \in Int /\ original[p] \in Int /\ z[p] <= original[p]
    BY <2>2 DEF FFInv, FFTyping
  <2>4. \A p \in T : z[p] = 0
    OBVIOUS
  <2>5. CutCapacity(S) = SumFunctionOnSet(original, T)
    BY DEF CutCapacity
  <2>6. maxFlow = 0
    BY <1>3 DEF FlowInv, Unpushed
  <2> HIDE DEF T, z
  <2>7. SumFunctionOnSet(z, T) <= SumFunctionOnSet(original, T)
    BY <2>1, <2>3, SumAtMost
  <2>8. SumFunctionOnSet(z, T) = 0
    BY <2>1, <2>4, SumZero
  <2>9. SumFunctionOnSet(original, T) \in Int
    BY <2>1, <2>3, SumType
  <2> QED
    BY <2>5, <2>6, <2>7, <2>8, <2>9
<1>4. CASE ffStage # "build"
  <2>1. maxFlow <= CutCapacity(S) /\ CutCapacity(S) \in Int
    BY <1>2, <1>4, FlowFillsCut
  <2> QED
    BY <1>1, <2>1
<1> QED
  BY <1>3, <1>4

\* The bottleneck is not nothing.
LEMMA BottleneckIsPositive ==
    ASSUME FFInv, ffStage = "augment"
    PROVE  \A b \in Bottlenecks : b \in Nat /\ b > 0
<1> SUFFICES ASSUME NEW n \in OnPath
             PROVE  residual[<<parent[n], n>>] \in Nat /\ residual[<<parent[n], n>>] > 0
  BY DEF Bottlenecks
<1>1. n \in Ids /\ parent[n] \in Ids /\ residual[<<parent[n], n>>] > 0
  BY PathHasParents
<1> QED
  BY <1>1 DEF FFInv, FFTyping, Pairs

LEMMA FFCountsDown ==
    ASSUME FFInv, FiniteWork, FlowLeavesSource, FlowLeavesSource', FFStep
    PROVE  LowerThan(FFLeft', FFLeft)
<1> DEFINE rank == CASE ffStage = "build" -> 2 [] ffStage \in {"search", "augment"} -> 1 [] OTHER -> 0
           edges == Cardinality(unread)
           left == CutCapacity({sourceId}) - maxFlow
           dark == Cardinality({n \in Ids : ~Visited(n)})
           len == Len(queue)
<1>1. FFLeft = <<rank, edges, left, dark, len>>
      /\ FFLeft' = <<rank', edges', left', dark', len'>>
  BY DEF FFLeft
<1>2. FFInv'
  BY FFSteps
<1>3. ffStage' \in {"build", "search", "augment", "done"}
  BY DEF FFStep, AddEdge, FirstSearch, Search, Visit, Dequeue, NoPath, Augment
<1>4. rank' \in Nat
  BY <1>3
<1>5. IsFiniteSet(unread') /\ edges' \in Nat
  <2>1. unread' \subseteq unread
    BY DEF FFStep, AddEdge, FirstSearch, Visit, Dequeue, NoPath, Augment
  <2>2. IsFiniteSet(unread')
    BY <2>1, FS_Subset DEF FiniteWork
  <2> QED
    BY <2>2, FS_CardinalityType
<1>6. left' \in Nat
  BY <1>2, <1>3 DEF FlowLeavesSource, FFInv, FFTyping
<1>7. dark' \in Nat
  <2>1. IsFiniteSet({n \in Ids : ~Visited(n)}')
    BY IdsAssumption, FS_Subset
  <2> QED
    BY <2>1, FS_CardinalityType
<1>8. len' \in Nat
  BY <1>2 DEF FFInv, FFTyping
<1>9. \/ rank' < rank
      \/ rank' = rank /\ edges' < edges
      \/ rank' = rank /\ edges' = edges /\ left' < left
      \/ rank' = rank /\ edges' = edges /\ left' = left /\ dark' < dark
      \/ rank' = rank /\ edges' = edges /\ left' = left /\ dark' = dark /\ len' < len
  <2>1. CASE AddEdge
    <3> DEFINE e == CHOOSE e \in unread : TRUE
    <3>1. ffStage = "build" /\ ffStage' = "build" /\ e \in unread /\ unread' = unread \ {e}
      BY <2>1 DEF AddEdge
    <3> HIDE DEF e
    <3>2. edges' < edges
      BY <3>1, OneLess DEF FiniteWork
    <3> QED
      BY <3>1, <3>2
  <2>2. CASE FirstSearch
    BY <2>2 DEF FirstSearch, Search
  <2>3. ASSUME NEW v \in Ids, Visit(v)
        PROVE  /\ rank' = rank /\ edges' = edges /\ left' = left
               /\ dark' < dark
    <3>1. /\ ffStage = "search" /\ ffStage' \in {"search", "augment"} /\ queue # <<>>
          /\ v \in Open(Head(queue)) /\ parent' = [parent EXCEPT ![v] = Head(queue)]
          /\ UNCHANGED <<sourceId, unread, original, maxFlow>>
      BY <2>3 DEF Visit
    <3>2. ~Visited(v)
      BY <3>1 DEF Open
    <3>3. Head(queue) \in Ids /\ Head(queue) # None
      BY <3>1, BellmanFordAssumption DEF FFInv, FFTyping
    <3>4. parent'[v] # None /\ \A n \in Ids : Visited(n) => Visited(n)'
      BY <3>1, <3>3 DEF FFInv, FFTyping, Visited
    <3>5. /\ IsFiniteSet({n \in Ids : ~Visited(n)}) /\ v \in {n \in Ids : ~Visited(n)}
          /\ {n \in Ids : ~Visited(n)}' \in SUBSET {n \in Ids : ~Visited(n)}
          /\ v \notin {n \in Ids : ~Visited(n)}'
      BY <3>2, <3>4, IdsAssumption, FS_Subset DEF Visited
    <3>6. dark' < dark
      BY <3>5, OneLess
    <3>7. left' = left
      BY <3>1 DEF CutCapacity
    <3> QED
      BY <3>1, <3>6, <3>7
  <2>4. CASE Dequeue
    <3>1. /\ ffStage = "search" /\ queue # <<>> /\ queue' = Tail(queue)
          /\ UNCHANGED <<ffStage, sourceId, unread, original, parent, maxFlow>>
      BY <2>4 DEF Dequeue
    <3>2. len' < len
      BY <3>1 DEF FFInv, FFTyping
    <3>3. left' = left
      BY <3>1 DEF CutCapacity
    <3>4. dark' = dark
      BY <3>1 DEF Visited
    <3> QED
      BY <3>1, <3>2, <3>3, <3>4
  <2>5. CASE NoPath
    BY <2>5 DEF NoPath
  <2>6. CASE Augment
    <3>1. /\ ffStage = "augment" /\ ffStage' = "search"
          /\ UNCHANGED <<sourceId, unread, original>>
      BY <2>6 DEF Augment, Search
    <3>2. PICK b \in Bottlenecks : maxFlow' = maxFlow + b
      BY <2>6 DEF Augment
    <3>3. b \in Nat /\ b > 0
      BY <3>1, BottleneckIsPositive
    <3>4. CutCapacity({sourceId})' = CutCapacity({sourceId})
      BY <3>1 DEF CutCapacity
    <3>5. CutCapacity({sourceId}) \in Int /\ maxFlow \in Nat
      BY <3>1 DEF FlowLeavesSource, FFInv, FFTyping
    <3>6. left' < left
      BY <3>2, <3>3, <3>4, <3>5
    <3> QED
      BY <3>1, <3>6
  <2> QED
    BY <2>1, <2>2, <2>3, <2>4, <2>5, <2>6 DEF FFStep
<1> HIDE DEF rank, edges, left, dark, len
<1> QED
  BY <1>1, <1>4, <1>5, <1>6, <1>7, <1>8, <1>9, LowerFive

\* The entries of KMLeft are numbers.
KMWork ==
    kmStage = "search" =>
        /\ Cardinality(centers) \in Nat /\ Len(path) <= Cardinality(centers)
        /\ DOMAIN KMLeft = 0..Cardinality(centers)
        /\ KMLeft[0] = 1 + Cardinality(starts) /\ Cardinality(starts) \in Nat
        /\ \A i \in 1..Cardinality(centers) :
              KMLeft[i] = IF i \in 1..Len(path) THEN 1 + Cardinality(untried[i]) ELSE 0
        /\ \A i \in 1..Len(path) :
              IsFiniteSet(untried[i]) /\ Cardinality(untried[i]) \in Nat

LEMMA KMWorkIsFinite ==
    ASSUME KMInv
    PROVE  KMWork
<1> SUFFICES ASSUME kmStage = "search" PROVE KMWork
  BY DEF KMWork
<1>1. Cardinality(centers) \in Nat /\ Len(path) \in Nat /\ Len(path) <= Cardinality(centers)
  BY DEF KMInv, KMTyping, SimplePath
<1>2. IsFiniteSet(centers)
  BY IdsAssumption, FS_Subset DEF KMInv, KMTyping
<1>3. starts \subseteq centers /\ \A i \in 1..Len(path) : untried[i] \subseteq centers
  BY DEF KMInv, KMTyping, SimplePath
<1>4. Cardinality(starts) \in Nat
      /\ \A i \in 1..Len(path) : IsFiniteSet(untried[i]) /\ Cardinality(untried[i]) \in Nat
  BY <1>2, <1>3, FS_Subset, FS_CardinalityType
<1>5. DOMAIN KMLeft = 0..Cardinality(centers)
  BY DEF KMLeft
<1>6. KMLeft[0] = 1 + Cardinality(starts)
  BY <1>1 DEF KMLeft
<1>7. \A i \in 1..Cardinality(centers) :
         KMLeft[i] = IF i \in 1..Len(path) THEN 1 + Cardinality(untried[i]) ELSE 0
  BY <1>1 DEF KMLeft
<1> QED
  BY <1>1, <1>4, <1>5, <1>6, <1>7 DEF KMWork

LEMMA KMCountsDown ==
    ASSUME KMInv, KMWork, KMWork', KMStep
    PROVE  LowerThan(KMLeft', KMLeft)
<1> DEFINE N == Cardinality(centers)
           L == Len(path)
<1>1. /\ kmStage = "search" /\ UNCHANGED <<centers, adj>>
      /\ path \in Seq(centers) /\ untried \in Seq(SUBSET centers) /\ Len(untried) = L
      /\ starts \subseteq centers
  BY DEF KMStep, Begin, Extend, CloseCircuit, Backtrack, GiveUp, KMInv, KMTyping, SimplePath
<1>2. N \in Nat /\ L \in Nat /\ L <= N /\ DOMAIN KMLeft = 0..N /\ DOMAIN KMLeft' = 0..N
      /\ KMLeft[0] = 1 + Cardinality(starts) /\ Cardinality(starts) \in Nat
  <2>1. DOMAIN KMLeft' = 0..N
    BY <1>1 DEF KMLeft
  <2> QED
    BY <1>1, <2>1 DEF KMWork
<1>3. ASSUME kmStage' = "search"
      PROVE  \A k \in 0..N : KMLeft'[k] \in Nat
  <2>1. N' = N
    BY <1>1
  <2>2. /\ KMLeft'[0] = 1 + Cardinality(starts') /\ Cardinality(starts') \in Nat
        /\ \A i \in 1..N' :
              KMLeft'[i] = IF i \in 1..Len(path') THEN 1 + Cardinality(untried'[i]) ELSE 0
        /\ \A i \in 1..Len(path') : Cardinality(untried'[i]) \in Nat
    BY <1>3 DEF KMWork
  <2> QED
    BY <1>2, <2>1, <2>2
<1>4. ASSUME kmStage' = "done"
      PROVE  LowerThan(KMLeft', KMLeft)
  <2>1. \A k \in 0..N : KMLeft'[k] = 0
    BY <1>1, <1>4 DEF KMLeft
  <2> QED
    BY <1>2, <2>1 DEF LowerThan
<1>5. ASSUME NEW s \in Ids, Begin(s)
      PROVE  LowerThan(KMLeft', KMLeft)
  <2>1. kmStage' = "search" /\ s \in starts /\ starts' = starts \ {s}
    BY <1>1, <1>5 DEF Begin
  <2>2. IsFiniteSet(starts)
    BY <1>1, IdsAssumption, FS_Subset DEF KMInv, KMTyping
  <2>3. Cardinality(starts') < Cardinality(starts)
    BY <2>1, <2>2, OneLess
  <2>4. kmStage' = "search"
    BY <2>1
  <2>5. KMLeft'[0] = 1 + Cardinality(starts') /\ Cardinality(starts') \in Nat
    BY <2>4 DEF KMWork
  <2>6. 0 \in 0..N /\ KMLeft'[0] < KMLeft[0] /\ \A j \in 0..N : ~(j < 0)
    BY <1>2, <2>3, <2>5
  <2>7. \A k \in 0..N : KMLeft'[k] \in Nat
    BY <1>3, <2>4
  <2> HIDE DEF N
  <2> QED
    BY <1>2, <2>6, <2>7 DEF LowerThan
<1>6. ASSUME NEW n \in Ids, Extend(n)
      PROVE  LowerThan(KMLeft', KMLeft)
  <2>1. /\ kmStage' = "search" /\ path # <<>> /\ L # N /\ n \in untried[L]
        /\ path' = Append(path, n) /\ UNCHANGED starts
        /\ untried' = Append([untried EXCEPT ![L] = @ \ {n}], adj[n])
    BY <1>1, <1>6 DEF Extend, Full
  <2>2. L \in 1..N /\ Len(path') = L + 1
    BY <1>1, <1>2, <2>1
  <2>3. untried'[L] = untried[L] \ {n} /\ \A j \in 1..(L - 1) : untried'[j] = untried[j]
    BY <1>1, <1>2, <2>1, <2>2
  <2>4. IsFiniteSet(untried[L]) /\ Cardinality(untried[L]) \in Nat
    BY <1>1, <2>2 DEF KMWork
  <2>5. Cardinality(untried'[L]) < Cardinality(untried[L])
        /\ Cardinality(untried'[L]) \in Nat
    <3> DEFINE old == untried[L]
               new == untried'[L]
    <3>1. IsFiniteSet(old) /\ new \in SUBSET old /\ n \in old /\ n \notin new
      BY <2>1, <2>3, <2>4
    <3> HIDE DEF old, new
    <3>2. Cardinality(new) < Cardinality(old) /\ Cardinality(new) \in Nat
      BY <3>1, OneLess
    <3> QED
      BY <3>2 DEF old, new
  <2>6. KMLeft[L] = 1 + Cardinality(untried[L]) /\ KMLeft'[L] = 1 + Cardinality(untried'[L])
    <3>1. kmStage' = "search" /\ N' = N /\ L \in 1..N' /\ L \in 1..Len(path')
          /\ L \in 1..Len(path)
      BY <1>1, <1>2, <2>1, <2>2
    <3>2. KMLeft[L] = 1 + Cardinality(untried[L])
      BY <1>1, <2>2, <3>1 DEF KMWork
    <3>3. KMLeft'[L] = 1 + Cardinality(untried'[L])
      BY <3>1 DEF KMWork
    <3> QED
      BY <3>2, <3>3
  <2>7. \A j \in 1..(L - 1) :
           /\ KMLeft[j] = 1 + Cardinality(untried[j])
           /\ KMLeft'[j] = 1 + Cardinality(untried'[j])
    BY <1>1, <1>2, <2>1, <2>2 DEF KMWork
  <2>8. KMLeft'[0] = KMLeft[0]
    BY <1>1, <1>2, <2>1 DEF KMWork
  <2>9. \A j \in 0..N : j < L => KMLeft'[j] = KMLeft[j]
    BY <1>2, <2>2, <2>3, <2>7, <2>8
  <2>10. L \in 0..N /\ KMLeft'[L] < KMLeft[L]
    BY <2>2, <2>4, <2>5, <2>6
  <2> QED
    BY <1>2, <1>3, <2>1, <2>9, <2>10 DEF LowerThan
<1>7. CASE CloseCircuit \/ GiveUp
  BY <1>4, <1>7 DEF CloseCircuit, GiveUp
<1>8. CASE Backtrack
  <2>1. /\ kmStage' = "search" /\ path # <<>> /\ UNCHANGED starts
        /\ path' = SubSeq(path, 1, L - 1) /\ untried' = SubSeq(untried, 1, L - 1)
    BY <1>1, <1>8 DEF Backtrack, DeadEnd
  <2>2. L \in 1..N /\ Len(path') = L - 1
    BY <1>1, <1>2, <2>1
  <2>3. \A j \in 1..(L - 1) : untried'[j] = untried[j]
    BY <1>1, <1>2, <2>1, <2>2
  <2>4. KMLeft[L] = 1 + Cardinality(untried[L]) /\ Cardinality(untried[L]) \in Nat
        /\ KMLeft'[L] = 0
    BY <1>1, <1>2, <2>1, <2>2 DEF KMWork
  <2>5. \A j \in 1..(L - 1) :
           /\ KMLeft[j] = 1 + Cardinality(untried[j])
           /\ KMLeft'[j] = 1 + Cardinality(untried'[j])
    BY <1>1, <1>2, <2>1, <2>2 DEF KMWork
  <2>6. KMLeft'[0] = KMLeft[0]
    BY <1>1, <1>2, <2>1 DEF KMWork
  <2>7. \A j \in 0..N : j < L => KMLeft'[j] = KMLeft[j]
    BY <1>2, <2>2, <2>3, <2>5, <2>6
  <2>8. L \in 0..N /\ KMLeft'[L] < KMLeft[L]
    BY <2>2, <2>4
  <2> QED
    BY <1>2, <1>3, <2>1, <2>7, <2>8 DEF LowerThan
<1> QED
  BY <1>5, <1>6, <1>7, <1>8 DEF KMStep

LEMMA WorkIsFinite == Spec => []FiniteWork
BY FiniteWorkStarts, FiniteWorkSteps, PTL DEF Spec

\* The three compute functions end: every step of an algorithm lowers a tuple of natural
\* numbers in the lexicographic order, on any graph and in any order of edges and
\* neighbours.
THEOREM CountsDown == Spec => EveryStepCountsDown
<1>1. RoutingInv => FlowLeavesSource /\ KMWork
  BY SourceBoundsFlow, KMWorkIsFinite DEF RoutingInv
<1>2. ASSUME RoutingInv, FiniteWork, FlowLeavesSource, FlowLeavesSource', KMWork, KMWork'
      PROVE  /\ BellmanFordStep => LowerThan(BFLeft', BFLeft)
             /\ FordFulkersonStep => LowerThan(FFLeft', FFLeft)
             /\ KaufmannMalgrangeStep => LowerThan(KMLeft', KMLeft)
  BY <1>2, BFCountsDown, FFCountsDown, KMCountsDown
    DEF RoutingInv, BellmanFordStep, FordFulkersonStep, KaufmannMalgrangeStep
<1> QED
  BY <1>1, <1>2, RoutingInvariant, WorkIsFinite, PTL DEF EveryStepCountsDown

\* FordFulkerson::compute, lines 90 to 96: the path of parents always has a bottleneck,
\* and it is not zero, so that an augmentation can be made and adds to the flow.
THEOREM PathHasBottleneck == Spec => [](ffStage = "augment" => \E b \in Bottlenecks : b > 0)
<1>1. ASSUME RoutingInv, ffStage = "augment"
      PROVE  \E b \in Bottlenecks : b > 0
  <2> DEFINE capacities == {residual[<<parent[v], v>>] : v \in OnPath}
  <2>1. \A v \in OnPath : residual[<<parent[v], v>>] \in Nat
    BY <1>1, PathHasParents DEF RoutingInv, FFInv, FFTyping, Pairs
  <2>2. sinkId \in OnPath
    BY <1>1, PathIsChain DEF RoutingInv
  <2>3. capacities \in SUBSET Nat /\ capacities # {}
    BY <2>1, <2>2
  <2> HIDE DEF capacities
  <2>4. PICK b \in capacities : \A c \in capacities : b <= c
    BY <2>3, LeastNat
  <2>5. b \in Bottlenecks
    BY <2>4 DEF Bottlenecks, capacities
  <2> QED
    BY <1>1, <2>5, BottleneckIsPositive DEF RoutingInv
<1> QED
  BY <1>1, RoutingInvariant, PTL
=============================================================================
