-------------------------------- MODULE Sums ---------------------------------
(***************************************************************************)
(* Facts about SumFunctionOnSet, the community modules' sum of a function  *)
(* over a finite set, on which the conservation theorems of this project   *)
(* rest.  Induction is by a minimal counterexample among the subsets of a  *)
(* finite set (WFMin), which asks for no operator as a parameter.          *)
(***************************************************************************)
EXTENDS Integers, FiniteSets, Functions, FiniteSetTheorems, WellFoundedInduction, TLAPS

\* A set of subsets of a finite set that contains T whenever it contains all
\* smaller subsets of T contains them all.
LEMMA SubsetInduction ==
  ASSUME NEW S, IsFiniteSet(S), NEW Q,
         \A T \in SUBSET S : (\A U \in SUBSET T : U # T => U \in Q) => T \in Q
  PROVE  \A T \in SUBSET S : T \in Q
<1> DEFINE Bad == (SUBSET S) \ Q
<1> SUFFICES ASSUME Bad # {} PROVE FALSE
  OBVIOUS
<1>1. IsWellFoundedOn(StrictSubsetOrdering(S), SUBSET S)
  <2>1. FiniteSubsetsOf(S) = SUBSET S
    BY FS_FiniteSubsetsOfFinite
  <2>2. IsWellFoundedOn(StrictSubsetOrdering(S), FiniteSubsetsOf(S))
    BY FS_StrictSubsetOrderingWellFounded
  <2> QED BY <2>1, <2>2
<1>2. PICK T \in Bad : \A U \in Bad : ~(<<U, T>> \in StrictSubsetOrdering(S))
  <2>1. Bad \subseteq SUBSET S
    OBVIOUS
  <2> HIDE DEF Bad
  <2> QED BY <1>1, <2>1, WFMin
<1>3. \A U \in SUBSET T : U # T => U \in Q
  <2> SUFFICES ASSUME NEW U \in SUBSET T, U # T, U \notin Q PROVE FALSE
    OBVIOUS
  <2>1. U \in Bad
    OBVIOUS
  <2>2. <<U, T>> \in StrictSubsetOrdering(S)
    BY DEF StrictSubsetOrdering
  <2> QED BY <1>2, <2>1, <2>2
<1> QED BY <1>3

-----------------------------------------------------------------------------
(* The recursion behind the sum *)

\* The element a sum takes out of a set first.
First(s) == CHOOSE x \in s : TRUE

\* g adds up f over every set of D.
Adds(f, D, g) == g = [s \in D |-> IF s = {} THEN 0 ELSE f[First(s)] + g[s \ {First(s)}]]

\* SumFunctionOnSet reads its sum from such a function.
LEMMA SumIsChosen ==
  ASSUME NEW f, NEW S
  PROVE  SumFunctionOnSet(f, S) = (CHOOSE g : Adds(f, SUBSET S, g))[S]
BY DEF SumFunctionOnSet, FoldFunctionOnSet, MapThenFoldSet, Adds, First

\* Some function adds up f over the subsets of S of at most the size of T, for
\* each T.
LEMMA AddsExistsInLayers ==
  ASSUME NEW f, NEW S, IsFiniteSet(S)
  PROVE  \A T \in SUBSET S :
            \E g : Adds(f, {s \in SUBSET S : Cardinality(s) <= Cardinality(T)}, g)
<1> DEFINE Layer(n) == {s \in SUBSET S : Cardinality(s) <= n}
           Q == {T \in SUBSET S : \E g : Adds(f, Layer(Cardinality(T)), g)}
<1>0. \A s \in SUBSET S : IsFiniteSet(s) /\ Cardinality(s) \in Nat /\ (Cardinality(s) = 0 <=> s = {})
  BY FS_Subset, FS_CardinalityType, FS_EmptySet
<1>1. ASSUME NEW T \in SUBSET S, \A U \in SUBSET T : U # T => U \in Q PROVE T \in Q
  <2>1. CASE T = {}
    <3> DEFINE g == [s \in {{}} |-> 0]
    <3>1. Layer(Cardinality(T)) = {{}}
      BY <1>0, <2>1
    <3>2. Adds(f, {{}}, g)
      BY DEF Adds
    <3> QED BY <3>1, <3>2
  <2>2. CASE T # {}
    <3>1. PICK x \in T : TRUE
      BY <2>2
    <3> DEFINE n == Cardinality(T \ {x})
    <3>2. Cardinality(T) = n + 1 /\ n \in Nat
      BY <1>0, FS_RemoveElement
    <3>3. T \ {x} \in Q
      BY <1>1
    <3> HIDE DEF n
    <3>4. PICK g : Adds(f, Layer(n), g)
      BY <3>3 DEF n
    <3> DEFINE h == [s \in Layer(n + 1) |->
                        IF s = {} THEN 0 ELSE f[First(s)] + g[s \ {First(s)}]]
    <3>5. \A s \in Layer(n) : s \in Layer(n + 1) /\ h[s] = g[s]
      <4>1. \A s \in Layer(n) : s \in Layer(n + 1)
        BY <1>0, <3>2
      <4>2. \A s \in Layer(n) : g[s] = IF s = {} THEN 0 ELSE f[First(s)] + g[s \ {First(s)}]
        <5> HIDE DEF Layer
        <5> QED BY <3>4 DEF Adds
      <4> HIDE DEF Layer
      <4> QED BY <4>1, <4>2
    <3>6. \A s \in Layer(n + 1) : s # {} => s \ {First(s)} \in Layer(n)
      <4> SUFFICES ASSUME NEW s \in SUBSET S, Cardinality(s) <= n + 1, s # {}
                   PROVE  Cardinality(s \ {First(s)}) <= n
        OBVIOUS
      <4>1. First(s) \in s
        BY DEF First
      <4>2. Cardinality(s \ {First(s)}) = Cardinality(s) - 1
        BY <1>0, <4>1, FS_RemoveElement
      <4> QED BY <1>0, <3>2, <4>2
    <3>7. Adds(f, Layer(n + 1), h)
      <4> HIDE DEF Layer
      <4>1. \A s \in Layer(n + 1) :
               (IF s = {} THEN 0 ELSE f[First(s)] + g[s \ {First(s)}])
                 = (IF s = {} THEN 0 ELSE f[First(s)] + h[s \ {First(s)}])
        <5> HIDE DEF h
        <5> QED BY <3>5, <3>6
      <4> QED BY <4>1 DEF Adds
    <3> QED BY <3>2, <3>7
  <2> QED BY <2>1, <2>2
<1>2. \A T \in SUBSET S : T \in Q
  <2> HIDE DEF Q
  <2> QED BY <1>1, SubsetInduction
<1> QED BY <1>2

\* Two functions that add up f agree wherever both are defined.
LEMMA AddsUnique ==
  ASSUME NEW f, NEW S, IsFiniteSet(S), NEW D, NEW E, SUBSET S \subseteq D, SUBSET S \subseteq E,
         NEW g, NEW h, Adds(f, D, g), Adds(f, E, h)
  PROVE  \A T \in SUBSET S : g[T] = h[T]
<1> DEFINE Q == {T \in SUBSET S : g[T] = h[T]}
<1>1. ASSUME NEW T \in SUBSET S, \A U \in SUBSET T : U # T => U \in Q PROVE T \in Q
  <2>1. /\ g[T] = IF T = {} THEN 0 ELSE f[First(T)] + g[T \ {First(T)}]
        /\ h[T] = IF T = {} THEN 0 ELSE f[First(T)] + h[T \ {First(T)}]
    <3>1. T \in D /\ T \in E
      OBVIOUS
    <3> QED BY <3>1 DEF Adds
  <2>2. CASE T = {}
    BY <2>1, <2>2
  <2>3. CASE T # {}
    <3>1. First(T) \in T
      BY <2>3 DEF First
    <3>2. T \ {First(T)} \in Q
      BY <1>1, <3>1
    <3> QED BY <2>1, <2>3, <3>2
  <2> QED BY <2>2, <2>3
<1>2. \A T \in SUBSET S : T \in Q
  <2> HIDE DEF Q
  <2> QED BY <1>1, SubsetInduction
<1> QED BY <1>2

\* The function a sum is read from adds up f.
LEMMA ChosenAdds ==
  ASSUME NEW f, NEW S, IsFiniteSet(S)
  PROVE  Adds(f, SUBSET S, CHOOSE g : Adds(f, SUBSET S, g))
<1>1. {s \in SUBSET S : Cardinality(s) <= Cardinality(S)} = SUBSET S
  BY FS_Subset
<1>2. \A T \in SUBSET S :
         \E g : Adds(f, {s \in SUBSET S : Cardinality(s) <= Cardinality(T)}, g)
  BY AddsExistsInLayers
<1>3. \E g : Adds(f, SUBSET S, g)
  <2>1. S \in SUBSET S
    OBVIOUS
  <2>2. \E g : Adds(f, {s \in SUBSET S : Cardinality(s) <= Cardinality(S)}, g)
    BY <1>2, <2>1
  <2> QED BY <1>1, <2>2
<1> QED BY <1>3

-----------------------------------------------------------------------------
(* Sums *)

\* Nothing adds up to zero.
LEMMA SumEmpty == ASSUME NEW f PROVE SumFunctionOnSet(f, {}) = 0
<1> DEFINE G == CHOOSE g : Adds(f, SUBSET {}, g)
<1>1. Adds(f, SUBSET {}, G)
  BY ChosenAdds, FS_EmptySet
<1>2. SumFunctionOnSet(f, {}) = G[{}]
  BY SumIsChosen
<1> HIDE DEF G
<1> QED BY <1>1, <1>2 DEF Adds

\* The recursion of the sum, now of the sum itself.
LEMMA SumFirst ==
  ASSUME NEW f, NEW S, IsFiniteSet(S), S # {}
  PROVE  /\ First(S) \in S
         /\ SumFunctionOnSet(f, S) = f[First(S)] + SumFunctionOnSet(f, S \ {First(S)})
<1> DEFINE x == First(S)
           R == S \ {x}
           G == CHOOSE g : Adds(f, SUBSET S, g)
           H == CHOOSE g : Adds(f, SUBSET R, g)
<1>1. x \in S
  BY DEF First
<1>2. IsFiniteSet(R)
  BY FS_RemoveElement
<1> HIDE DEF x, R
<1>3. Adds(f, SUBSET S, G) /\ Adds(f, SUBSET R, H)
  BY <1>2, ChosenAdds
<1>4. SumFunctionOnSet(f, S) = G[S] /\ SumFunctionOnSet(f, R) = H[R]
  BY SumIsChosen
<1> HIDE DEF G, H
<1>5. G[S] = f[x] + G[R]
  BY <1>3 DEF Adds, x, R
<1>6. SUBSET R \subseteq SUBSET S /\ SUBSET R \subseteq SUBSET R /\ R \in SUBSET R
  BY DEF R
<1>7. \A T \in SUBSET R : G[T] = H[T]
  BY <1>2, <1>3, <1>6, AddsUnique
<1>8. G[R] = H[R]
  BY <1>6, <1>7
<1> QED BY <1>1, <1>4, <1>5, <1>8 DEF x, R

\* A sum of integers is an integer.
LEMMA SumInt ==
  ASSUME NEW f, NEW S, IsFiniteSet(S), \A x \in S : f[x] \in Int
  PROVE  \A T \in SUBSET S : SumFunctionOnSet(f, T) \in Int
<1> DEFINE Q == {T \in SUBSET S : SumFunctionOnSet(f, T) \in Int}
<1>1. ASSUME NEW T \in SUBSET S, \A U \in SUBSET T : U # T => U \in Q PROVE T \in Q
  <2>1. CASE T = {}
    BY <2>1, SumEmpty
  <2>2. CASE T # {}
    <3>1. IsFiniteSet(T)
      BY FS_Subset
    <3>2. /\ First(T) \in T
          /\ SumFunctionOnSet(f, T) = f[First(T)] + SumFunctionOnSet(f, T \ {First(T)})
      BY <2>2, <3>1, SumFirst
    <3>3. T \ {First(T)} \in Q
      BY <1>1, <3>2
    <3> QED BY <3>2, <3>3
  <2> QED BY <2>1, <2>2
<1>2. \A T \in SUBSET S : T \in Q
  <2> HIDE DEF Q
  <2> QED BY <1>1, SubsetInduction
<1> QED BY <1>2

\* Any element can be taken out of a sum, not only the first.
LEMMA SumTakeAny ==
  ASSUME NEW f, NEW S, IsFiniteSet(S), \A x \in S : f[x] \in Int
  PROVE  \A T \in SUBSET S : \A x \in T :
            SumFunctionOnSet(f, T) = f[x] + SumFunctionOnSet(f, T \ {x})
<1> DEFINE Sum(T) == SumFunctionOnSet(f, T)
           Q == {T \in SUBSET S : \A x \in T : Sum(T) = f[x] + Sum(T \ {x})}
<1>0. \A T \in SUBSET S : IsFiniteSet(T) /\ Sum(T) \in Int
  BY FS_Subset, SumInt
<1>1. ASSUME NEW T \in SUBSET S, \A U \in SUBSET T : U # T => U \in Q PROVE T \in Q
  <2> SUFFICES ASSUME NEW x \in T PROVE Sum(T) = f[x] + Sum(T \ {x})
    OBVIOUS
  <2> DEFINE p == First(T)
  <2>1. p \in T /\ Sum(T) = f[p] + Sum(T \ {p})
    BY <1>0, SumFirst
  <2> HIDE DEF p, Sum
  <2>2. CASE x = p
    BY <2>1, <2>2
  <2>3. CASE x # p
    <3> DEFINE A == T \ {p}
               B == T \ {x}
               C == A \ {x}
    <3>1. A \in Q /\ B \in Q /\ C \in SUBSET S /\ x \in A /\ p \in B /\ B \ {p} = C
      BY <1>1, <2>1, <2>3
    <3>2. Sum(T) = f[p] + Sum(A)
      BY <2>1
    <3> HIDE DEF A, B
    <3>3. Sum(A) = f[x] + Sum(C) /\ Sum(B) = f[p] + Sum(C)
      BY <3>1
    <3>4. f[x] \in Int /\ f[p] \in Int /\ Sum(C) \in Int
      BY <1>0, <2>1, <3>1
    <3> HIDE DEF C
    <3>5. Sum(T) = f[x] + Sum(B)
      BY <3>2, <3>3, <3>4
    <3> QED BY <3>5 DEF B
  <2> QED BY <2>2, <2>3
<1>2. \A T \in SUBSET S : T \in Q
  <2> HIDE DEF Q
  <2> QED BY <1>1, SubsetInduction
<1> QED BY <1>2

\* The same for the whole set, with what is left over.
LEMMA SumTake ==
  ASSUME NEW f, NEW S, IsFiniteSet(S), \A y \in S : f[y] \in Int,
         NEW x \in S, NEW R, R = S \ {x}
  PROVE  /\ SumFunctionOnSet(f, S) = f[x] + SumFunctionOnSet(f, R)
         /\ SumFunctionOnSet(f, S) \in Int /\ SumFunctionOnSet(f, R) \in Int
<1>1. S \in SUBSET S /\ R \in SUBSET S
  OBVIOUS
<1>2. \A T \in SUBSET S : SumFunctionOnSet(f, T) \in Int
  BY SumInt
<1>3. \A T \in SUBSET S : \A y \in T :
            SumFunctionOnSet(f, T) = f[y] + SumFunctionOnSet(f, T \ {y})
  BY SumTakeAny, ZenonT(30)
<1> QED BY <1>1, <1>2, <1>3

\* One term more.
LEMMA SumPut ==
  ASSUME NEW f, NEW S, IsFiniteSet(S), NEW x, x \notin S, \A y \in S \cup {x} : f[y] \in Int
  PROVE  SumFunctionOnSet(f, S \cup {x}) = SumFunctionOnSet(f, S) + f[x]
<1> DEFINE T == S \cup {x}
<1>1. IsFiniteSet(T)
  BY FS_AddElement
<1>2. S = T \ {x} /\ x \in T /\ \A y \in T : f[y] \in Int
  OBVIOUS
<1> HIDE DEF T
<1>4. SumFunctionOnSet(f, T) = f[x] + SumFunctionOnSet(f, S) /\ SumFunctionOnSet(f, S) \in Int
  BY <1>1, <1>2, SumTake
<1>5. f[x] \in Int
  BY <1>2
<1>6. SumFunctionOnSet(f, T) = SumFunctionOnSet(f, S) + f[x]
  BY <1>4, <1>5
<1> QED BY <1>6 DEF T

\* The sum of sums, term by term.
LEMMA SumPlus ==
  ASSUME NEW f, NEW g, NEW h, NEW S, IsFiniteSet(S),
         \A x \in S : f[x] \in Int /\ g[x] \in Int /\ h[x] = f[x] + g[x]
  PROVE  SumFunctionOnSet(h, S) = SumFunctionOnSet(f, S) + SumFunctionOnSet(g, S)
<1> DEFINE F(T) == SumFunctionOnSet(f, T)
           G(T) == SumFunctionOnSet(g, T)
           H(T) == SumFunctionOnSet(h, T)
           Q == {T \in SUBSET S : H(T) = F(T) + G(T)}
<1>1. ASSUME NEW T \in SUBSET S, \A U \in SUBSET T : U # T => U \in Q PROVE T \in Q
  <2>1. CASE T = {}
    BY <2>1, SumEmpty
  <2>2. CASE T # {}
    <3>1. PICK x \in T : TRUE
      BY <2>2
    <3> DEFINE U == T \ {x}
    <3>2. IsFiniteSet(T) /\ \A y \in T : f[y] \in Int
      BY FS_Subset
    <3>3. \A y \in T : g[y] \in Int
      OBVIOUS
    <3>4. \A y \in T : h[y] \in Int
      OBVIOUS
    <3>5. U = T \ {x}
      OBVIOUS
    <3>6. H(U) = F(U) + G(U)
      BY <1>1
    <3> HIDE DEF U
    <3>7. F(T) = f[x] + F(U) /\ F(U) \in Int
      BY <3>2, <3>5, SumTake
    <3>8. G(T) = g[x] + G(U) /\ G(U) \in Int
      BY <3>2, <3>3, <3>5, SumTake
    <3>9. H(T) = h[x] + H(U) /\ H(U) \in Int
      BY <3>2, <3>4, <3>5, SumTake
    <3> HIDE DEF F, G, H
    <3>10. H(T) = F(T) + G(T)
      BY <3>6, <3>7, <3>8, <3>9
    <3> QED BY <3>10
  <2> QED BY <2>1, <2>2
<1>2. \A T \in SUBSET S : T \in Q
  <2> HIDE DEF Q
  <2> QED BY <1>1, SubsetInduction
<1>3. S \in SUBSET S
  OBVIOUS
<1> QED BY <1>2, <1>3

\* A factor of all terms is a factor of the sum.
LEMMA SumScale ==
  ASSUME NEW f, NEW g, NEW S, IsFiniteSet(S), NEW c \in Int
  PROVE  (\A x \in S : f[x] \in Int /\ g[x] = c * f[x])
            => SumFunctionOnSet(g, S) = c * SumFunctionOnSet(f, S)
<1>0. SUFFICES ASSUME \A x \in S : f[x] \in Int /\ g[x] = c * f[x]
               PROVE  SumFunctionOnSet(g, S) = c * SumFunctionOnSet(f, S)
  OBVIOUS
<1> DEFINE F(T) == SumFunctionOnSet(f, T)
           G(T) == SumFunctionOnSet(g, T)
           Q == {T \in SUBSET S : G(T) = c * F(T)}
<1>1. ASSUME NEW T \in SUBSET S, \A U \in SUBSET T : U # T => U \in Q PROVE T \in Q
  <2>1. CASE T = {}
    BY <2>1, SumEmpty
  <2>2. CASE T # {}
    <3>1. PICK x \in T : TRUE
      BY <2>2
    <3> DEFINE U == T \ {x}
    <3>2. IsFiniteSet(T)
      BY FS_Subset
    <3>11. \A y \in T : f[y] \in Int
      BY <1>0
    <3>3. \A y \in T : g[y] \in Int
      BY <1>0
    <3>4. U = T \ {x}
      OBVIOUS
    <3>5. G(U) = c * F(U)
      BY <1>1
    <3> HIDE DEF U
    <3>6. F(T) = f[x] + F(U) /\ F(U) \in Int
      BY <3>2, <3>4, <3>11, SumTake
    <3>7. G(T) = g[x] + G(U)
      BY <3>2, <3>3, <3>4, SumTake
    <3>8. g[x] = c * f[x] /\ f[x] \in Int
      BY <1>0
    <3>9. \A m, n \in Int : c * (m + n) = c * m + c * n
      OBVIOUS
    <3> HIDE DEF F, G
    <3>10. G(T) = c * F(T)
      BY <3>5, <3>6, <3>7, <3>8, <3>9
    <3> QED BY <3>10
  <2> QED BY <2>1, <2>2
<1>2. \A T \in SUBSET S : T \in Q
  <2> HIDE DEF Q
  <2> QED BY <1>1, SubsetInduction
<1>3. S \in SUBSET S
  OBVIOUS
<1> QED BY <1>2, <1>3

\* A sum of natural numbers is one.
LEMMA SumNat ==
  ASSUME NEW f, NEW S, IsFiniteSet(S), \A x \in S : f[x] \in Nat
  PROVE  SumFunctionOnSet(f, S) \in Nat
<1> DEFINE Q == {T \in SUBSET S : SumFunctionOnSet(f, T) \in Nat}
<1>1. ASSUME NEW T \in SUBSET S, \A U \in SUBSET T : U # T => U \in Q PROVE T \in Q
  <2>1. CASE T = {}
    BY <2>1, SumEmpty
  <2>2. CASE T # {}
    <3>1. IsFiniteSet(T)
      BY FS_Subset
    <3>2. /\ First(T) \in T
          /\ SumFunctionOnSet(f, T) = f[First(T)] + SumFunctionOnSet(f, T \ {First(T)})
      BY <2>2, <3>1, SumFirst
    <3>3. T \ {First(T)} \in Q
      BY <1>1, <3>2
    <3> QED BY <3>2, <3>3
  <2> QED BY <2>1, <2>2
<1>2. \A T \in SUBSET S : T \in Q
  <2> HIDE DEF Q
  <2> QED BY <1>1, SubsetInduction
<1>3. S \in SUBSET S
  OBVIOUS
<1> QED BY <1>2, <1>3

\* A sum of integers, for the whole set.
LEMMA SumIsInt ==
  ASSUME NEW f, NEW S, IsFiniteSet(S), \A x \in S : f[x] \in Int
  PROVE  SumFunctionOnSet(f, S) \in Int
<1>1. S \in SUBSET S
  OBVIOUS
<1> QED BY <1>1, SumInt

\* A sum grows with its terms.
LEMMA SumLeq ==
  ASSUME NEW f, NEW g, NEW S, IsFiniteSet(S),
         \A x \in S : f[x] \in Int /\ g[x] \in Int /\ f[x] <= g[x]
  PROVE  SumFunctionOnSet(f, S) <= SumFunctionOnSet(g, S)
<1> DEFINE d == [x \in S |-> g[x] - f[x]]
<1>1. \A x \in S : d[x] \in Nat
  OBVIOUS
<1>2. \A x \in S : f[x] \in Int /\ d[x] \in Int /\ g[x] = f[x] + d[x]
  OBVIOUS
<1> HIDE DEF d
<1>3. SumFunctionOnSet(d, S) \in Nat
  BY <1>1, SumNat
<1>4. SumFunctionOnSet(g, S) = SumFunctionOnSet(f, S) + SumFunctionOnSet(d, S)
  BY <1>2, SumPlus
<1>5. SumFunctionOnSet(f, S) \in Int
  BY <1>2, SumIsInt
<1> QED BY <1>3, <1>4, <1>5

\* Terms that are the same give the same sum.
LEMMA SumSame ==
  ASSUME NEW f, NEW g, NEW S, IsFiniteSet(S), \A x \in S : f[x] \in Int /\ g[x] = f[x]
  PROVE  SumFunctionOnSet(g, S) = SumFunctionOnSet(f, S)
<1>1. \A x \in S : f[x] \in Int /\ g[x] \in Int /\ f[x] <= g[x]
  OBVIOUS
<1>2. \A x \in S : g[x] \in Int /\ f[x] \in Int /\ g[x] <= f[x]
  OBVIOUS
<1>3. SumFunctionOnSet(f, S) <= SumFunctionOnSet(g, S)
  BY <1>1, SumLeq
<1>4. SumFunctionOnSet(g, S) <= SumFunctionOnSet(f, S)
  BY <1>2, SumLeq
<1>5. SumFunctionOnSet(f, S) \in Int /\ SumFunctionOnSet(g, S) \in Int
  BY <1>1, <1>2, SumIsInt
<1> QED BY <1>3, <1>4, <1>5

\* A sum of zeros.
LEMMA SumZero ==
  ASSUME NEW f, NEW S, IsFiniteSet(S), \A x \in S : f[x] = 0
  PROVE  SumFunctionOnSet(f, S) = 0
<1>1. \A x \in S : f[x] \in Int /\ f[x] \in Int /\ f[x] = f[x] + f[x]
  OBVIOUS
<1>2. SumFunctionOnSet(f, S) = SumFunctionOnSet(f, S) + SumFunctionOnSet(f, S)
  BY <1>1, SumPlus
<1>3. SumFunctionOnSet(f, S) \in Int
  BY <1>1, SumIsInt
<1>4. \A n \in Int : n = n + n => n = 0
  OBVIOUS
<1> QED BY <1>2, <1>3, <1>4, Zenon

\* One term is replaced.
LEMMA SumReplace ==
  ASSUME NEW f, NEW g, NEW S, IsFiniteSet(S), NEW x \in S,
         \A y \in S : f[y] \in Int /\ g[y] \in Int,
         \A y \in S \ {x} : g[y] = f[y]
  PROVE  SumFunctionOnSet(g, S) = SumFunctionOnSet(f, S) - f[x] + g[x]
<1> DEFINE R == S \ {x}
<1>1. IsFiniteSet(R)
  BY FS_RemoveElement
<1>2. /\ R = S \ {x}
      /\ \A y \in R : f[y] \in Int /\ g[y] = f[y]
      /\ \A y \in S : f[y] \in Int
      /\ \A y \in S : g[y] \in Int
  OBVIOUS
<1> HIDE DEF R
<1>3. SumFunctionOnSet(f, S) = f[x] + SumFunctionOnSet(f, R) /\ SumFunctionOnSet(f, R) \in Int
  BY <1>2, SumTake
<1>4. SumFunctionOnSet(g, S) = g[x] + SumFunctionOnSet(g, R)
  BY <1>2, SumTake
<1>5. SumFunctionOnSet(g, R) = SumFunctionOnSet(f, R)
  BY <1>1, <1>2, SumSame
<1> QED BY <1>2, <1>3, <1>4, <1>5

\* A term of a sum of natural numbers is not above it.
LEMMA SumTerm ==
  ASSUME NEW f, NEW S, IsFiniteSet(S), \A y \in S : f[y] \in Nat, NEW x \in S
  PROVE  f[x] <= SumFunctionOnSet(f, S)
<1> DEFINE R == S \ {x}
<1>1. IsFiniteSet(R)
  BY FS_RemoveElement
<1>2. R = S \ {x} /\ (\A y \in R : f[y] \in Nat) /\ \A y \in S : f[y] \in Int
  OBVIOUS
<1> HIDE DEF R
<1>3. SumFunctionOnSet(f, S) = f[x] + SumFunctionOnSet(f, R)
  BY <1>2, SumTake
<1>4. SumFunctionOnSet(f, R) \in Nat
  BY <1>1, <1>2, SumNat
<1> QED BY <1>3, <1>4

\* Two sets without a common element are summed up one after the other.
LEMMA SumUnion ==
  ASSUME NEW f, NEW P, NEW D, IsFiniteSet(P), IsFiniteSet(D), P \cap D = {},
         \A x \in P \cup D : f[x] \in Int
  PROVE  SumFunctionOnSet(f, P \cup D) = SumFunctionOnSet(f, P) + SumFunctionOnSet(f, D)
<1> DEFINE F(T) == SumFunctionOnSet(f, T)
           Q == {T \in SUBSET D : F(P \cup T) = F(P) + F(T)}
<1>0. F(P) \in Int /\ \A T \in SUBSET D : IsFiniteSet(T) /\ F(T) \in Int
  <2>1. \A x \in P : f[x] \in Int
    OBVIOUS
  <2>2. \A x \in D : f[x] \in Int
    OBVIOUS
  <2> QED BY <2>1, <2>2, SumInt, SumIsInt, FS_Subset
<1>1. ASSUME NEW T \in SUBSET D, \A U \in SUBSET T : U # T => U \in Q PROVE T \in Q
  <2>1. CASE T = {}
    <3>1. P \cup T = P /\ F(T) = 0
      BY <2>1, SumEmpty
    <3>2. F(P \cup T) = F(P)
      BY <3>1
    <3>3. F(P) = F(P) + 0
      BY <1>0
    <3>4. F(P \cup T) = F(P) + F(T)
      BY <3>1, <3>2, <3>3
    <3> QED BY <3>4
  <2>2. CASE T # {}
    <3>1. PICK x \in T : TRUE
      BY <2>2
    <3> DEFINE W == P \cup T
               V == T \ {x}
               R == P \cup V
    <3>2. IsFiniteSet(W) /\ IsFiniteSet(T)
      BY <1>0, FS_Union
    <3>3. \A y \in W : f[y] \in Int
      OBVIOUS
    <3>4. \A y \in T : f[y] \in Int
      OBVIOUS
    <3>5. R = W \ {x} /\ x \in W /\ V = T \ {x} /\ f[x] \in Int
      OBVIOUS
    <3>6. F(R) = F(P) + F(V)
      BY <1>1
    <3> HIDE DEF R, W, V
    <3>7. F(W) = f[x] + F(R) /\ F(R) \in Int
      BY <3>2, <3>3, <3>5, SumTake
    <3>8. F(T) = f[x] + F(V) /\ F(V) \in Int
      BY <3>2, <3>4, <3>5, SumTake
    <3>9. F(W) = F(P) + F(T)
      BY <1>0, <3>5, <3>6, <3>7, <3>8
    <3> QED BY <3>9 DEF W
  <2> QED BY <2>1, <2>2
<1>2. \A T \in SUBSET D : T \in Q
  <2> HIDE DEF Q
  <2> QED BY <1>1, SubsetInduction
<1>3. D \in SUBSET D
  OBVIOUS
<1> QED BY <1>2, <1>3

\* Terms that are zero add nothing.
LEMMA SumOfPart ==
  ASSUME NEW f, NEW S, NEW P \in SUBSET S, IsFiniteSet(S),
         \A x \in S : f[x] \in Int, \A x \in S \ P : f[x] = 0
  PROVE  SumFunctionOnSet(f, S) = SumFunctionOnSet(f, P)
<1> DEFINE D == S \ P
<1>1. IsFiniteSet(P) /\ IsFiniteSet(D)
  BY FS_Subset
<1>2. P \cap D = {} /\ S = P \cup D /\ \A x \in P \cup D : f[x] \in Int
  OBVIOUS
<1>3. \A x \in D : f[x] = 0
  OBVIOUS
<1>4. \A x \in P : f[x] \in Int
  OBVIOUS
<1> HIDE DEF D
<1>5. SumFunctionOnSet(f, D) = 0
  BY <1>1, <1>3, SumZero
<1>6. SumFunctionOnSet(f, P \cup D) = SumFunctionOnSet(f, P) + SumFunctionOnSet(f, D)
  BY <1>1, <1>2, SumUnion
<1>7. SumFunctionOnSet(f, P) \in Int
  BY <1>1, <1>4, SumIsInt
<1> QED BY <1>2, <1>5, <1>6, <1>7

\* A sum in groups: f over D, first for each n of N over what g sends to n.
LEMMA SumGroups ==
  ASSUME NEW f, NEW D, IsFiniteSet(D), \A x \in D : f[x] \in Int,
         NEW g, NEW N, IsFiniteSet(N), \A x \in D : g[x] \in N,
         NEW h, \A n \in N : h[n] = SumFunctionOnSet(f, {x \in D : g[x] = n})
  PROVE  SumFunctionOnSet(h, N) = SumFunctionOnSet(f, D)
<1> DEFINE F(T) == SumFunctionOnSet(f, T)
           H(T) == SumFunctionOnSet(h, T)
           Into(T) == {x \in D : g[x] \in T}
           Group(n) == {x \in D : g[x] = n}
           Q == {T \in SUBSET N : H(T) = F(Into(T))}
<1>0. \A n \in N : h[n] = F(Group(n)) /\ h[n] \in Int
  <2>1. \A n : Group(n) \in SUBSET D
    OBVIOUS
  <2>2. \A T \in SUBSET D : F(T) \in Int
    BY SumInt
  <2> QED BY <2>1, <2>2
<1>1. ASSUME NEW T \in SUBSET N, \A U \in SUBSET T : U # T => U \in Q PROVE T \in Q
  <2>1. CASE T = {}
    <3>1. Into(T) = {}
      BY <2>1
    <3>2. H(T) = 0 /\ F({}) = 0
      BY <2>1, SumEmpty
    <3> QED BY <3>1, <3>2
  <2>2. CASE T # {}
    <3>1. PICK n \in T : TRUE
      BY <2>2
    <3> DEFINE R == T \ {n}
               A == Into(R)
               B == Group(n)
    <3>2. IsFiniteSet(T) /\ \A y \in T : h[y] \in Int
      BY <1>0, FS_Subset
    <3>3. H(R) = F(A)
      BY <1>1
    <3>4. Into(T) = A \cup B /\ A \cap B = {} /\ A \in SUBSET D /\ B \in SUBSET D
      OBVIOUS
    <3>5. IsFiniteSet(A) /\ IsFiniteSet(B) /\ \A x \in A \cup B : f[x] \in Int
      BY <3>4, FS_Subset
    <3>6. h[n] = F(B) /\ R = T \ {n}
      BY <1>0
    <3>7. F(A) \in Int /\ F(B) \in Int
      <4> HIDE DEF A, B
      <4> QED BY <3>4, SumInt
    <3> HIDE DEF R, A, B
    <3>8. H(T) = h[n] + H(R)
      BY <3>2, <3>6, SumTake
    <3>9. F(A \cup B) = F(A) + F(B)
      BY <3>4, <3>5, SumUnion
    <3>10. H(T) = F(A \cup B)
      BY <3>3, <3>6, <3>7, <3>8, <3>9
    <3> QED BY <3>4, <3>10
  <2> QED BY <2>1, <2>2
<1>2. \A T \in SUBSET N : T \in Q
  <2> HIDE DEF Q
  <2> QED BY <1>1, SubsetInduction
<1>3. N \in SUBSET N /\ Into(N) = D
  OBVIOUS
<1>4. H(N) = F(Into(N))
  BY <1>2, <1>3
<1> QED BY <1>3, <1>4
=============================================================================
