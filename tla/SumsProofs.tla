----------------------------- MODULE SumsProofs -----------------------------
(* Sums of integers over finite sets, by induction on the sets, and what      *)
(* rounding does to them.                                                    *)
(*                                                                           *)
(* The induction principles are stated with sets instead of predicates: the  *)
(* set of the arguments for which a fact holds is what they are applied to.  *)
EXTENDS Integers, Functions, FiniteSetTheorems, WellFoundedInduction, TLAPS

-----------------------------------------------------------------------------
(* Induction *)

NatLess == {p \in Nat \X Nat : p[1] < p[2]}

\* The natural numbers have no endless descent.
LEMMA NatLessWellFounded == IsWellFoundedOn(NatLess, Nat)
  BY NatLessThanWellFounded DEF NatLess, OpToRel

\* A non-empty set of natural numbers has a least element.
LEMMA LeastNumber ==
  ASSUME NEW S, S \subseteq Nat, S # {}
  PROVE  \E n \in S : \A m \in S : n <= m
<1>1. PICK n \in S : \A m \in S : ~(<<m, n>> \in NatLess)
  BY NatLessWellFounded, WFMin
<1>2. ASSUME NEW m \in S PROVE n <= m
  <2>1. m \in Nat /\ n \in Nat
    OBVIOUS
  <2>2. ~(m < n)
    BY <1>1, <2>1 DEF NatLess
  <2> QED
    BY <2>1, <2>2
<1> QED
  BY <1>2

\* Induction over the natural numbers.
LEMMA NumberInduction ==
  ASSUME NEW Good, 0 \in Good, \A n \in Nat : n \in Good => n + 1 \in Good
  PROVE  Nat \subseteq Good
<1> SUFFICES ASSUME NEW k \in Nat, k \notin Good PROVE FALSE
  OBVIOUS
<1> DEFINE Bad == {n \in Nat : n \notin Good}
<1>1. PICK n \in Bad : \A m \in Bad : n <= m
  <2>1. Bad \subseteq Nat /\ Bad # {}
    OBVIOUS
  <2> HIDE DEF Bad
  <2> QED
    BY <2>1, LeastNumber
<1>2. n \in Nat /\ n # 0 /\ n \notin Good
  OBVIOUS
<1>3. n - 1 \in Nat /\ (n - 1) + 1 = n
  BY <1>2
<1>4. n - 1 \in Good
  BY <1>1, <1>3
<1> QED
  BY <1>2, <1>3, <1>4

\* Induction over the subsets of a finite set: a set is good as soon as it is
\* good without any one of its elements.
LEMMA SubsetInduction ==
  ASSUME NEW S, IsFiniteSet(S), NEW Good,
         \A T \in SUBSET S : (\A x \in T : T \ {x} \in Good) => T \in Good
  PROVE  SUBSET S \subseteq Good
<1> SUFFICES ASSUME NEW V \in SUBSET S, V \notin Good PROVE FALSE
  OBVIOUS
<1> DEFINE Bad == {T \in SUBSET S : T \notin Good}
           Sizes == {Cardinality(T) : T \in Bad}
<1>1. \A T \in SUBSET S : IsFiniteSet(T) /\ Cardinality(T) \in Nat
  BY FS_Subset, FS_CardinalityType
<1>2. PICK n \in Sizes : \A m \in Sizes : n <= m
  <2>1. Sizes \subseteq Nat /\ Sizes # {}
    BY <1>1
  <2> HIDE DEF Sizes
  <2> QED
    BY <2>1, LeastNumber
<1>3. PICK T \in Bad : n = Cardinality(T)
  OBVIOUS
<1>4. ASSUME NEW x \in T PROVE T \ {x} \in Good
  <2>1. T \ {x} \in SUBSET S
    OBVIOUS
  <2>2. Cardinality(T \ {x}) = Cardinality(T) - 1
    BY <1>1, FS_RemoveElement
  <2>3. Cardinality(T \ {x}) \in Nat /\ n \in Nat /\ Cardinality(T \ {x}) < n
    BY <1>1, <1>3, <2>1, <2>2
  <2>4. Cardinality(T \ {x}) \notin Sizes
    BY <1>2, <2>3
  <2> QED
    BY <2>1, <2>4
<1> QED
  BY <1>4

\* A function has no more values than arguments.
LEMMA FiniteRange ==
  ASSUME NEW S, IsFiniteSet(S), NEW f, DOMAIN f = S, f = [x \in S |-> f[x]]
  PROVE  IsFiniteSet({f[x] : x \in S})
<1> DEFINE T == {f[x] : x \in S}
<1>1. f \in Surjection(S, T)
  BY DEF Surjection
<1> QED
  BY <1>1, FS_Surjection

-----------------------------------------------------------------------------
(* The recursion behind a sum *)

First(T) == CHOOSE x \in T : TRUE

\* g[T] is the sum over T, for every subset T of S.
Recursion(g, f, S) ==
    g = [T \in SUBSET S |->
           IF T = {} THEN 0 ELSE f[First(T)] + g[T \ {First(T)}]]

\* Of a set that is not empty, First is an element.
LEMMA FirstIn == ASSUME NEW T, T # {} PROVE First(T) \in T
  BY DEF First

\* The recursions over two finite sets agree on the smaller one.
LEMMA RecursionUnique ==
  ASSUME NEW S, IsFiniteSet(S), NEW f, NEW g, NEW h, NEW R, R \in SUBSET S,
         Recursion(g, f, S), Recursion(h, f, R)
  PROVE  g[R] = h[R]
<1> DEFINE Good == {T \in SUBSET R : g[T] = h[T]}
<1>1. IsFiniteSet(R)
  BY FS_Subset
<1>2. ASSUME NEW T \in SUBSET R, \A x \in T : T \ {x} \in Good
      PROVE  T \in Good
  <2>1. T \in SUBSET S
    OBVIOUS
  <2>2. /\ g[T] = IF T = {} THEN 0 ELSE f[First(T)] + g[T \ {First(T)}]
        /\ h[T] = IF T = {} THEN 0 ELSE f[First(T)] + h[T \ {First(T)}]
    BY <2>1 DEF Recursion
  <2>3. T # {} => g[T \ {First(T)}] = h[T \ {First(T)}]
    BY <1>2, FirstIn
  <2> QED
    BY <2>2, <2>3
<1> HIDE DEF Good
<1>3. SUBSET R \subseteq Good
  BY <1>1, <1>2, SubsetInduction
<1>4. R \in Good
  BY <1>3
<1> QED
  BY <1>4 DEF Good

\* There is a function that satisfies the recursion over a finite set.
LEMMA RecursionExists ==
  ASSUME NEW S, IsFiniteSet(S), NEW f
  PROVE  \E g : Recursion(g, f, S)
<1> DEFINE Good == {T \in SUBSET S : \A V \in SUBSET T : \E g : Recursion(g, f, V)}
           G(V) == CHOOSE g : Recursion(g, f, V)
<1>1. ASSUME NEW T \in SUBSET S, \A x \in T : T \ {x} \in Good
      PROVE  T \in Good
  <2>1. \A V \in SUBSET T : V # T => Recursion(G(V), f, V)
    <3> SUFFICES ASSUME NEW V \in SUBSET T, V # T PROVE Recursion(G(V), f, V)
      OBVIOUS
    <3>1. PICK x \in T : x \notin V
      OBVIOUS
    <3>2. V \in SUBSET (T \ {x})
      BY <3>1
    <3>3. \E g : Recursion(g, f, V)
      BY <1>1, <3>2
    <3> QED
      BY <3>3
  <2> DEFINE First1 == First(T)
             top == IF T = {} THEN 0 ELSE f[First(T)] + G(T \ {First(T)})[T \ {First(T)}]
             h == [V \in SUBSET T |-> IF V = T THEN top ELSE G(V)[V]]
  <2> HIDE DEF G
  <2>2. ASSUME NEW V \in SUBSET T
        PROVE  h[V] = IF V = {} THEN 0 ELSE f[First(V)] + h[V \ {First(V)}]
    <3>1. CASE V = {}
      <4>1. CASE V = T
        BY <3>1, <4>1
      <4>2. CASE V # T
        <5>1. Recursion(G(V), f, V)
          BY <2>1, <4>2
        <5>2. G(V)[V] = 0
          BY <3>1, <5>1 DEF Recursion
        <5> QED
          BY <3>1, <4>2, <5>2
      <4> QED
        BY <4>1, <4>2
    <3>2. CASE V # {}
      <4> DEFINE W == V \ {First(V)}
      <4>1. W \in SUBSET T /\ W # T /\ W \in SUBSET V
        BY <3>2, FirstIn
      <4>2. h[W] = G(W)[W]
        BY <4>1
      <4>3. CASE V = T
        BY <3>2, <4>2, <4>3
      <4>4. CASE V # T
        <5>1. Recursion(G(V), f, V) /\ Recursion(G(W), f, W)
          BY <2>1, <4>1, <4>4
        <5>2. IsFiniteSet(V)
          <6>1. V \in SUBSET S
            OBVIOUS
          <6> QED
            BY <6>1, FS_Subset
        <5>3. G(V)[W] = G(W)[W]
          <6> HIDE DEF W
          <6> QED
            BY <4>1, <5>1, <5>2, RecursionUnique
        <5>4. G(V)[V] = f[First(V)] + G(V)[W]
          BY <3>2, <5>1 DEF Recursion
        <5> QED
          BY <3>2, <4>2, <4>4, <5>3, <5>4
      <4> QED
        BY <4>3, <4>4
    <3> QED
      BY <3>1, <3>2
  <2>3. Recursion(h, f, T)
    <3>1. h = [V \in SUBSET T |-> h[V]]
      OBVIOUS
    <3> HIDE DEF h
    <3> QED
      BY <2>2, <3>1 DEF Recursion
  <2>4. ASSUME NEW V \in SUBSET T PROVE \E g : Recursion(g, f, V)
    <3>1. CASE V = T
      <4> HIDE DEF h
      <4> QED
        BY <2>3, <3>1
    <3>2. CASE V # T
      BY <2>1, <3>2
    <3> QED
      BY <3>1, <3>2
  <2> QED
    BY <2>4
<1> HIDE DEF Good
<1>2. SUBSET S \subseteq Good
  BY <1>1, SubsetInduction
<1>3. S \in Good
  BY <1>2
<1> QED
  BY <1>3 DEF Good

\* The sum of the library is the value of that recursion.
LEMMA SumIsRecursive ==
  ASSUME NEW S, NEW f
  PROVE  SumFunctionOnSet(f, S) = (CHOOSE g : Recursion(g, f, S))[S]
  BY DEF SumFunctionOnSet, FoldFunctionOnSet, MapThenFoldSet, Recursion, First

-----------------------------------------------------------------------------
(* Sums *)

\* The sum takes one element after the other.
LEMMA SumStep ==
  ASSUME NEW S, IsFiniteSet(S), NEW f
  PROVE  SumFunctionOnSet(f, S) = IF S = {} THEN 0
                       ELSE f[First(S)] + SumFunctionOnSet(f, S \ {First(S)})
<1> DEFINE g == CHOOSE g : Recursion(g, f, S)
           R == S \ {First(S)}
           h == CHOOSE h : Recursion(h, f, R)
<1>1. R \in SUBSET S /\ IsFiniteSet(R)
  BY FS_Subset
<1>2. Recursion(g, f, S)
  BY RecursionExists
<1>3. Recursion(h, f, R)
  <2> HIDE DEF R
  <2> QED
    BY <1>1, RecursionExists
<1>4. SumFunctionOnSet(f, S) = g[S] /\ SumFunctionOnSet(f, R) = h[R]
  <2> HIDE DEF R
  <2> QED
    BY SumIsRecursive
<1> HIDE DEF g, h
<1>5. g[R] = h[R]
  <2> HIDE DEF R
  <2> QED
    BY <1>1, <1>2, <1>3, RecursionUnique
<1>6. g[S] = IF S = {} THEN 0 ELSE f[First(S)] + g[R]
  BY <1>2 DEF Recursion
<1> QED
  BY <1>4, <1>5, <1>6

\* Nothing adds up to 0.
LEMMA SumEmpty == \A f : SumFunctionOnSet(f, {}) = 0
  BY SumStep, FS_EmptySet

\* A sum of integers is an integer.
LEMMA SumInt ==
  ASSUME NEW S, IsFiniteSet(S), NEW f, \A x \in S : f[x] \in Int
  PROVE  SumFunctionOnSet(f, S) \in Int
<1> DEFINE Good == {T \in SUBSET S : SumFunctionOnSet(f, T) \in Int}
<1>1. ASSUME NEW T \in SUBSET S, \A x \in T : T \ {x} \in Good
      PROVE  T \in Good
  <2>1. IsFiniteSet(T)
    BY FS_Subset
  <2>2. CASE T = {}
    BY <2>2, SumEmpty
  <2>3. CASE T # {}
    <3>1. First(T) \in T /\ f[First(T)] \in Int
      BY <2>3, FirstIn
    <3>2. SumFunctionOnSet(f, T \ {First(T)}) \in Int
      BY <1>1, <3>1
    <3>3. SumFunctionOnSet(f, T) = f[First(T)] + SumFunctionOnSet(f, T \ {First(T)})
      BY <2>1, <2>3, SumStep
    <3> QED
      BY <3>1, <3>2, <3>3
  <2> QED
    BY <2>2, <2>3
<1> HIDE DEF Good
<1>2. SUBSET S \subseteq Good
  BY <1>1, SubsetInduction
<1> QED
  BY <1>2 DEF Good

\* Any element may be taken out first.
LEMMA SumRemove ==
  ASSUME NEW S, IsFiniteSet(S), NEW f, \A x \in S : f[x] \in Int, NEW y \in S
  PROVE  SumFunctionOnSet(f, S) = f[y] + SumFunctionOnSet(f, S \ {y})
<1> DEFINE Good == {T \in SUBSET S :
                      \A x \in T :
                        SumFunctionOnSet(f, T) = f[x] + SumFunctionOnSet(f, T \ {x})}
<1>1. ASSUME NEW T \in SUBSET S, \A x \in T : T \ {x} \in Good
      PROVE  T \in Good
  <2> SUFFICES ASSUME NEW x \in T
               PROVE  SumFunctionOnSet(f, T) = f[x] + SumFunctionOnSet(f, T \ {x})
    OBVIOUS
  <2> DEFINE p == First(T)
             rest == (T \ {p}) \ {x}
  <2>1. /\ p \in T /\ IsFiniteSet(T)
        /\ SumFunctionOnSet(f, T) = f[p] + SumFunctionOnSet(f, T \ {p})
    BY FirstIn, SumStep, FS_Subset
  <2> HIDE DEF p
  <2>2. CASE x = p
    BY <2>1, <2>2
  <2>3. CASE x # p
    <3>1. SumFunctionOnSet(f, T \ {p}) = f[x] + SumFunctionOnSet(f, rest)
      BY <1>1, <2>1, <2>3
    <3>2. SumFunctionOnSet(f, T \ {x}) = f[p] + SumFunctionOnSet(f, rest)
      <4>1. (T \ {x}) \ {p} = rest
        OBVIOUS
      <4> QED
        BY <1>1, <2>1, <2>3, <4>1
    <3>3. SumFunctionOnSet(f, rest) \in Int
      <4>1. IsFiniteSet(rest) /\ rest \subseteq S
        BY FS_Subset
      <4> HIDE DEF rest
      <4> QED
        BY <4>1, SumInt
    <3>4. f[x] \in Int /\ f[p] \in Int
      BY <2>1
    <3> HIDE DEF rest
    <3> QED
      BY <2>1, <3>1, <3>2, <3>3, <3>4
  <2> QED
    BY <2>2, <2>3
<1> HIDE DEF Good
<1>2. SUBSET S \subseteq Good
  BY <1>1, SubsetInduction
<1>3. S \in Good
  BY <1>2
<1> QED
  BY <1>3 DEF Good

\* One more element.
LEMMA SumAdd ==
  ASSUME NEW S, IsFiniteSet(S), NEW y, y \notin S, NEW f,
         \A x \in S : f[x] \in Int, f[y] \in Int
  PROVE  SumFunctionOnSet(f, S \cup {y}) = f[y] + SumFunctionOnSet(f, S)
<1>1. IsFiniteSet(S \cup {y}) /\ (S \cup {y}) \ {y} = S
  BY FS_AddElement
<1>2. \A x \in S \cup {y} : f[x] \in Int
  OBVIOUS
<1> QED
  BY <1>1, <1>2, SumRemove

\* A single value is its own sum.
LEMMA SumSingle ==
  ASSUME NEW y, NEW f, f[y] \in Int
  PROVE  SumFunctionOnSet(f, {y}) = f[y]
<1>1. SumFunctionOnSet(f, {} \cup {y}) = f[y] + SumFunctionOnSet(f, {})
  BY SumAdd, FS_EmptySet
<1>2. {} \cup {y} = {y}
  OBVIOUS
<1> QED
  BY <1>1, <1>2, SumEmpty

\* Larger values give no smaller sum.
LEMMA SumLeq ==
  ASSUME NEW S, IsFiniteSet(S), NEW f, NEW g,
         \A x \in S : f[x] \in Int /\ g[x] \in Int /\ f[x] <= g[x]
  PROVE  SumFunctionOnSet(f, S) <= SumFunctionOnSet(g, S)
<1> DEFINE Good == {T \in SUBSET S : SumFunctionOnSet(f, T) <= SumFunctionOnSet(g, T)}
<1>1. ASSUME NEW T \in SUBSET S, \A x \in T : T \ {x} \in Good
      PROVE  T \in Good
  <2>1. CASE T = {}
    BY <2>1, SumEmpty
  <2>2. CASE T # {}
    <3> DEFINE p == First(T)
               R == T \ {p}
    <3>1. p \in T /\ IsFiniteSet(T) /\ IsFiniteSet(R)
      BY <2>2, FirstIn, FS_Subset
    <3>2. /\ SumFunctionOnSet(f, T) = f[p] + SumFunctionOnSet(f, R)
          /\ SumFunctionOnSet(g, T) = g[p] + SumFunctionOnSet(g, R)
      BY <2>2, <3>1, SumStep
    <3>3. R \in Good
      BY <1>1, <3>1
    <3>4. SumFunctionOnSet(f, R) \in Int /\ SumFunctionOnSet(g, R) \in Int
      <4>1. \A x \in R : f[x] \in Int /\ g[x] \in Int
        OBVIOUS
      <4> HIDE DEF R
      <4> QED
        BY <3>1, <4>1, SumInt
    <3>5. /\ SumFunctionOnSet(f, R) <= SumFunctionOnSet(g, R)
          /\ f[p] \in Int /\ g[p] \in Int /\ f[p] <= g[p]
      BY <3>1, <3>3
    <3> HIDE DEF p, R
    <3> QED
      BY <3>2, <3>4, <3>5
  <2> QED
    BY <2>1, <2>2
<1> HIDE DEF Good
<1>2. SUBSET S \subseteq Good
  BY <1>1, SubsetInduction
<1>3. S \in Good
  BY <1>2
<1> QED
  BY <1>3 DEF Good

\* Only the values on the set count.
LEMMA SumSame ==
  ASSUME NEW S, IsFiniteSet(S), NEW f, NEW g,
         \A x \in S : f[x] \in Int /\ f[x] = g[x]
  PROVE  SumFunctionOnSet(f, S) = SumFunctionOnSet(g, S)
<1>1. /\ SumFunctionOnSet(f, S) <= SumFunctionOnSet(g, S)
      /\ SumFunctionOnSet(g, S) <= SumFunctionOnSet(f, S)
  <2>1. \A x \in S : f[x] \in Int /\ g[x] \in Int /\ f[x] <= g[x] /\ g[x] <= f[x]
    OBVIOUS
  <2> QED
    BY <2>1, SumLeq
<1>2. SumFunctionOnSet(f, S) \in Int /\ SumFunctionOnSet(g, S) \in Int
  BY SumInt
<1> QED
  BY <1>1, <1>2

\* Sums over disjoint sets add up.
LEMMA SumUnion ==
  ASSUME NEW A, NEW B, IsFiniteSet(A), IsFiniteSet(B), A \cap B = {}, NEW f,
         \A x \in A \cup B : f[x] \in Int
  PROVE  SumFunctionOnSet(f, A \cup B) = SumFunctionOnSet(f, A) + SumFunctionOnSet(f, B)
<1> DEFINE Good == {T \in SUBSET B :
                      SumFunctionOnSet(f, A \cup T) = SumFunctionOnSet(f, A) + SumFunctionOnSet(f, T)}
<1>0. SumFunctionOnSet(f, A) \in Int
  BY SumInt
<1>1. ASSUME NEW T \in SUBSET B, \A x \in T : T \ {x} \in Good
      PROVE  T \in Good
  <2>1. CASE T = {}
    <3>1. A \cup T = A /\ SumFunctionOnSet(f, T) = 0
      BY <2>1, SumEmpty
    <3> QED
      BY <1>0, <3>1
  <2>2. CASE T # {}
    <3>1. PICK p \in T : TRUE
      BY <2>2
    <3> DEFINE R == T \ {p}
    <3>2. IsFiniteSet(T) /\ IsFiniteSet(R) /\ IsFiniteSet(A \cup T)
      BY FS_Subset, FS_Union
    <3>3. SumFunctionOnSet(f, T) = f[p] + SumFunctionOnSet(f, R)
      BY <3>2, SumRemove
    <3>4. SumFunctionOnSet(f, A \cup T) = f[p] + SumFunctionOnSet(f, A \cup R)
      <4>1. p \in A \cup T /\ (A \cup T) \ {p} = A \cup R
        OBVIOUS
      <4>2. \A x \in A \cup T : f[x] \in Int
        OBVIOUS
      <4> QED
        BY <3>2, <4>1, <4>2, SumRemove
    <3>5. SumFunctionOnSet(f, A \cup R) = SumFunctionOnSet(f, A) + SumFunctionOnSet(f, R)
      BY <1>1
    <3>6. SumFunctionOnSet(f, R) \in Int
      <4>1. \A x \in R : f[x] \in Int
        OBVIOUS
      <4> HIDE DEF R
      <4> QED
        BY <3>2, <4>1, SumInt
    <3>7. f[p] \in Int
      OBVIOUS
    <3> HIDE DEF R
    <3> QED
      BY <1>0, <3>3, <3>4, <3>5, <3>6, <3>7
  <2> QED
    BY <2>1, <2>2
<1> HIDE DEF Good
<1>2. SUBSET B \subseteq Good
  BY <1>1, SubsetInduction
<1>3. B \in Good
  BY <1>2
<1> QED
  BY <1>3 DEF Good

\* The sum of sums.
LEMMA SumPlus ==
  ASSUME NEW S, IsFiniteSet(S), NEW f, NEW g, NEW h,
         \A x \in S : f[x] \in Int /\ g[x] \in Int /\ h[x] = f[x] + g[x]
  PROVE  SumFunctionOnSet(h, S) = SumFunctionOnSet(f, S) + SumFunctionOnSet(g, S)
<1> DEFINE Good == {T \in SUBSET S :
                      SumFunctionOnSet(h, T) = SumFunctionOnSet(f, T) + SumFunctionOnSet(g, T)}
<1>1. ASSUME NEW T \in SUBSET S, \A x \in T : T \ {x} \in Good
      PROVE  T \in Good
  <2>1. CASE T = {}
    BY <2>1, SumEmpty
  <2>2. CASE T # {}
    <3> DEFINE p == First(T)
               R == T \ {p}
    <3>1. p \in T /\ IsFiniteSet(T) /\ IsFiniteSet(R)
      BY <2>2, FirstIn, FS_Subset
    <3>2. /\ SumFunctionOnSet(f, T) = f[p] + SumFunctionOnSet(f, R)
          /\ SumFunctionOnSet(g, T) = g[p] + SumFunctionOnSet(g, R)
          /\ SumFunctionOnSet(h, T) = h[p] + SumFunctionOnSet(h, R)
      BY <2>2, <3>1, SumStep
    <3>3. SumFunctionOnSet(h, R) = SumFunctionOnSet(f, R) + SumFunctionOnSet(g, R)
      BY <1>1, <3>1
    <3>4. SumFunctionOnSet(f, R) \in Int /\ SumFunctionOnSet(g, R) \in Int
      <4>1. \A x \in R : f[x] \in Int /\ g[x] \in Int
        OBVIOUS
      <4> HIDE DEF R
      <4> QED
        BY <3>1, <4>1, SumInt
    <3>5. f[p] \in Int /\ g[p] \in Int /\ h[p] = f[p] + g[p]
      BY <3>1
    <3> HIDE DEF p, R
    <3>6. SumFunctionOnSet(h, T) = SumFunctionOnSet(f, T) + SumFunctionOnSet(g, T)
      BY <3>2, <3>3, <3>4, <3>5
    <3> QED
      BY <3>6
  <2> QED
    BY <2>1, <2>2
<1> HIDE DEF Good
<1>2. SUBSET S \subseteq Good
  BY <1>1, SubsetInduction
<1>3. S \in Good
  BY <1>2
<1> QED
  BY <1>3 DEF Good

\* The same for everybody.
LEMMA SumConst ==
  ASSUME NEW S, IsFiniteSet(S), NEW f, NEW c \in Int, \A x \in S : f[x] = c
  PROVE  SumFunctionOnSet(f, S) = c * Cardinality(S)
<1> DEFINE Good == {T \in SUBSET S : SumFunctionOnSet(f, T) = c * Cardinality(T)}
<1>1. ASSUME NEW T \in SUBSET S, \A x \in T : T \ {x} \in Good
      PROVE  T \in Good
  <2>1. CASE T = {}
    <3>1. Cardinality({}) = 0
      BY FS_EmptySet
    <3> QED
      BY <2>1, <3>1, SumEmpty
  <2>2. CASE T # {}
    <3> DEFINE p == First(T)
               R == T \ {p}
    <3>1. p \in T /\ IsFiniteSet(T) /\ IsFiniteSet(R)
      BY <2>2, FirstIn, FS_Subset
    <3>2. SumFunctionOnSet(f, T) = f[p] + SumFunctionOnSet(f, R) /\ f[p] = c
      BY <2>2, <3>1, SumStep
    <3>3. SumFunctionOnSet(f, R) = c * Cardinality(R)
      BY <1>1, <3>1
    <3>4. Cardinality(R) = Cardinality(T) - 1 /\ Cardinality(T) \in Nat
      BY <3>1, FS_RemoveElement, FS_CardinalityType
    <3> HIDE DEF p, R
    <3>5. c * (Cardinality(T) - 1) = c * Cardinality(T) - c
      BY <3>4
    <3>6. c * Cardinality(T) \in Int
      BY <3>4
    <3>7. SumFunctionOnSet(f, T) = c * Cardinality(T)
      BY <3>2, <3>3, <3>4, <3>5, <3>6
    <3> QED
      BY <3>7
  <2> QED
    BY <2>1, <2>2
<1> HIDE DEF Good
<1>2. SUBSET S \subseteq Good
  BY <1>1, SubsetInduction
<1>3. S \in Good
  BY <1>2
<1> QED
  BY <1>3 DEF Good

\* Zeros add up to zero.
LEMMA SumZero ==
  ASSUME NEW S, IsFiniteSet(S), NEW f, \A x \in S : f[x] = 0
  PROVE  SumFunctionOnSet(f, S) = 0
<1>1. 0 \in Int
  OBVIOUS
<1>2. SumFunctionOnSet(f, S) = 0 * Cardinality(S)
  BY <1>1, SumConst
<1>3. Cardinality(S) \in Nat
  BY FS_CardinalityType
<1> QED
  BY <1>2, <1>3

\* Natural numbers add up to a natural number.
LEMMA SumNat ==
  ASSUME NEW S, IsFiniteSet(S), NEW f, \A x \in S : f[x] \in Nat
  PROVE  SumFunctionOnSet(f, S) \in Nat
<1> DEFINE z == [x \in S |-> 0]
<1>1. \A x \in S : z[x] \in Int /\ f[x] \in Int /\ z[x] <= f[x] /\ z[x] = 0
  OBVIOUS
<1> HIDE DEF z
<1>2. /\ SumFunctionOnSet(z, S) <= SumFunctionOnSet(f, S)
      /\ SumFunctionOnSet(z, S) = 0
      /\ SumFunctionOnSet(f, S) \in Int
  BY <1>1, SumLeq, SumZero, SumInt
<1> QED
  BY <1>2

\* One place to change: the sum changes by what the value there does.
LEMMA SumChange ==
  ASSUME NEW S, IsFiniteSet(S), NEW f, NEW g, NEW y \in S,
         \A x \in S : f[x] \in Int /\ g[x] \in Int,
         \A x \in S \ {y} : f[x] = g[x]
  PROVE  SumFunctionOnSet(g, S) = SumFunctionOnSet(f, S) + g[y] - f[y]
<1> DEFINE R == S \ {y}
<1>1. /\ SumFunctionOnSet(f, S) = f[y] + SumFunctionOnSet(f, R)
      /\ SumFunctionOnSet(g, S) = g[y] + SumFunctionOnSet(g, R)
  BY SumRemove
<1>2. IsFiniteSet(R) /\ \A x \in R : f[x] \in Int /\ f[x] = g[x]
  BY FS_Subset
<1> HIDE DEF R
<1>3. SumFunctionOnSet(f, R) = SumFunctionOnSet(g, R) /\ SumFunctionOnSet(f, R) \in Int
  BY <1>2, SumSame, SumInt
<1> QED
  BY <1>1, <1>3

\* The elements may be renamed.
LEMMA SumRenamed ==
  ASSUME NEW S, IsFiniteSet(S), NEW b, NEW f, NEW g,
         \A x, y \in S : b[x] = b[y] => x = y,
         \A x \in S : f[x] \in Int /\ g[b[x]] = f[x]
  PROVE  SumFunctionOnSet(g, {b[x] : x \in S}) = SumFunctionOnSet(f, S)
<1> DEFINE Image(T) == {b[x] : x \in T}
           Good == {T \in SUBSET S : IsFiniteSet(Image(T))
                                     /\ SumFunctionOnSet(g, Image(T)) = SumFunctionOnSet(f, T)}
<1>1. ASSUME NEW T \in SUBSET S, \A x \in T : T \ {x} \in Good
      PROVE  T \in Good
  <2>1. CASE T = {}
    <3>1. Image(T) = {}
      BY <2>1
    <3> QED
      BY <2>1, <3>1, SumEmpty, FS_EmptySet
  <2>2. CASE T # {}
    <3> DEFINE p == First(T)
               R == T \ {p}
    <3>1. p \in T /\ IsFiniteSet(T) /\ R \subseteq S
      BY <2>2, FirstIn, FS_Subset
    <3>2. Image(T) = Image(R) \cup {b[p]} /\ b[p] \notin Image(R)
      BY <3>1
    <3>3. IsFiniteSet(Image(R)) /\ SumFunctionOnSet(g, Image(R)) = SumFunctionOnSet(f, R)
      BY <1>1, <3>1
    <3>4. \A y \in Image(R) : g[y] \in Int
      BY <3>1
    <3>5. g[b[p]] = f[p] /\ f[p] \in Int
      BY <3>1
    <3>6. SumFunctionOnSet(f, T) = f[p] + SumFunctionOnSet(f, R)
      BY <2>2, <3>1, SumStep
    <3> HIDE DEF Image, R, p
    <3>7. IsFiniteSet(Image(T))
      BY <3>2, <3>3, FS_AddElement
    <3>8. SumFunctionOnSet(g, Image(T)) = g[b[p]] + SumFunctionOnSet(g, Image(R))
      <4> DEFINE I == Image(R)
                 q == b[p]
      <4>1. IsFiniteSet(I) /\ q \notin I /\ g[q] \in Int /\ \A y \in I : g[y] \in Int
        BY <3>2, <3>3, <3>4, <3>5
      <4> HIDE DEF I, q
      <4>2. SumFunctionOnSet(g, I \cup {q}) = g[q] + SumFunctionOnSet(g, I)
        BY <4>1, SumAdd
      <4> QED
        BY <3>2, <4>2 DEF I, q
    <3> QED
      BY <3>3, <3>5, <3>6, <3>7, <3>8
  <2> QED
    BY <2>1, <2>2
<1> HIDE DEF Good
<1>2. SUBSET S \subseteq Good
  BY <1>1, SubsetInduction
<1>3. S \in Good
  BY <1>2
<1> QED
  BY <1>3 DEF Good

\* What is natural and vanishes outside of B sums to no more on A than on B.
LEMMA SumWithin ==
  ASSUME NEW A, NEW B, IsFiniteSet(A), IsFiniteSet(B), NEW f,
         \A x \in A \cup B : f[x] \in Nat,
         \A x \in A \ B : f[x] = 0
  PROVE  SumFunctionOnSet(f, A) <= SumFunctionOnSet(f, B)
<1> DEFINE I == A \cap B
           O == A \ B
           R == B \ A
<1>1. IsFiniteSet(I) /\ IsFiniteSet(O) /\ IsFiniteSet(R)
  BY FS_Subset
<1>2. I \cup O = A /\ I \cup R = B /\ I \cap O = {} /\ I \cap R = {}
  OBVIOUS
<1>3. /\ \A x \in I \cup O : f[x] \in Int
      /\ \A x \in I \cup R : f[x] \in Int
      /\ \A x \in I \cup R : f[x] \in Nat
      /\ \A x \in O : f[x] = 0
  OBVIOUS
<1> HIDE DEF I, O, R
<1>4. SumFunctionOnSet(f, I \cup O) = SumFunctionOnSet(f, I) + SumFunctionOnSet(f, O)
  BY <1>1, <1>2, <1>3, SumUnion
<1>5. SumFunctionOnSet(f, I \cup R) = SumFunctionOnSet(f, I) + SumFunctionOnSet(f, R)
  BY <1>1, <1>2, <1>3, SumUnion
<1>6. SumFunctionOnSet(f, O) = 0
  BY <1>1, <1>3, SumZero
<1>7. SumFunctionOnSet(f, R) \in Nat
  BY <1>1, <1>3, SumNat
<1>8. SumFunctionOnSet(f, I) \in Nat
  BY <1>1, <1>3, SumNat
<1> QED
  BY <1>2, <1>4, <1>5, <1>6, <1>7, <1>8

\* What is taken in n steps is what there was less what is left.
LEMMA SumTelescope ==
  ASSUME NEW n \in Nat, NEW a, \A i \in 0 .. n : a[i] \in Int,
         NEW f, \A i \in 1 .. n : f[i] = a[i - 1] - a[i]
  PROVE  SumFunctionOnSet(f, 1 .. n) = a[0] - a[n]
<1> DEFINE Good == {k \in Nat : k <= n => SumFunctionOnSet(f, 1 .. k) = a[0] - a[k]}
<1>1. 0 \in Good
  <2>1. 1 .. 0 = {}
    OBVIOUS
  <2>2. SumFunctionOnSet(f, 1 .. 0) = 0 /\ a[0] - a[0] = 0
    BY <2>1, SumEmpty
  <2> QED
    BY <2>2
<1>2. ASSUME NEW k \in Nat, k \in Good PROVE k + 1 \in Good
  <2>1. CASE k + 1 > n
    BY <2>1
  <2>2. CASE k + 1 <= n
    <3> DEFINE S == 1 .. k
               y == k + 1
    <3>1. S \cup {y} = 1 .. k + 1 /\ y \notin S /\ y - 1 = k
      OBVIOUS
    <3>2. \A i \in 1 .. y : i \in 1 .. n /\ i \in 0 .. n /\ i - 1 \in 0 .. n
      BY <2>2
    <3>3. a[y] \in Int /\ a[k] \in Int /\ a[0] \in Int /\ f[y] = a[k] - a[y]
      BY <2>2, <3>1
    <3>4. \A i \in S : f[i] \in Int
      BY <3>2
    <3>5. IsFiniteSet(S)
      BY FS_Interval
    <3>6. SumFunctionOnSet(f, S) = a[0] - a[k]
      BY <1>2, <2>2
    <3> HIDE DEF S, y
    <3>7. f[y] \in Int
      BY <3>3
    <3>8. SumFunctionOnSet(f, S \cup {y}) = f[y] + SumFunctionOnSet(f, S)
      BY <3>1, <3>4, <3>5, <3>7, SumAdd
    <3>9. SumFunctionOnSet(f, S \cup {y}) = a[0] - a[y]
      BY <3>3, <3>6, <3>8
    <3>10. SumFunctionOnSet(f, 1 .. k + 1) = a[0] - a[k + 1]
      BY <3>1, <3>9 DEF y
    <3> QED
      BY <3>10
  <2> QED
    BY <2>1, <2>2
<1> HIDE DEF Good
<1>3. n \in Good
  BY <1>1, <1>2, NumberInduction
<1> QED
  BY <1>3 DEF Good

\* Arguments that are worth nothing may be left out.
LEMMA SumPart ==
  ASSUME NEW S, IsFiniteSet(S), NEW T, T \subseteq S, NEW f, NEW g,
         \A x \in T : f[x] \in Int /\ g[x] = f[x],
         \A x \in S \ T : f[x] = 0
  PROVE  SumFunctionOnSet(f, S) = SumFunctionOnSet(g, T)
<1>1. IsFiniteSet(T) /\ IsFiniteSet(S \ T)
  BY FS_Subset
<1>2. T \cap (S \ T) = {} /\ T \cup (S \ T) = S
  OBVIOUS
<1>3. \A x \in T \cup (S \ T) : f[x] \in Int
  OBVIOUS
<1>4. SumFunctionOnSet(f, T \cup (S \ T))
        = SumFunctionOnSet(f, T) + SumFunctionOnSet(f, S \ T)
  BY <1>1, <1>2, <1>3, SumUnion
<1>5. SumFunctionOnSet(f, S \ T) = 0
  BY <1>1, SumZero
<1>6. SumFunctionOnSet(f, T) = SumFunctionOnSet(g, T)
  BY <1>1, SumSame
<1>7. SumFunctionOnSet(f, T) \in Int
  BY <1>1, SumInt
<1>8. SumFunctionOnSet(f, S)
        = SumFunctionOnSet(f, T) + SumFunctionOnSet(f, S \ T)
  BY <1>2, <1>4
<1> QED
  BY <1>5, <1>6, <1>7, <1>8

-----------------------------------------------------------------------------
(* Sums of multiples, of sums and over joined ranges *)

\* A common factor.
LEMMA SumScale ==
  ASSUME NEW S, IsFiniteSet(S), NEW f, NEW g, NEW c \in Int,
         \A x \in S : f[x] \in Int /\ g[x] = c * f[x]
  PROVE  SumFunctionOnSet(g, S) = c * SumFunctionOnSet(f, S)
<1> DEFINE Good == {T \in SUBSET S :
                      SumFunctionOnSet(g, T) = c * SumFunctionOnSet(f, T)}
<1>1. ASSUME NEW T \in SUBSET S, \A x \in T : T \ {x} \in Good
      PROVE  T \in Good
  <2>1. CASE T = {}
    BY <2>1, SumEmpty
  <2>2. CASE T # {}
    <3> DEFINE p == First(T)
               R == T \ {p}
               s == SumFunctionOnSet(f, R)
    <3>1. p \in T /\ IsFiniteSet(T) /\ IsFiniteSet(R)
      BY <2>2, FirstIn, FS_Subset
    <3>2. /\ SumFunctionOnSet(f, T) = f[p] + s
          /\ SumFunctionOnSet(g, T) = g[p] + SumFunctionOnSet(g, R)
      BY <2>2, <3>1, SumStep
    <3>3. SumFunctionOnSet(g, R) = c * s
      BY <1>1, <3>1
    <3>4. s \in Int
      <4>1. \A x \in R : f[x] \in Int
        OBVIOUS
      <4> HIDE DEF R
      <4> QED
        BY <3>1, <4>1, SumInt
    <3>5. f[p] \in Int /\ g[p] = c * f[p]
      BY <3>1
    <3> HIDE DEF p, R, s
    <3>6. c * (f[p] + s) = c * f[p] + c * s
      BY <3>4, <3>5
    <3>7. SumFunctionOnSet(g, T) = c * SumFunctionOnSet(f, T)
      BY <3>2, <3>3, <3>5, <3>6
    <3> QED
      BY <3>7
  <2> QED
    BY <2>1, <2>2
<1> HIDE DEF Good
<1>2. SUBSET S \subseteq Good
  BY <1>1, SubsetInduction
<1>3. S \in Good
  BY <1>2
<1> QED
  BY <1>3 DEF Good

SumsOf(f, S, T) == [x \in S |-> SumFunctionOnSet(f[x], T)]

\* A table adds up to the same by rows and by columns.
LEMMA SumSwap ==
  ASSUME NEW S, IsFiniteSet(S), NEW T, IsFiniteSet(T), NEW f,
         NEW g, \A x \in S, y \in T : f[x][y] \in Int /\ g[y][x] = f[x][y]
  PROVE  SumFunctionOnSet(SumsOf(f, S, T), S) = SumFunctionOnSet(SumsOf(g, T, S), T)
<1> DEFINE r == SumsOf(f, S, T)
           c == SumsOf(g, T, S)
           part(V) == [y \in T |-> SumFunctionOnSet(g[y], V)]
           Good == {V \in SUBSET S :
                      SumFunctionOnSet(r, V) = SumFunctionOnSet(part(V), T)}
<1>c. /\ \A x \in S : r[x] = SumFunctionOnSet(f[x], T)
      /\ \A y \in T : c[y] = SumFunctionOnSet(g[y], S)
  BY DEF SumsOf
<1> HIDE DEF r, c
<1>0. \A x \in S, y \in T : g[y][x] = f[x][y] /\ g[y][x] \in Int
  OBVIOUS
<1>a. ASSUME NEW V \in SUBSET S
      PROVE  /\ IsFiniteSet(V)
             /\ \A y \in T : /\ part(V)[y] = SumFunctionOnSet(g[y], V)
                             /\ part(V)[y] \in Int
  <2>1. IsFiniteSet(V)
    BY FS_Subset
  <2>2. ASSUME NEW y \in T PROVE SumFunctionOnSet(g[y], V) \in Int
    <3>1. \A x \in V : g[y][x] \in Int
      BY <1>0
    <3> QED
      BY <2>1, <3>1, SumInt
  <2> QED
    BY <2>1, <2>2
<1>b. ASSUME NEW x \in S PROVE r[x] \in Int
  BY <1>c, SumInt
<1>1. ASSUME NEW V \in SUBSET S, \A x \in V : V \ {x} \in Good
      PROVE  V \in Good
  <2>1. CASE V = {}
    <3>1. \A y \in T : part(V)[y] = 0
      BY <2>1, SumEmpty
    <3> HIDE DEF part
    <3>2. SumFunctionOnSet(part(V), T) = 0
      BY <3>1, SumZero
    <3>3. SumFunctionOnSet(r, V) = 0
      BY <2>1, SumEmpty
    <3> QED
      BY <3>2, <3>3
  <2>2. CASE V # {}
    <3> DEFINE p == First(V)
               R == V \ {p}
    <3>1. p \in V /\ p \in S /\ IsFiniteSet(V) /\ R \in SUBSET S
      BY <2>2, FirstIn, <1>a
    <3>2. SumFunctionOnSet(r, V) = r[p] + SumFunctionOnSet(r, R)
      BY <2>2, <3>1, SumStep
    <3>3. SumFunctionOnSet(r, R) = SumFunctionOnSet(part(R), T)
      BY <1>1, <3>1
    <3>4. r[p] = SumFunctionOnSet(f[p], T)
      BY <1>c, <3>1
    <3>5. ASSUME NEW y \in T
          PROVE  /\ f[p][y] \in Int /\ part(R)[y] \in Int
                 /\ part(V)[y] = f[p][y] + part(R)[y]
      <4>1. SumFunctionOnSet(g[y], V)
              = g[y][p] + SumFunctionOnSet(g[y], R)
        <5>1. \A x \in V : g[y][x] \in Int
          BY <1>0
        <5> HIDE DEF p
        <5> QED
          BY <2>2, <3>1, <5>1, SumRemove
      <4>2. g[y][p] = f[p][y] /\ f[p][y] \in Int
        BY <3>1
      <4>3. part(R)[y] \in Int
        BY <1>a, <3>1
      <4> QED
        BY <4>1, <4>2, <4>3
    <3> HIDE DEF part, p, R
    <3> DEFINE h == part(V)
               k == part(R)
               w == f[p]
    <3>6. \A y \in T : w[y] \in Int /\ k[y] \in Int /\ h[y] = w[y] + k[y]
      BY <3>5
    <3> HIDE DEF h, k, w
    <3>7. SumFunctionOnSet(h, T) = SumFunctionOnSet(w, T) + SumFunctionOnSet(k, T)
      BY <3>6, SumPlus
    <3>8. SumFunctionOnSet(r, V) = SumFunctionOnSet(part(V), T)
      BY <3>2, <3>3, <3>4, <3>7 DEF h, k, w
    <3> QED
      BY <3>8
  <2> QED
    BY <2>1, <2>2
<1> HIDE DEF Good
<1>2. SUBSET S \subseteq Good
  BY <1>1, SubsetInduction
<1>3. S \in Good
  BY <1>2
<1>4. SumFunctionOnSet(r, S) = SumFunctionOnSet(part(S), T)
  BY <1>3 DEF Good
<1>5. \A y \in T : part(S)[y] \in Int /\ part(S)[y] = c[y]
  <2>1. S \in SUBSET S
    OBVIOUS
  <2> QED
    BY <1>a, <1>c, <2>1
<1> HIDE DEF part
<1>6. SumFunctionOnSet(part(S), T) = SumFunctionOnSet(c, T)
  BY <1>5, SumSame
<1> QED
  BY <1>4, <1>6 DEF r, c

\* What each part of S that k makes comes to.
PartSums(f, k, S, V) == [v \in V |-> SumFunctionOnSet(f, {x \in S : k[x] = v})]

\* Sums may be taken part by part.
LEMMA SumParts ==
  ASSUME NEW S, IsFiniteSet(S), NEW V, IsFiniteSet(V), NEW f, NEW k,
         \A x \in S : f[x] \in Int /\ k[x] \in V
  PROVE  SumFunctionOnSet(f, S) = SumFunctionOnSet(PartSums(f, k, S, V), V)
<1> DEFINE F == [x \in S |-> [v \in V |-> IF k[x] = v THEN f[x] ELSE 0]]
           G == [v \in V |-> [x \in S |-> IF k[x] = v THEN f[x] ELSE 0]]
           r == SumsOf(F, S, V)
           c == SumsOf(G, V, S)
           p == PartSums(f, k, S, V)
<1>1. \A x \in S, v \in V : F[x][v] \in Int /\ G[v][x] = F[x][v]
  OBVIOUS
<1>2. /\ \A x \in S, v \in V : F[x][v] = IF k[x] = v THEN f[x] ELSE 0
      /\ \A x \in S, v \in V : G[v][x] = IF k[x] = v THEN f[x] ELSE 0
  OBVIOUS
<1>3. /\ \A x \in S : r[x] = SumFunctionOnSet(F[x], V)
      /\ \A v \in V : c[v] = SumFunctionOnSet(G[v], S)
      /\ \A v \in V : p[v] = SumFunctionOnSet(f, {x \in S : k[x] = v})
  BY DEF SumsOf, PartSums
<1> HIDE DEF F, G
<1>4. SumFunctionOnSet(r, S) = SumFunctionOnSet(c, V)
  BY <1>1, SumSwap
<1> HIDE DEF r, c, p
<1>5. ASSUME NEW x \in S PROVE f[x] \in Int /\ f[x] = r[x]
  <2> DEFINE g == F[x]
             y == k[x]
  <2>1. /\ {y} \subseteq V /\ g[y] = f[x] /\ g[y] \in Int
        /\ \A v \in {y} : g[v] \in Int /\ g[v] = g[v]
        /\ \A v \in V \ {y} : g[v] = 0
    BY <1>2
  <2>2. r[x] = SumFunctionOnSet(g, V)
    BY <1>3
  <2> HIDE DEF g, y
  <2>3. SumFunctionOnSet(g, V) = SumFunctionOnSet(g, {y})
    BY <2>1, SumPart
  <2>4. SumFunctionOnSet(g, {y}) = g[y]
    BY <2>1, SumSingle
  <2> QED
    BY <2>1, <2>2, <2>3, <2>4
<1>6. ASSUME NEW v \in V PROVE c[v] \in Int /\ c[v] = p[v]
  <2> DEFINE g == G[v]
             T == {x \in S : k[x] = v}
  <2>1. /\ T \subseteq S
        /\ \A x \in T : g[x] \in Int /\ f[x] = g[x]
        /\ \A x \in S \ T : g[x] = 0
        /\ \A x \in S : g[x] \in Int
    BY <1>2
  <2>2. c[v] = SumFunctionOnSet(g, S) /\ p[v] = SumFunctionOnSet(f, T)
    BY <1>3
  <2> HIDE DEF g, T
  <2>3. SumFunctionOnSet(g, S) = SumFunctionOnSet(f, T)
    BY <2>1, SumPart
  <2>4. SumFunctionOnSet(g, S) \in Int
    BY <2>1, SumInt
  <2> QED
    BY <2>2, <2>3, <2>4
<1>7. SumFunctionOnSet(f, S) = SumFunctionOnSet(r, S)
  BY <1>5, SumSame
<1>8. SumFunctionOnSet(c, V) = SumFunctionOnSet(p, V)
  BY <1>6, SumSame
<1> QED
  BY <1>4, <1>7, <1>8 DEF p

\* What is at most c above zero for some and at most c below for the others.
LEMMA SumBetween ==
  ASSUME NEW S, IsFiniteSet(S), NEW N, N \subseteq S, NEW c \in Nat, NEW d,
         \A x \in S : d[x] \in Int,
         \A x \in N : -c <= d[x] /\ d[x] <= 0,
         \A x \in S \ N : 0 <= d[x] /\ d[x] <= c
  PROVE  /\ Cardinality(N) \in Nat /\ Cardinality(S \ N) \in Nat
         /\ Cardinality(S) = Cardinality(N) + Cardinality(S \ N)
         /\ -(c * Cardinality(N)) <= SumFunctionOnSet(d, S)
         /\ SumFunctionOnSet(d, S) <= c * Cardinality(S \ N)
<1> DEFINE P == S \ N
           e == -c
           zero == [x \in S |-> 0]
           lowest == [x \in N |-> e]
           highest == [x \in P |-> c]
           sn == SumFunctionOnSet(d, N)
           sp == SumFunctionOnSet(d, P)
<1>1. /\ IsFiniteSet(N) /\ IsFiniteSet(P)
      /\ N \cup P = S /\ N \cap P = {}
  BY FS_Subset
<1>2. Cardinality(N) \in Nat /\ Cardinality(P) \in Nat
  BY <1>1, FS_CardinalityType
<1> HIDE DEF P
<1>3. Cardinality(S) = Cardinality(N) + Cardinality(P)
  <2>1. Cardinality(N \cup P)
          = Cardinality(N) + Cardinality(P) - Cardinality(N \cap P)
    BY <1>1, FS_Union
  <2>2. Cardinality({}) = 0
    BY FS_EmptySet
  <2>3. Cardinality(N \cap P) = 0 /\ Cardinality(N \cup P) = Cardinality(S)
    BY <1>1, <2>2
  <2> QED
    BY <1>2, <2>1, <2>3
<1>4. /\ e \in Int /\ c \in Int
      /\ \A x \in N : lowest[x] = e
      /\ \A x \in P : highest[x] = c
      /\ \A x \in N : lowest[x] \in Int /\ d[x] \in Int /\ lowest[x] <= d[x]
      /\ \A x \in P : d[x] \in Int /\ highest[x] \in Int /\ d[x] <= highest[x]
      /\ \A x \in N : zero[x] = 0
      /\ \A x \in P : zero[x] = 0
      /\ \A x \in N : d[x] \in Int /\ zero[x] \in Int /\ d[x] <= zero[x]
      /\ \A x \in P : zero[x] \in Int /\ d[x] \in Int /\ zero[x] <= d[x]
      /\ \A x \in N : d[x] \in Int
      /\ \A x \in P : d[x] \in Int
      /\ \A x \in N \cup P : d[x] \in Int
  BY DEF P
<1>5. e * Cardinality(N) = -(c * Cardinality(N)) /\ c * Cardinality(N) \in Int
  BY <1>2
<1>6. c * Cardinality(P) \in Int
  BY <1>2
<1> HIDE DEF e, zero, lowest, highest
<1>7. /\ SumFunctionOnSet(lowest, N) = e * Cardinality(N)
      /\ SumFunctionOnSet(highest, P) = c * Cardinality(P)
  BY <1>1, <1>4, SumConst
<1>8. SumFunctionOnSet(lowest, N) <= sn /\ sp <= SumFunctionOnSet(highest, P)
  BY <1>1, <1>4, SumLeq
<1>9. SumFunctionOnSet(zero, N) = 0 /\ SumFunctionOnSet(zero, P) = 0
  BY <1>1, <1>4, SumZero
<1>10. sn <= SumFunctionOnSet(zero, N) /\ SumFunctionOnSet(zero, P) <= sp
  BY <1>1, <1>4, SumLeq
<1>11. sn \in Int /\ sp \in Int
  BY <1>1, <1>4, SumInt
<1>12. SumFunctionOnSet(d, S) = sn + sp
  BY <1>1, <1>4, SumUnion
<1> HIDE DEF sn, sp
<1> DEFINE cn == c * Cardinality(N)
           cp == c * Cardinality(P)
<1>13. cn \in Int /\ cp \in Int /\ -cn <= sn /\ sn <= 0 /\ 0 <= sp /\ sp <= cp
  BY <1>5, <1>6, <1>7, <1>8, <1>9, <1>10
<1> HIDE DEF cn, cp
<1>14. -cn <= SumFunctionOnSet(d, S) /\ SumFunctionOnSet(d, S) <= cp
  BY <1>11, <1>12, <1>13
<1> QED
  BY <1>2, <1>3, <1>14 DEF P, cn, cp

-----------------------------------------------------------------------------

\* When nothing is below zero but the members of N, and these by one at most,
\* a total of zero leaves nobody more than N has members.
LEMMA SumBalanced ==
  ASSUME NEW S, IsFiniteSet(S), NEW N, N \subseteq S, NEW r,
         \A x \in S : r[x] \in Int,
         \A x \in N : -1 <= r[x],
         \A x \in S \ N : 0 <= r[x],
         SumFunctionOnSet(r, S) = 0,
         NEW y \in S
  PROVE  Cardinality(N) \in Nat /\ r[y] <= Cardinality(N)
<1> DEFINE one == -1
           least == [x \in N |-> one]
           e == [x \in S |-> IF x \in N THEN one ELSE 0]
           g == [x \in S |-> IF x = y THEN r[x] ELSE e[x]]
<1>1. IsFiniteSet(N) /\ Cardinality(N) \in Nat
  BY FS_Subset, FS_CardinalityType
<1>2. /\ one \in Int
      /\ \A x \in N : least[x] = one
      /\ \A x \in N : e[x] \in Int /\ least[x] = e[x]
      /\ \A x \in S \ N : e[x] = 0
      /\ \A x \in S : e[x] \in Int /\ g[x] \in Int
      /\ \A x \in S \ {y} : e[x] = g[x]
      /\ \A x \in S : g[x] \in Int /\ r[x] \in Int /\ g[x] <= r[x]
      /\ \A x \in S : e[x] \in Int
      /\ e[y] \in Int /\ e[y] <= 0 /\ g[y] = r[y] /\ r[y] \in Int
  OBVIOUS
<1>3. one * Cardinality(N) = -Cardinality(N)
  BY <1>1
<1> HIDE DEF one, least, e, g
<1>4. SumFunctionOnSet(e, S) = SumFunctionOnSet(least, N)
  BY <1>1, <1>2, SumPart
<1>5. SumFunctionOnSet(least, N) = one * Cardinality(N)
  BY <1>1, <1>2, SumConst
<1>6. SumFunctionOnSet(g, S) = SumFunctionOnSet(e, S) + g[y] - e[y]
  BY <1>2, SumChange
<1>7. SumFunctionOnSet(g, S) <= SumFunctionOnSet(r, S)
  BY <1>2, SumLeq
<1>8. r[y] <= Cardinality(N)
  BY <1>1, <1>2, <1>3, <1>4, <1>5, <1>6, <1>7
<1> QED
  BY <1>1, <1>8

-----------------------------------------------------------------------------
(* Rounding: the amounts are multiples of a fraction 1/d of the unit. *)

\* The nearest multiple: the greater, or the even one, of two that are as near.
NearestUp(x, d) == (2 * x + d) \div (2 * d)
NearestEven(x, d) ==
    IF 2 * (x % d) < d \/ (2 * (x % d) = d /\ (x \div d) % 2 = 0)
    THEN x \div d ELSE x \div d + 1

\* A quotient and what it leaves.
LEMMA Divided ==
  ASSUME NEW a \in Int, NEW n \in Nat, n > 0
  PROVE  /\ a \div n \in Int /\ a % n \in 0 .. n - 1
         /\ n * (a \div n) \in Int
         /\ a = n * (a \div n) + (a % n)
<1>1. a \div n \in Int /\ a % n \in 0 .. n - 1
  OBVIOUS
<1>2. n * (a \div n) \in Int
  BY <1>1
<1>3. a % n = a - n * (a \div n)
  OBVIOUS
<1> DEFINE w == n * (a \div n)
<1>4. w \in Int /\ a % n = a - w /\ a % n \in Int
  BY <1>1, <1>2, <1>3
<1> HIDE DEF w
<1>5. a = w + (a % n)
  BY <1>4
<1> QED
  BY <1>1, <1>2, <1>5 DEF w

\* A factor may be cancelled when less than the factor is added.
LEMMA Cancelled ==
  ASSUME NEW n \in Nat, NEW a \in Int, NEW b \in Int, n * a < n * b + n
  PROVE  a <= b
<1> SUFFICES ASSUME a >= b + 1 PROVE FALSE
  OBVIOUS
<1>1. PICK k \in Nat : a = b + 1 + k
  <2>1. a - b - 1 \in Nat
    OBVIOUS
  <2>2. a = b + 1 + (a - b - 1)
    OBVIOUS
  <2> QED
    BY <2>1, <2>2
<1>2. n * a = n * b + n + n * k
  <2>1. n * (b + 1 + k) = n * b + n + n * k
    BY <1>1
  <2> QED
    BY <1>1, <2>1
<1>3. n * k \in Nat /\ n * b \in Int
  BY <1>1
<1> DEFINE nk == n * k
           nb == n * b
           na == n * a
<1>4. na < nb + n /\ na = nb + n + nk /\ nk \in Nat /\ nb \in Int
  BY <1>2, <1>3
<1> HIDE DEF nk, nb, na
<1> QED
  BY <1>4

LEMMA NearestUpBounds ==
  ASSUME NEW x \in Int, NEW d \in Nat, d > 0
  PROVE  /\ NearestUp(x, d) \in Int /\ d * NearestUp(x, d) \in Int
         /\ 2 * (d * NearestUp(x, d)) <= 2 * x + d
         /\ 2 * x + d < 2 * (d * NearestUp(x, d)) + 2 * d
<1> DEFINE a == 2 * x + d
           n == 2 * d
           q == a \div n
<1>1. a \in Int /\ n \in Nat /\ n > 0
  OBVIOUS
<1> HIDE DEF a, n
<1>2. q \in Int /\ n * q \in Int /\ n * q <= a /\ a < n * q + n
  BY <1>1, Divided
<1> HIDE DEF q
<1>3. n * q = 2 * (d * q) /\ d * q \in Int
  BY <1>2 DEF n
<1>4. NearestUp(x, d) = q
  BY DEF NearestUp, q, a, n
<1> DEFINE w == d * q
           v == n * q
<1>5. w \in Int /\ v = 2 * w /\ v <= a /\ a < v + n /\ v \in Int
  BY <1>2, <1>3
<1>6. d * NearestUp(x, d) = w
  BY <1>4
<1> HIDE DEF v, w
<1> QED
  BY <1>2, <1>4, <1>5, <1>6 DEF a, n

\* The bounds determine it.
LEMMA NearestUpIs ==
  ASSUME NEW x \in Int, NEW d \in Nat, d > 0, NEW r \in Int,
         2 * (d * r) <= 2 * x + d, 2 * x + d < 2 * (d * r) + 2 * d
  PROVE  NearestUp(x, d) = r
<1> DEFINE q == NearestUp(x, d)
           dq == d * q
           dr == d * r
<1>1. /\ q \in Int /\ dq \in Int /\ dr \in Int
      /\ 2 * dq <= 2 * x + d /\ 2 * x + d < 2 * dq + 2 * d
      /\ 2 * dr <= 2 * x + d /\ 2 * x + d < 2 * dr + 2 * d
  BY NearestUpBounds
<1> HIDE DEF q, dq, dr
<1>2. dq < dr + d /\ dr < dq + d
  BY <1>1
<1>3. q <= r /\ r <= q
  BY <1>1, <1>2, Cancelled DEF dq, dr
<1> QED
  BY <1>1, <1>3 DEF q

\* Whole multiples are kept, and may be taken out first.
LEMMA NearestUpShift ==
  ASSUME NEW x \in Int, NEW d \in Nat, d > 0, NEW k \in Int
  PROVE  NearestUp(x + d * k, d) = NearestUp(x, d) + k
<1> DEFINE q == NearestUp(x, d)
           dq == d * q
           dk == d * k
           y == x + dk
<1>1. /\ q \in Int /\ dq \in Int /\ dk \in Int /\ y \in Int
      /\ 2 * dq <= 2 * x + d /\ 2 * x + d < 2 * dq + 2 * d
  BY NearestUpBounds
<1>2. d * (q + k) = dq + dk
  BY <1>1
<1>3. q + k \in Int
  BY <1>1
<1> HIDE DEF q, dq, dk
<1>4. 2 * (dq + dk) <= 2 * y + d /\ 2 * y + d < 2 * (dq + dk) + 2 * d
  BY <1>1
<1>5. NearestUp(y, d) = q + k
  BY <1>1, <1>2, <1>3, <1>4, NearestUpIs
<1> QED
  BY <1>5 DEF y, dk, q

LEMMA NearestUpWhole ==
  ASSUME NEW d \in Nat, d > 0, NEW k \in Int
  PROVE  NearestUp(d * k, d) = k
<1>1. NearestUp(0, d) = 0
  BY NearestUpIs
<1>2. 0 + d * k = d * k
  OBVIOUS
<1>3. NearestUp(0 + d * k, d) = NearestUp(0, d) + k
  BY NearestUpShift
<1> QED
  BY <1>1, <1>2, <1>3

\* It grows with the amount.
LEMMA NearestUpLeq ==
  ASSUME NEW x \in Int, NEW y \in Int, x <= y, NEW d \in Nat, d > 0
  PROVE  NearestUp(x, d) <= NearestUp(y, d)
<1> DEFINE p == NearestUp(x, d)
           q == NearestUp(y, d)
           dp == d * p
           dq == d * q
<1>1. /\ p \in Int /\ q \in Int /\ dp \in Int /\ dq \in Int
      /\ 2 * dp <= 2 * x + d /\ 2 * y + d < 2 * dq + 2 * d
  BY NearestUpBounds
<1> HIDE DEF p, q, dp, dq
<1>2. dp < dq + d
  BY <1>1
<1>3. p <= q
  BY <1>1, <1>2, Cancelled DEF dp, dq
<1> QED
  BY <1>3 DEF p, q

\* Rounding what is left of a debt k after a payment x takes off it what the
\* payment rounds to, or one less when the payment is half way between two.
LEMMA NearestUpRest ==
  ASSUME NEW x \in Int, NEW d \in Nat, d > 0, NEW k \in Int
  PROVE  LET took == k - NearestUp(d * k - x, d)
         IN \/ took = NearestUp(x, d)
            \/ 2 * (x % d) = d /\ took = NearestUp(x, d) - 1
<1> DEFINE c == x \div d
           r == x % d
           dc == d * c
           m == 0 - x
           kc == k - c
           dk == d * k
<1>1. /\ c \in Int /\ r \in 0 .. d - 1 /\ dc \in Int /\ x = dc + r
      /\ dk \in Int /\ kc \in Int /\ m \in Int
  BY Divided
<1>2. d * (c + 1) = dc + d /\ d * kc = dk - dc /\ d * (kc - 1) = dk - dc - d
  BY <1>1
<1> DEFINE y == dk - x
<1>3. y \in Int /\ c + 1 \in Int /\ kc - 1 \in Int
  BY <1>1
<1> HIDE DEF c, r, dc, kc, dk
<1>4. CASE 2 * r < d
  <2>1. 2 * dc <= 2 * x + d /\ 2 * x + d < 2 * dc + 2 * d
    BY <1>1, <1>4
  <2>2. NearestUp(x, d) = c
    BY <1>1, <2>1, NearestUpIs DEF dc
  <2>3. 2 * (dk - dc) <= 2 * y + d /\ 2 * y + d < 2 * (dk - dc) + 2 * d
    BY <1>1, <1>4
  <2>4. NearestUp(y, d) = kc
    BY <1>1, <1>2, <1>3, <2>3, NearestUpIs
  <2> QED
    BY <1>1, <2>2, <2>4 DEF kc, y, dk
<1>5. CASE 2 * r = d
  <2>1. 2 * (dc + d) <= 2 * x + d /\ 2 * x + d < 2 * (dc + d) + 2 * d
    BY <1>1, <1>5
  <2>2. NearestUp(x, d) = c + 1
    BY <1>1, <1>2, <1>3, <2>1, NearestUpIs
  <2>3. 2 * (dk - dc) <= 2 * y + d /\ 2 * y + d < 2 * (dk - dc) + 2 * d
    BY <1>1, <1>5
  <2>4. NearestUp(y, d) = kc
    BY <1>1, <1>2, <1>3, <2>3, NearestUpIs
  <2> QED
    BY <1>1, <1>5, <2>2, <2>4 DEF kc, y, dk, r
<1>6. CASE 2 * r > d
  <2>1. 2 * (dc + d) <= 2 * x + d /\ 2 * x + d < 2 * (dc + d) + 2 * d
    BY <1>1, <1>6
  <2>2. NearestUp(x, d) = c + 1
    BY <1>1, <1>2, <1>3, <2>1, NearestUpIs
  <2>3. /\ 2 * (dk - dc - d) <= 2 * y + d
        /\ 2 * y + d < 2 * (dk - dc - d) + 2 * d
    BY <1>1, <1>6
  <2>4. NearestUp(y, d) = kc - 1
    BY <1>1, <1>2, <1>3, <2>3, NearestUpIs
  <2> QED
    BY <1>1, <2>2, <2>4 DEF kc, y, dk
<1> QED
  BY <1>1, <1>4, <1>5, <1>6

\* The even neighbour is as near.
LEMMA NearestEvenBounds ==
  ASSUME NEW x \in Int, NEW d \in Nat, d > 0
  PROVE  /\ NearestEven(x, d) \in Int /\ d * NearestEven(x, d) \in Int
         /\ 2 * (d * NearestEven(x, d)) <= 2 * x + d
         /\ 2 * x <= 2 * (d * NearestEven(x, d)) + d
         /\ x % d = 0 => d * NearestEven(x, d) = x
<1> DEFINE c == x \div d
           r == x % d
           e == NearestEven(x, d)
           dc == d * c
           de == d * e
<1>1. c \in Int /\ r \in 0 .. d - 1 /\ dc \in Int /\ x = dc + r
  BY Divided
<1>2. d * (c + 1) = dc + d /\ c + 1 \in Int
  BY <1>1
<1>3. \/ e = c /\ 2 * r <= d
      \/ e = c + 1 /\ 2 * r >= d
  BY <1>1 DEF NearestEven
<1> HIDE DEF c, r, e
<1>4. /\ e \in Int
      /\ \/ de = dc /\ 2 * r <= d
         \/ de = dc + d /\ 2 * r >= d
  <2>1. CASE e = c /\ 2 * r <= d
    BY <1>1, <2>1
  <2>2. CASE e = c + 1 /\ 2 * r >= d
    BY <1>1, <1>2, <2>2
  <2> QED
    BY <1>3, <2>1, <2>2
<1> HIDE DEF dc, de
<1>5. /\ de \in Int /\ 2 * de <= 2 * x + d /\ 2 * x <= 2 * de + d
      /\ r = 0 => de = x
  BY <1>1, <1>4
<1> QED
  BY <1>4, <1>5 DEF de, e, r

\* A sum of roundings misses the sum by half a unit for each term at most.
LEMMA SumNear ==
  ASSUME NEW S, IsFiniteSet(S), NEW f, NEW g, NEW d \in Nat, d > 0,
         \A x \in S : /\ f[x] \in Int /\ g[x] \in Int
                     /\ 2 * (d * g[x]) <= 2 * f[x] + d
                     /\ 2 * f[x] <= 2 * (d * g[x]) + d
  PROVE  LET F == SumFunctionOnSet(f, S)
             G == SumFunctionOnSet(g, S)
             w == d * Cardinality(S)
         IN /\ F \in Int /\ G \in Int /\ w \in Int /\ d * G \in Int
            /\ 2 * (d * G) <= 2 * F + w
            /\ 2 * F <= 2 * (d * G) + w
<1> DEFINE h == [x \in S |-> d * g[x]]
           p == [x \in S |-> 2 * h[x]]
           b == [x \in S |-> 2 * f[x]]
           c == [x \in S |-> d]
           bc == [x \in S |-> b[x] + c[x]]
           pc == [x \in S |-> p[x] + c[x]]
           two == 2
           F == SumFunctionOnSet(f, S)
           G == SumFunctionOnSet(g, S)
           w == d * Cardinality(S)
<1>1. \A x \in S : /\ f[x] \in Int /\ g[x] \in Int /\ h[x] \in Int
                  /\ p[x] \in Int /\ b[x] \in Int /\ c[x] \in Int
                  /\ c[x] = d /\ h[x] = d * g[x] /\ p[x] = two * h[x]
                  /\ b[x] = two * f[x]
  OBVIOUS
<1>2. \A x \in S : /\ bc[x] = b[x] + c[x] /\ pc[x] = p[x] + c[x]
                  /\ bc[x] \in Int /\ pc[x] \in Int
                  /\ p[x] <= bc[x] /\ b[x] <= pc[x]
  <2> SUFFICES ASSUME NEW x \in S
               PROVE  /\ bc[x] = b[x] + c[x] /\ pc[x] = p[x] + c[x]
                      /\ bc[x] \in Int /\ pc[x] \in Int
                      /\ p[x] <= bc[x] /\ b[x] <= pc[x]
    OBVIOUS
  <2>1. bc[x] = b[x] + c[x] /\ pc[x] = p[x] + c[x]
    OBVIOUS
  <2>2. /\ 2 * (d * g[x]) <= 2 * f[x] + d
        /\ 2 * f[x] <= 2 * (d * g[x]) + d
    OBVIOUS
  <2> HIDE DEF h, p, b, c, bc, pc
  <2>3. 2 * h[x] <= 2 * f[x] + d /\ 2 * f[x] <= 2 * h[x] + d
    BY <1>1, <2>2
  <2> QED
    BY <1>1, <2>1, <2>3
<1>3. two \in Int /\ d \in Int /\ Cardinality(S) \in Int
  BY FS_CardinalityType
<1> HIDE DEF h, p, b, c, bc, pc, two
<1>4. /\ SumFunctionOnSet(h, S) = d * G
      /\ SumFunctionOnSet(p, S) = two * SumFunctionOnSet(h, S)
      /\ SumFunctionOnSet(b, S) = two * F
  BY <1>1, <1>3, SumScale
<1>5. SumFunctionOnSet(c, S) = w
  BY <1>1, <1>3, SumConst
<1>6. /\ SumFunctionOnSet(bc, S) = SumFunctionOnSet(b, S) + SumFunctionOnSet(c, S)
      /\ SumFunctionOnSet(pc, S) = SumFunctionOnSet(p, S) + SumFunctionOnSet(c, S)
  BY <1>1, <1>2, SumPlus
<1>7. /\ SumFunctionOnSet(p, S) <= SumFunctionOnSet(bc, S)
      /\ SumFunctionOnSet(b, S) <= SumFunctionOnSet(pc, S)
  BY <1>1, <1>2, SumLeq
<1>8. F \in Int /\ G \in Int
  BY <1>1, SumInt
<1>9. w \in Int /\ d * G \in Int
  BY <1>3, <1>8
<1> HIDE DEF F, G, w
<1> DEFINE dG == d * G
<1>10. /\ two * dG <= two * F + w
       /\ two * F <= two * dG + w
  BY <1>4, <1>5, <1>6, <1>7
<1> QED
  BY <1>8, <1>9, <1>10 DEF F, G, w, two

\* Of an amount, w is taken and the rest rounded to even: what that comes to is
\* the amount rounded up, or one off; nothing is off when nothing was rounded.
LEMMA NearestEvenRest ==
  ASSUME NEW amount \in Int, NEW w \in Int, NEW d \in Nat, d > 0
  PROVE  LET off == NearestEven(amount - d * w, d) + w - NearestUp(amount, d) IN
         /\ off \in -1 .. 1
         /\ amount % d = 0 => off = 0
<1> DEFINE dw == d * w
           x == amount - dw
           q == NearestEven(x, d)
           p == NearestUp(amount, d)
           dq == d * q
           dp == d * p
           off == q + w - p
           do == d * off
<1>1. dw \in Int /\ x \in Int
  OBVIOUS
<1>2. /\ q \in Int /\ dq \in Int
      /\ 2 * dq <= 2 * x + d /\ 2 * x <= 2 * dq + d
  <2> HIDE DEF x
  <2> QED
    BY <1>1, NearestEvenBounds
<1>3. /\ p \in Int /\ dp \in Int
      /\ 2 * dp <= 2 * amount + d /\ 2 * amount + d < 2 * dp + 2 * d
  BY NearestUpBounds
<1>4. amount % d = 0 => dp = amount
  <2> SUFFICES ASSUME amount % d = 0 PROVE dp = amount
    OBVIOUS
  <2> DEFINE k == amount \div d
  <2>1. amount = d * k /\ k \in Int
    <3>1. amount = d * k + (amount % d) /\ d * k \in Int /\ k \in Int
      BY Divided
    <3> HIDE DEF k
    <3> QED
      BY <3>1
  <2> HIDE DEF k
  <2>2. NearestUp(d * k, d) = k
    BY <2>1, NearestUpWhole
  <2> QED
    BY <2>1, <2>2
<1>5. off \in Int /\ do = dq + dw - dp
  <2> HIDE DEF q, p
  <2> QED
    BY <1>2, <1>3
<1>6. x = amount - dw
  OBVIOUS
<1>7. d * 1 = d /\ d * (-off) = -do /\ d * 0 = 0 /\ do = d * off /\ do \in Int
  <2> HIDE DEF off
  <2> QED
    BY <1>5
<1>8. off <= 1 /\ -off <= 1
  <2>1. do < d * 1 + d /\ -do < d * 1 + d
    <3> HIDE DEF do, dq, dp, dw, x, q, p, off
    <3> QED
      BY <1>1, <1>2, <1>3, <1>5, <1>6, <1>7
  <2>2. 1 \in Int /\ -off \in Int /\ d * off < d * 1 + d /\ d * (-off) < d * 1 + d
    <3> HIDE DEF do, off
    <3> QED
      BY <1>5, <1>7, <2>1
  <2> HIDE DEF off
  <2> QED
    BY <1>5, <2>2, Cancelled
<1>9. amount % d = 0 => off <= 0 /\ -off <= 0
  <2> SUFFICES ASSUME amount % d = 0 PROVE off <= 0 /\ -off <= 0
    OBVIOUS
  <2>1. do < d * 0 + d /\ -do < d * 0 + d
    <3>1. dp = amount
      BY <1>4
    <3> HIDE DEF do, dq, dp, dw, x, q, p, off
    <3> QED
      BY <1>1, <1>2, <1>5, <1>6, <1>7, <3>1
  <2>2. 0 \in Int /\ -off \in Int /\ d * off < d * 0 + d /\ d * (-off) < d * 0 + d
    <3> HIDE DEF do, off
    <3> QED
      BY <1>5, <1>7, <2>1
  <2> HIDE DEF off
  <2> QED
    BY <1>5, <2>2, Cancelled
<1> HIDE DEF q, p, x
<1>10. NearestEven(amount - d * w, d) + w - NearestUp(amount, d) = off
  BY DEF q, p, x
<1> HIDE DEF off
<1> QED
  BY <1>5, <1>8, <1>9, <1>10

\* Amounts listed to within t of the total, each of n rounded, and the total
\* rounded on its own.
LEMMA ListedMisses ==
  ASSUME NEW amount \in Int, NEW listed \in Int, NEW sum \in Int, NEW n \in Nat,
         NEW t \in Nat, NEW d \in Nat, d > 0,
         listed - amount \in -(d * t) .. d * t,
         2 * (d * sum) <= 2 * listed + d * n,
         2 * listed <= 2 * (d * sum) + d * n
  PROVE  LET slack == 2 * t + n + 1 IN
         2 * (sum - NearestUp(amount, d)) \in -slack .. slack
<1> DEFINE p == NearestUp(amount, d)
           dp == d * p
           ds == d * sum
           dn == d * n
           dt == d * t
           off == 2 * (sum - p)
           do == d * off
           slack == 2 * t + n + 1
           dk == d * slack
<1>1. /\ p \in Int /\ dp \in Int
      /\ 2 * dp <= 2 * amount + d /\ 2 * amount + d < 2 * dp + 2 * d
  BY NearestUpBounds
<1> HIDE DEF p
<1>2. /\ do = 2 * ds - 2 * dp /\ dk = dn + 2 * dt + d
      /\ do \in Int /\ ds \in Int /\ dn \in Int /\ dt \in Int /\ dk \in Int
      /\ off \in Int /\ slack \in Int
  BY <1>1
<1>3. 2 * ds <= 2 * listed + dn /\ 2 * listed <= 2 * ds + dn
  OBVIOUS
<1>4. -dt <= listed - amount /\ listed - amount <= dt
  BY <1>2
<1>5. d * (-off) = -do
  <2> HIDE DEF off
  <2> QED
    BY <1>2
<1>6. do < dk + d /\ -do < dk + d
  <2> HIDE DEF do, dk, ds, dp, dn, dt
  <2> QED
    BY <1>1, <1>2, <1>3, <1>4
<1>7. -off \in Int /\ d * off < d * slack + d /\ d * (-off) < d * slack + d
  <2> HIDE DEF off, slack
  <2> QED
    BY <1>2, <1>5, <1>6
<1>8. off <= slack /\ -off <= slack
  <2> HIDE DEF off, slack
  <2> QED
    BY <1>2, <1>7, Cancelled
<1>9. 2 * (sum - NearestUp(amount, d)) = off
  BY DEF p
<1> HIDE DEF off
<1> QED
  BY <1>2, <1>8, <1>9
=============================================================================
