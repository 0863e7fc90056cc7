---------------------------- MODULE InductionLemmas ----------------------------
(***************************************************************************)
(* Facts about numbers and sums that several proofs need.  The library's   *)
(* induction theorems take a predicate as a parameter; with a set of       *)
(* numbers in its place they follow from the well-foundedness of <, in a   *)
(* form the provers can use.                                               *)
(***************************************************************************)
EXTENDS Integers, Functions, FiniteSetTheorems, WellFoundedInduction, TLAPS

\* A set of natural numbers that is not empty has a least element.
LEMMA LeastNatural ==
    ASSUME NEW S \in SUBSET Nat, S # {}
    PROVE  \E n \in S : \A m \in S : n <= m
<1> DEFINE R == OpToRel(<, Nat)
<1>1. IsWellFoundedOn(R, Nat)
  BY NatLessThanWellFounded
<1>2. \E n \in S : \A m \in S : <<m, n>> \notin R
  <2> HIDE DEF R
  <2>1. QED
    BY <1>1, WFMin
<1>3. \A m, n \in Nat : <<m, n>> \notin R => n <= m
  BY DEF OpToRel
<1>4. QED
  BY <1>2, <1>3

\* A set with 0 that is closed under successors has every natural number.
LEMMA SetInduction ==
    ASSUME NEW S, 0 \in S, \A n \in Nat : n \in S => n + 1 \in S
    PROVE  Nat \subseteq S
<1> SUFFICES ASSUME Nat \ S # {} PROVE FALSE
  OBVIOUS
<1>1. PICK n \in Nat \ S : \A m \in Nat \ S : n <= m
  BY LeastNatural
<1>2. n # 0 /\ n - 1 \in Nat
  BY <1>1
<1>3. n - 1 \in S
  BY <1>1, <1>2
<1>4. QED
  BY <1>1, <1>2, <1>3

\* Where everybody in a finite set waits for somebody else in it, there are some
\* who wait only for, and are waited for by, each other: a least such set.
LEMMA WaitersCircle ==
    ASSUME NEW S, IsFiniteSet(S), S # {}, NEW R,
           \A x \in S : \E y \in S : y # x /\ <<x, y>> \in R
    PROVE  \E C \in SUBSET S :
              /\ C # {}
              /\ \A x \in C : \E y \in C : <<x, y>> \in R
              /\ \A y \in C : \E x \in C : <<x, y>> \in R
<1> DEFINE Waits(T) == T # {} /\ \A x \in T : \E y \in T : y # x /\ <<x, y>> \in R
           Sizes == {Cardinality(T) : T \in {U \in SUBSET S : Waits(U)}}
<1>1. \A T \in SUBSET S : IsFiniteSet(T) /\ Cardinality(T) \in Nat
  BY FS_Subset, FS_CardinalityType
<1>2. Sizes \in SUBSET Nat /\ Sizes # {}
  <2>1. S \in SUBSET S /\ Waits(S)
    OBVIOUS
  <2>2. Cardinality(S) \in Sizes
    BY <2>1
  <2>3. QED
    BY <1>1, <2>2
<1>3. PICK n \in Sizes : \A m \in Sizes : n <= m
  <2> HIDE DEF Sizes
  <2>1. QED
    BY <1>2, LeastNatural
<1>4. PICK C \in SUBSET S : Waits(C) /\ Cardinality(C) = n
  OBVIOUS
<1>5. ASSUME NEW y \in C, \A x \in C : <<x, y>> \notin R
      PROVE  FALSE
  <2>1. C \ {y} \in SUBSET S /\ Waits(C \ {y})
    <3>1. PICK z \in C : z # y
      BY <1>4
    <3>2. \A x \in C \ {y} : \E w \in C \ {y} : w # x /\ <<x, w>> \in R
      BY <1>4, <1>5
    <3>3. QED
      BY <3>1, <3>2
  <2>2. Cardinality(C \ {y}) = Cardinality(C) - 1
    BY <1>1, FS_RemoveElement
  <2>3. n <= Cardinality(C \ {y})
    BY <1>3, <2>1
  <2>4. QED
    BY <1>1, <1>4, <2>2, <2>3
<1>6. QED
  BY <1>4, <1>5

-----------------------------------------------------------------------------
(* Sums of the values of a function, as the community modules' folds       *)
(* define them: a set's sum is that of the set without the element that is *)
(* picked first, and that element's value.                                 *)

Pick(S) == CHOOSE x \in S : TRUE

\* g has the sum of f over each subset of D.
SumsUp(g, f, D) ==
    \A S \in SUBSET D : g[S] = IF S = {} THEN 0 ELSE f[Pick(S)] + g[S \ {Pick(S)}]

\* The subsets of a finite set are finite, and only the empty one has no element.
LEMMA SubsetSizes ==
    ASSUME NEW D, IsFiniteSet(D), NEW S \in SUBSET D
    PROVE  /\ IsFiniteSet(S) /\ Cardinality(S) \in Nat
           /\ Cardinality(S) <= Cardinality(D)
           /\ Cardinality(S) = 0 <=> S = {}
BY FS_Subset, FS_CardinalityType, FS_EmptySet

\* Taking the picked element away makes a finite set smaller by one.
LEMMA WithoutPick ==
    ASSUME NEW D, IsFiniteSet(D), NEW S \in SUBSET D, S # {}
    PROVE  /\ Pick(S) \in S
           /\ S \ {Pick(S)} \in SUBSET D
           /\ Cardinality(S \ {Pick(S)}) = Cardinality(S) - 1
<1>1. Pick(S) \in S
  BY DEF Pick
<1>2. IsFiniteSet(S)
  BY SubsetSizes
<1>3. Cardinality(S \ {Pick(S)}) = Cardinality(S) - 1
  BY <1>1, <1>2, FS_RemoveElement
<1>4. QED
  BY <1>1, <1>3

\* Such sums exist, by induction on the size of the subsets.
LEMMA SumsExist ==
    ASSUME NEW D, IsFiniteSet(D), NEW f, \A x \in D : f[x] \in Nat
    PROVE  \E g \in [SUBSET D -> Nat] : SumsUp(g, f, D)
<1> DEFINE Small(n) == {S \in SUBSET D : Cardinality(S) <= n}
           Sums(n, g) == \A S \in Small(n) :
                            g[S] = IF S = {} THEN 0 ELSE f[Pick(S)] + g[S \ {Pick(S)}]
           H == {n \in Nat : \E g \in [Small(n) -> Nat] : Sums(n, g)}
<1>1. \A S \in SUBSET D : Cardinality(S) \in Nat /\ (Cardinality(S) = 0 <=> S = {})
  BY SubsetSizes
<1>2. 0 \in H
  <2> DEFINE g == [S \in Small(0) |-> 0]
  <2>1. ASSUME NEW S \in Small(0)
        PROVE  S = {}
    <3>1. S \in SUBSET D /\ Cardinality(S) <= 0
      OBVIOUS
    <3>2. Cardinality(S) \in Nat
      BY <1>1
    <3>3. Cardinality(S) = 0
      BY <3>1, <3>2
    <3>4. QED
      BY <1>1, <3>3
  <2>2. g \in [Small(0) -> Nat] /\ Sums(0, g)
    BY <2>1
  <2>3. QED
    BY <2>2
<1>3. ASSUME NEW n \in Nat, n \in H
      PROVE  n + 1 \in H
  <2>1. PICK g \in [Small(n) -> Nat] : Sums(n, g)
    BY <1>3
  <2> DEFINE h == [S \in Small(n + 1) |->
                     IF S = {} THEN 0 ELSE f[Pick(S)] + g[S \ {Pick(S)}]]
  <2>2. ASSUME NEW S \in Small(n + 1), S # {}
        PROVE  Pick(S) \in D /\ S \ {Pick(S)} \in Small(n)
    <3>1. S \in SUBSET D /\ Cardinality(S) <= n + 1 /\ Cardinality(S) \in Nat
      BY <1>1
    <3>2. QED
      BY <2>2, <3>1, WithoutPick
  <2>3. h \in [Small(n + 1) -> Nat]
    BY <2>2
  <2>4. ASSUME NEW S \in Small(n)
        PROVE  S \in Small(n + 1) /\ h[S] = g[S]
    <3>1. S \in SUBSET D /\ Cardinality(S) <= n
      OBVIOUS
    <3>2. Cardinality(S) \in Nat
      BY <1>1
    <3>3. S \in Small(n + 1)
      BY <3>1, <3>2
    <3>4. QED
      BY <2>1, <3>3
  <2>5. Sums(n + 1, h)
    <3> SUFFICES ASSUME NEW S \in Small(n + 1)
                 PROVE  h[S] = IF S = {} THEN 0 ELSE f[Pick(S)] + h[S \ {Pick(S)}]
      OBVIOUS
    <3>1. CASE S = {}
      BY <3>1
    <3>2. CASE S # {}
      <4>1. h[S] = f[Pick(S)] + g[S \ {Pick(S)}]
        BY <3>2
      <4>2. QED
        BY <2>2, <2>4, <3>2, <4>1
    <3>3. QED
      BY <3>1, <3>2
  <2>6. \E e \in [Small(n + 1) -> Nat] : Sums(n + 1, e)
    <3> HIDE DEF h, Sums, Small
    <3>1. QED
      BY <2>3, <2>5
  <2> HIDE DEF Sums, Small
  <2>7. QED
    BY <2>6
<1>4. Cardinality(D) \in H
  <2> HIDE DEF H
  <2>1. QED
    BY <1>2, <1>3, SetInduction, FS_CardinalityType
<1>5. Small(Cardinality(D)) = SUBSET D
  BY FS_Subset, FS_CardinalityType
<1>6. QED
  BY <1>4, <1>5 DEF SumsUp

\* There is only one such function on the subsets of a finite set.
LEMMA SumsUnique ==
    ASSUME NEW D, IsFiniteSet(D), NEW f, NEW g, NEW h, SumsUp(g, f, D), SumsUp(h, f, D),
           NEW S \in SUBSET D
    PROVE  g[S] = h[S]
<1> DEFINE H == {n \in Nat : \A T \in SUBSET D : Cardinality(T) = n => g[T] = h[T]}
<1>1. \A T \in SUBSET D : Cardinality(T) \in Nat /\ (Cardinality(T) = 0 <=> T = {})
  BY SubsetSizes
<1>2. 0 \in H
  <2>1. ASSUME NEW T \in SUBSET D, Cardinality(T) = 0
        PROVE  g[T] = h[T]
    BY <1>1, <2>1 DEF SumsUp
  <2>2. QED
    BY <2>1
<1>3. ASSUME NEW n \in Nat, n \in H
      PROVE  n + 1 \in H
  <2>1. ASSUME NEW T \in SUBSET D, Cardinality(T) = n + 1
        PROVE  g[T] = h[T]
    <3>1. T # {} /\ T \ {Pick(T)} \in SUBSET D /\ Cardinality(T \ {Pick(T)}) = n
      BY <1>1, <2>1, WithoutPick
    <3>2. g[T \ {Pick(T)}] = h[T \ {Pick(T)}]
      BY <1>3, <3>1
    <3>3. QED
      BY <3>1, <3>2 DEF SumsUp
  <2>2. QED
    BY <2>1
<1>4. Cardinality(S) \in H
  <2>1. Cardinality(S) \in Nat
    BY <1>1
  <2> HIDE DEF H
  <2>2. QED
    BY <1>2, <1>3, <2>1, SetInduction
<1>5. QED
  BY <1>4

\* The community modules' sum of a function is such a sum.
LEMMA SumOfAll ==
    ASSUME NEW D, IsFiniteSet(D), NEW f, \A x \in D : f[x] \in Nat
    PROVE  \E g \in [SUBSET D -> Nat] :
              SumsUp(g, f, D) /\ SumFunctionOnSet(f, D) = g[D]
<1> DEFINE Rec(g) == g = [S \in SUBSET D |->
                            IF S = {} THEN 0
                            ELSE f[CHOOSE x \in S : TRUE] + g[S \ {CHOOSE x \in S : TRUE}]]
           Iter == CHOOSE g : Rec(g)
<1>1. PICK g \in [SUBSET D -> Nat] : SumsUp(g, f, D)
  BY SumsExist
<1>2. Rec(g)
  BY <1>1 DEF SumsUp, Pick
<1>3. Rec(Iter)
  BY <1>2
<1>4. SumFunctionOnSet(f, D) = Iter[D]
  BY DEF SumFunctionOnSet, FoldFunctionOnSet, MapThenFoldSet
<1>5. SumsUp(Iter, f, D)
  <2> HIDE DEF Iter
  <2>1. QED
    BY <1>3 DEF SumsUp, Pick
<1>6. Iter[D] = g[D]
  <2> HIDE DEF Iter
  <2>1. QED
    BY <1>1, <1>5, SumsUnique
<1>7. QED
  BY <1>1, <1>4, <1>6

\* No value exceeds the sum.
LEMMA SumBounds ==
    ASSUME NEW D, IsFiniteSet(D), NEW f, \A x \in D : f[x] \in Nat
    PROVE  /\ SumFunctionOnSet(f, D) \in Nat
           /\ \A x \in D : f[x] <= SumFunctionOnSet(f, D)
<1>1. PICK g \in [SUBSET D -> Nat] : SumsUp(g, f, D) /\ SumFunctionOnSet(f, D) = g[D]
  BY SumOfAll
<1> DEFINE H == {n \in Nat : \A T \in SUBSET D :
                    Cardinality(T) = n => \A x \in T : f[x] <= g[T]}
<1>2. \A T \in SUBSET D : Cardinality(T) \in Nat /\ (Cardinality(T) = 0 <=> T = {})
  BY SubsetSizes
<1>3. 0 \in H
  <2>1. ASSUME NEW T \in SUBSET D, Cardinality(T) = 0
        PROVE  T = {}
    BY <1>2, <2>1
  <2>2. QED
    BY <2>1
<1>4. ASSUME NEW n \in Nat, n \in H
      PROVE  n + 1 \in H
  <2>1. ASSUME NEW T \in SUBSET D, Cardinality(T) = n + 1, NEW x \in T
        PROVE  f[x] <= g[T]
    <3> DEFINE R == T \ {Pick(T)}
    <3>1. T # {} /\ Pick(T) \in D /\ R \in SUBSET D /\ Cardinality(R) = n
      BY <2>1, WithoutPick
    <3>2. g[T] = f[Pick(T)] + g[R]
      BY <1>1, <3>1 DEF SumsUp
    <3>3. g[R] \in Nat /\ f[Pick(T)] \in Nat /\ f[x] \in Nat
      BY <3>1
    <3>4. x # Pick(T) => f[x] <= g[R]
      BY <1>4, <3>1
    <3> HIDE DEF R
    <3>5. QED
      BY <3>2, <3>3, <3>4
  <2>2. QED
    BY <2>1
<1>5. Cardinality(D) \in H
  <2>1. Cardinality(D) \in Nat
    BY <1>2
  <2> HIDE DEF H
  <2>2. QED
    BY <1>3, <1>4, <2>1, SetInduction
<1>6. QED
  BY <1>1, <1>5

\* With another value at one place, the sum changes by the difference.
LEMMA SumExcept ==
    ASSUME NEW D, IsFiniteSet(D), NEW f \in [D -> Nat], NEW x \in D, NEW v \in Nat
    PROVE  SumFunctionOnSet([f EXCEPT ![x] = v], D) = SumFunctionOnSet(f, D) + v - f[x]
<1> DEFINE e == [f EXCEPT ![x] = v]
<1>1. e \in [D -> Nat] /\ e[x] = v /\ \A y \in D \ {x} : e[y] = f[y]
  OBVIOUS
<1> HIDE DEF e
<1>2. PICK g \in [SUBSET D -> Nat] : SumsUp(g, f, D) /\ SumFunctionOnSet(f, D) = g[D]
  BY SumOfAll
<1>3. PICK h \in [SUBSET D -> Nat] : SumsUp(h, e, D) /\ SumFunctionOnSet(e, D) = h[D]
  BY <1>1, SumOfAll
<1> DEFINE Change(T) == IF x \in T THEN v - f[x] ELSE 0
           H == {n \in Nat : \A T \in SUBSET D :
                    Cardinality(T) = n => h[T] = g[T] + Change(T)}
<1>4. \A T \in SUBSET D : Cardinality(T) \in Nat /\ (Cardinality(T) = 0 <=> T = {})
  BY SubsetSizes
<1>5. 0 \in H
  <2>1. ASSUME NEW T \in SUBSET D, Cardinality(T) = 0
        PROVE  h[T] = g[T] + Change(T)
    <3>1. T = {}
      BY <1>4, <2>1
    <3>2. g[T] = 0 /\ h[T] = 0 /\ Change(T) = 0
      BY <1>2, <1>3, <3>1 DEF SumsUp
    <3>3. QED
      BY <3>2
  <2>2. QED
    BY <2>1
<1>6. ASSUME NEW n \in Nat, n \in H
      PROVE  n + 1 \in H
  <2>1. ASSUME NEW T \in SUBSET D, Cardinality(T) = n + 1
        PROVE  h[T] = g[T] + Change(T)
    <3> DEFINE p == Pick(T)
               R == T \ {p}
    <3>1. /\ T # {} /\ p \in T /\ R \in SUBSET D /\ Cardinality(R) = n
      BY <1>4, <2>1, WithoutPick
    <3>2. g[T] = f[p] + g[R] /\ h[T] = e[p] + h[R]
      BY <1>2, <1>3, <3>1 DEF SumsUp
    <3>3. h[R] = g[R] + Change(R)
      BY <1>6, <3>1
    <3>4. /\ g[R] \in Nat /\ f[p] \in Nat /\ f[x] \in Nat
          /\ p = x => Change(R) = 0 /\ e[p] = v
          /\ p # x => Change(R) = Change(T) /\ e[p] = f[p]
          /\ Change(T) \in Int
      BY <1>1, <3>1
    <3>5. p = x => Change(T) = v - f[x]
      BY <3>1
    <3> HIDE DEF p, R, Change
    <3>6. QED
      BY <3>2, <3>3, <3>4, <3>5
  <2>2. QED
    BY <2>1
<1>7. Cardinality(D) \in H
  <2>1. Cardinality(D) \in Nat
    BY <1>4
  <2> HIDE DEF H
  <2>2. QED
    BY <1>5, <1>6, <2>1, SetInduction
<1>8. h[D] = g[D] + v - f[x]
  BY <1>7
<1>9. QED
  BY <1>2, <1>3, <1>8 DEF e

\* A function that is zero everywhere sums up to zero.
LEMMA SumOfZeros ==
    ASSUME NEW D, IsFiniteSet(D)
    PROVE  SumFunctionOnSet([x \in D |-> 0], D) = 0
<1> DEFINE z == [x \in D |-> 0]
           g == [S \in SUBSET D |-> 0]
<1>1. SumsUp(g, z, D)
  BY DEF SumsUp, Pick
<1>2. PICK h \in [SUBSET D -> Nat] : SumsUp(h, z, D) /\ SumFunctionOnSet(z, D) = h[D]
  BY SumOfAll
<1> HIDE DEF g, z
<1>3. h[D] = g[D]
  BY <1>1, <1>2, SumsUnique
<1>4. QED
  BY <1>2, <1>3 DEF g, z
=============================================================================
