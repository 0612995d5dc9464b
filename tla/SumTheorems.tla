----------------------------- MODULE SumTheorems -----------------------------
(***************************************************************************)
(* Sums over finite sets: what a sum is when an element is added, removed  *)
(* or changed.  The library's induction theorems take a predicate, which   *)
(* is an operator; here induction is about the set of numbers that satisfy *)
(* it, which first-order provers can do.                                   *)
(***************************************************************************)
EXTENDS FiniteSetsExt, FiniteSetTheorems, WellFoundedInduction, TLAPS

(***************************************************************************)
(* Induction.                                                              *)
(***************************************************************************)
\* A set of naturals with 0 and all successors is all of them.
LEMMA NatInductive ==
  ASSUME NEW N \in SUBSET Nat, 0 \in N, \A n \in N : n + 1 \in N
  PROVE  N = Nat
<1> SUFFICES ASSUME Nat \ N # {}
             PROVE  FALSE
  OBVIOUS
<1>1. PICK n \in Nat \ N : \A m \in Nat \ N : ~ (<<m, n>> \in OpToRel(<, Nat))
  <2>1. Nat \ N \subseteq Nat
    OBVIOUS
  <2>2. QED  BY <2>1, NatLessThanWellFounded, WFMin, Zenon
<1>2. \A m \in Nat \ N : ~ (m < n)
  BY <1>1 DEF OpToRel
<1>3. n # 0 /\ n - 1 \in Nat
  OBVIOUS
<1>4. n - 1 \in N
  BY <1>2, <1>3
<1>5. QED  BY <1>4

\* A set with a successor of elements has one, and without it one less.
LEMMA OneLess ==
  ASSUME NEW S, IsFiniteSet(S), NEW T \in SUBSET S, NEW n \in Nat, Cardinality(T) = n + 1
  PROVE  /\ T # {}
         /\ \A x \in T : T \ {x} \in SUBSET S /\ Cardinality(T \ {x}) = n
<1>1. IsFiniteSet(T)
  BY FS_Subset
<1>2. T # {}
  <2>1. Cardinality(T) # 0
    OBVIOUS
  <2>2. QED  BY <2>1, FS_EmptySet, Zenon
<1>3. \A x \in T : Cardinality(T \ {x}) = Cardinality(T) - 1
  BY <1>1, FS_RemoveElement
<1>4. QED  BY <1>2, <1>3

(***************************************************************************)
(* The recursion that a sum is: there is a function that satisfies it, and *)
(* only one.                                                               *)
(***************************************************************************)
Chosen(T) == CHOOSE x \in T : TRUE

\* g has the sum of f over each of these sets.
SumsOf(f, Sets, g) ==
  g = [T \in Sets |-> IF T = {} THEN 0 ELSE f[Chosen(T)] + g[T \ {Chosen(T)}]]

SubsetsUpTo(S, n) == {T \in SUBSET S : Cardinality(T) <= n}

LEMMA ChosenIsIn ==
  ASSUME NEW T, T # {}
  PROVE  Chosen(T) \in T
BY DEF Chosen

LEMMA SumsExist ==
  ASSUME NEW S, IsFiniteSet(S), NEW f
  PROVE  \E g : SumsOf(f, SUBSET S, g)
<1> DEFINE N == {n \in Nat : \E g : SumsOf(f, SubsetsUpTo(S, n), g)}
<1>1. \A T \in SUBSET S : IsFiniteSet(T) /\ Cardinality(T) \in Nat
  BY FS_Subset, FS_CardinalityType
<1>2. 0 \in N
  <2>1. SubsetsUpTo(S, 0) = {{}}
    BY <1>1, FS_EmptySet DEF SubsetsUpTo
  <2> DEFINE g == [T \in {{}} |-> 0]
  <2>2. SumsOf(f, SubsetsUpTo(S, 0), g)
    BY <2>1 DEF SumsOf
  <2>3. QED  BY <2>2
<1>3. ASSUME NEW n \in N
      PROVE  n + 1 \in N
  <2>1. PICK g : SumsOf(f, SubsetsUpTo(S, n), g)
    OBVIOUS
  <2> DEFINE h == [T \in SubsetsUpTo(S, n + 1) |->
                     IF T = {} THEN 0 ELSE f[Chosen(T)] + g[T \ {Chosen(T)}]]
  <2>2. \A T \in SubsetsUpTo(S, n) : T \in SubsetsUpTo(S, n + 1)
    BY <1>1 DEF SubsetsUpTo
  <2>3. \A T \in SubsetsUpTo(S, n) : h[T] = g[T]
    BY <2>1, <2>2 DEF SumsOf
  <2>4. ASSUME NEW T \in SubsetsUpTo(S, n + 1), T # {}
        PROVE  T \ {Chosen(T)} \in SubsetsUpTo(S, n)
    <3>1. Cardinality(T \ {Chosen(T)}) = Cardinality(T) - 1
      BY <1>1, <2>4, ChosenIsIn, FS_RemoveElement DEF SubsetsUpTo
    <3>2. QED  BY <1>1, <3>1 DEF SubsetsUpTo
  <2>5. SumsOf(f, SubsetsUpTo(S, n + 1), h)
    BY <2>3, <2>4 DEF SumsOf
  <2> HIDE DEF h
  <2>6. n + 1 \in Nat
    OBVIOUS
  <2>7. QED  BY <2>5, <2>6
<1>4. N = Nat
  <2>1. N \in SUBSET Nat
    OBVIOUS
  <2> HIDE DEF N
  <2>2. QED  BY <1>2, <1>3, <2>1, NatInductive
<1>5. SubsetsUpTo(S, Cardinality(S)) = SUBSET S
  BY <1>1, FS_Subset DEF SubsetsUpTo
<1>6. Cardinality(S) \in N
  BY <1>1, <1>4
<1>7. QED  BY <1>5, <1>6

\* Functions with the sums of f and h agree where f and h do.
LEMMA SumsAgree ==
  ASSUME NEW S, IsFiniteSet(S), NEW f, NEW h, \A x \in S : f[x] = h[x],
         NEW Sets1, NEW g1, SumsOf(f, Sets1, g1), SUBSET S \subseteq Sets1,
         NEW Sets2, NEW g2, SumsOf(h, Sets2, g2), SUBSET S \subseteq Sets2
  PROVE  g1[S] = g2[S]
<1> DEFINE N == {n \in Nat : \A T \in SUBSET S : Cardinality(T) = n => g1[T] = g2[T]}
<1>1. \A T \in SUBSET S : IsFiniteSet(T) /\ Cardinality(T) \in Nat
  BY FS_Subset, FS_CardinalityType
<1>2. \A T \in SUBSET S :
        /\ g1[T] = IF T = {} THEN 0 ELSE f[Chosen(T)] + g1[T \ {Chosen(T)}]
        /\ g2[T] = IF T = {} THEN 0 ELSE h[Chosen(T)] + g2[T \ {Chosen(T)}]
  BY DEF SumsOf
<1>3. 0 \in N
  BY <1>1, <1>2, FS_EmptySet
<1>4. ASSUME NEW n \in N
      PROVE  n + 1 \in N
  <2> SUFFICES ASSUME NEW T \in SUBSET S, Cardinality(T) = n + 1
               PROVE  g1[T] = g2[T]
    OBVIOUS
  <2>1. T # {}
    BY OneLess
  <2>2. Chosen(T) \in T /\ Cardinality(T \ {Chosen(T)}) = n
    BY <2>1, ChosenIsIn, OneLess
  <2>3. g1[T \ {Chosen(T)}] = g2[T \ {Chosen(T)}] /\ f[Chosen(T)] = h[Chosen(T)]
    BY <2>2
  <2>4. QED  BY <1>2, <2>1, <2>3
<1>5. N = Nat
  <2>1. N \in SUBSET Nat
    OBVIOUS
  <2> HIDE DEF N
  <2>2. QED  BY <1>3, <1>4, <2>1, NatInductive
<1>6. QED  BY <1>1, <1>5

LEMMA SumIsOneOfThem ==
  ASSUME NEW S, IsFiniteSet(S), NEW f
  PROVE  \E g : SumsOf(f, SUBSET S, g) /\ SumFunctionOnSet(f, S) = g[S]
<1> DEFINE g == CHOOSE g : SumsOf(f, SUBSET S, g)
<1>1. SumsOf(f, SUBSET S, g)
  <2>1. \E h : SumsOf(f, SUBSET S, h)
    BY SumsExist
  <2>2. QED  BY <2>1, Zenon
<1>2. SumFunctionOnSet(f, S) = g[S]
  BY Zenon DEF SumFunctionOnSet, FoldFunctionOnSet, MapThenFoldSet, SumsOf, Chosen
<1>3. QED  BY <1>1, <1>2

(***************************************************************************)
(* Sums.                                                                   *)
(***************************************************************************)
\* The sum over no element is 0, and over others the element first taken is
\* added to the sum over the rest.
LEMMA SumTakesChosen ==
  ASSUME NEW S, IsFiniteSet(S), NEW f
  PROVE  SumFunctionOnSet(f, S) =
           IF S = {} THEN 0 ELSE f[Chosen(S)] + SumFunctionOnSet(f, S \ {Chosen(S)})
<1>1. PICK g : SumsOf(f, SUBSET S, g) /\ SumFunctionOnSet(f, S) = g[S]
  BY SumIsOneOfThem
<1>2. g[S] = IF S = {} THEN 0 ELSE f[Chosen(S)] + g[S \ {Chosen(S)}]
  BY <1>1 DEF SumsOf
<1> DEFINE T == S \ {Chosen(S)}
<1>3. IsFiniteSet(T)
  BY FS_RemoveElement
<1>4. PICK h : SumsOf(f, SUBSET T, h) /\ SumFunctionOnSet(f, T) = h[T]
  BY <1>3, SumIsOneOfThem
<1>5. g[T] = h[T]
  BY <1>1, <1>3, <1>4, SumsAgree
<1>6. QED  BY <1>1, <1>2, <1>4, <1>5

LEMMA SumEmpty == ASSUME NEW f PROVE SumFunctionOnSet(f, {}) = 0
BY SumTakesChosen, FS_EmptySet

\* Functions with the same values have the same sum.
LEMMA SumSame ==
  ASSUME NEW S, IsFiniteSet(S), NEW f, NEW h, \A x \in S : f[x] = h[x]
  PROVE  SumFunctionOnSet(f, S) = SumFunctionOnSet(h, S)
<1>1. PICK g1 : SumsOf(f, SUBSET S, g1) /\ SumFunctionOnSet(f, S) = g1[S]
  BY SumIsOneOfThem
<1>2. PICK g2 : SumsOf(h, SUBSET S, g2) /\ SumFunctionOnSet(h, S) = g2[S]
  BY SumIsOneOfThem
<1>3. QED  BY <1>1, <1>2, SumsAgree

LEMMA SumType ==
  ASSUME NEW S, IsFiniteSet(S), NEW f, \A x \in S : f[x] \in Nat
  PROVE  SumFunctionOnSet(f, S) \in Nat
<1> DEFINE N == {n \in Nat : \A T \in SUBSET S :
                   Cardinality(T) = n => SumFunctionOnSet(f, T) \in Nat}
<1>1. \A T \in SUBSET S : IsFiniteSet(T) /\ Cardinality(T) \in Nat
  BY FS_Subset, FS_CardinalityType
<1>2. 0 \in N
  BY <1>1, SumEmpty, FS_EmptySet
<1>3. ASSUME NEW n \in N
      PROVE  n + 1 \in N
  <2> SUFFICES ASSUME NEW T \in SUBSET S, Cardinality(T) = n + 1
               PROVE  SumFunctionOnSet(f, T) \in Nat
    OBVIOUS
  <2>1. T # {}
    BY OneLess
  <2>2. Chosen(T) \in T /\ Cardinality(T \ {Chosen(T)}) = n
    BY <2>1, ChosenIsIn, OneLess
  <2>3. SumFunctionOnSet(f, T) = f[Chosen(T)] + SumFunctionOnSet(f, T \ {Chosen(T)})
    BY <1>1, <2>1, SumTakesChosen
  <2>4. f[Chosen(T)] \in Nat /\ SumFunctionOnSet(f, T \ {Chosen(T)}) \in Nat
    BY <2>2
  <2>5. QED  BY <2>3, <2>4
<1>4. N = Nat
  <2>1. N \in SUBSET Nat
    OBVIOUS
  <2> HIDE DEF N
  <2>2. QED  BY <1>2, <1>3, <2>1, NatInductive
<1>5. QED  BY <1>1, <1>4

LEMMA SumOfZeros ==
  ASSUME NEW S, IsFiniteSet(S), NEW f, \A x \in S : f[x] = 0
  PROVE  SumFunctionOnSet(f, S) = 0
<1> DEFINE N == {n \in Nat : \A T \in SUBSET S :
                   Cardinality(T) = n => SumFunctionOnSet(f, T) = 0}
<1>1. \A T \in SUBSET S : IsFiniteSet(T) /\ Cardinality(T) \in Nat
  BY FS_Subset, FS_CardinalityType
<1>2. 0 \in N
  BY <1>1, SumEmpty, FS_EmptySet
<1>3. ASSUME NEW n \in N
      PROVE  n + 1 \in N
  <2> SUFFICES ASSUME NEW T \in SUBSET S, Cardinality(T) = n + 1
               PROVE  SumFunctionOnSet(f, T) = 0
    OBVIOUS
  <2>1. T # {}
    BY OneLess
  <2>2. Chosen(T) \in T /\ Cardinality(T \ {Chosen(T)}) = n
    BY <2>1, ChosenIsIn, OneLess
  <2>3. SumFunctionOnSet(f, T) = f[Chosen(T)] + SumFunctionOnSet(f, T \ {Chosen(T)})
    BY <1>1, <2>1, SumTakesChosen
  <2>4. f[Chosen(T)] = 0 /\ SumFunctionOnSet(f, T \ {Chosen(T)}) = 0
    BY <2>2
  <2>5. QED  BY <2>3, <2>4
<1>4. N = Nat
  <2>1. N \in SUBSET Nat
    OBVIOUS
  <2> HIDE DEF N
  <2>2. QED  BY <1>2, <1>3, <2>1, NatInductive
<1>5. QED  BY <1>1, <1>4

\* Any element may be taken first.
LEMMA SumTakes ==
  ASSUME NEW S, IsFiniteSet(S), NEW f, \A x \in S : f[x] \in Nat, NEW x \in S
  PROVE  SumFunctionOnSet(f, S) = f[x] + SumFunctionOnSet(f, S \ {x})
<1> DEFINE N == {n \in Nat : \A T \in SUBSET S : Cardinality(T) = n =>
                   \A y \in T : SumFunctionOnSet(f, T) = f[y] + SumFunctionOnSet(f, T \ {y})}
<1>1. \A T \in SUBSET S : IsFiniteSet(T) /\ Cardinality(T) \in Nat
  BY FS_Subset, FS_CardinalityType
<1>2. 0 \in N
  BY <1>1, FS_EmptySet
<1>3. ASSUME NEW n \in N
      PROVE  n + 1 \in N
  <2> SUFFICES ASSUME NEW T \in SUBSET S, Cardinality(T) = n + 1, NEW y \in T
               PROVE  SumFunctionOnSet(f, T) = f[y] + SumFunctionOnSet(f, T \ {y})
    OBVIOUS
  <2> DEFINE z == Chosen(T)
  <2>1. /\ z \in T /\ Cardinality(T \ {z}) = n /\ Cardinality(T \ {y}) = n
        /\ SumFunctionOnSet(f, T) = f[z] + SumFunctionOnSet(f, T \ {z})
    <3>1. T # {} /\ z \in T
      BY ChosenIsIn
    <3>2. Cardinality(T \ {z}) = n /\ Cardinality(T \ {y}) = n
      BY <3>1, OneLess
    <3>3. SumFunctionOnSet(f, T) = f[z] + SumFunctionOnSet(f, T \ {z})
      BY <1>1, <3>1, SumTakesChosen
    <3>4. QED  BY <3>1, <3>2, <3>3
  <2> HIDE DEF z
  <2>2. CASE y = z
    BY <2>1, <2>2
  <2>3. CASE y # z
    <3>1. SumFunctionOnSet(f, T \ {z}) = f[y] + SumFunctionOnSet(f, (T \ {z}) \ {y})
      BY <2>1, <2>3
    <3>2. SumFunctionOnSet(f, T \ {y}) = f[z] + SumFunctionOnSet(f, (T \ {y}) \ {z})
      BY <2>1, <2>3
    <3>3. (T \ {z}) \ {y} = (T \ {y}) \ {z}
      OBVIOUS
    <3>4. /\ f[y] \in Nat /\ f[z] \in Nat
          /\ SumFunctionOnSet(f, (T \ {y}) \ {z}) \in Nat
      <4>1. (T \ {y}) \ {z} \in SUBSET S
        OBVIOUS
      <4>2. \A w \in (T \ {y}) \ {z} : f[w] \in Nat
        OBVIOUS
      <4>3. QED  BY <1>1, <2>1, <4>1, <4>2, SumType
    <3>5. QED  BY <2>1, <3>1, <3>2, <3>3, <3>4
  <2>4. QED  BY <2>2, <2>3
<1>4. N = Nat
  <2>1. N \in SUBSET Nat
    OBVIOUS
  <2> HIDE DEF N
  <2>2. QED  BY <1>2, <1>3, <2>1, NatInductive
<1>5. QED  BY <1>1, <1>4

LEMMA SumAdds ==
  ASSUME NEW S, IsFiniteSet(S), NEW f, \A y \in S : f[y] \in Nat,
         NEW x, x \notin S, f[x] \in Nat
  PROVE  SumFunctionOnSet(f, S \union {x}) = SumFunctionOnSet(f, S) + f[x]
<1>1. IsFiniteSet(S \union {x}) /\ (S \union {x}) \ {x} = S
  BY FS_AddElement
<1>2. SumFunctionOnSet(f, S \union {x}) = f[x] + SumFunctionOnSet(f, (S \union {x}) \ {x})
  BY <1>1, SumTakes
<1>3. SumFunctionOnSet(f, S) \in Nat
  BY SumType
<1>4. SumFunctionOnSet(f, S \union {x}) = f[x] + SumFunctionOnSet(f, S)
  BY <1>1, <1>2, Zenon
<1>5. QED  BY <1>3, <1>4

\* A value that changes changes the sum by as much.
LEMMA SumChanges ==
  ASSUME NEW S, IsFiniteSet(S), NEW f, \A y \in S : f[y] \in Nat,
         NEW x \in S, NEW h, h[x] \in Nat, \A y \in S \ {x} : h[y] = f[y]
  PROVE  SumFunctionOnSet(h, S) = (SumFunctionOnSet(f, S) - f[x]) + h[x]
<1>1. IsFiniteSet(S \ {x})
  BY FS_RemoveElement
<1>2. SumFunctionOnSet(f, S) = f[x] + SumFunctionOnSet(f, S \ {x})
  BY SumTakes
<1>3. \A y \in S : h[y] \in Nat
  OBVIOUS
<1>4. SumFunctionOnSet(h, S) = h[x] + SumFunctionOnSet(h, S \ {x})
  BY <1>3, SumTakes
<1>5. SumFunctionOnSet(h, S \ {x}) = SumFunctionOnSet(f, S \ {x})
  BY <1>1, SumSame
<1>6. SumFunctionOnSet(f, S \ {x}) \in Nat
  BY <1>1, SumType
<1>7. QED  BY <1>2, <1>4, <1>5, <1>6

\* No value exceeds the sum.
LEMMA SumAtLeast ==
  ASSUME NEW S, IsFiniteSet(S), NEW f, \A y \in S : f[y] \in Nat, NEW x \in S
  PROVE  f[x] <= SumFunctionOnSet(f, S)
<1>1. SumFunctionOnSet(f, S) = f[x] + SumFunctionOnSet(f, S \ {x})
  BY SumTakes
<1>2. SumFunctionOnSet(f, S \ {x}) \in Nat
  BY SumType, FS_RemoveElement
<1>3. QED  BY <1>1, <1>2
=============================================================================
