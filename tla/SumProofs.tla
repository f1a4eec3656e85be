------------------------------- MODULE SumProofs -------------------------------
(***************************************************************************)
(* Induction and sums.  A recursive function, and a sum over a set, is     *)
(* characterised here once, by induction on the natural numbers or on the  *)
(* size of a finite set: both rest on the well-foundedness of <.           *)
(***************************************************************************)
EXTENDS Integers, FiniteSets, Functions, WellFoundedInduction, FiniteSetTheorems, TLAPS

\* A set of natural numbers that is not empty has a least element.
LEMMA NatLeast ==
  ASSUME NEW T \in SUBSET Nat, T # {}
  PROVE  \E m \in T : \A n \in T : m <= n
<1>. DEFINE R == OpToRel(<, Nat)
<1>0. IsWellFoundedOn(R, Nat)
  BY NatLessThanWellFounded
<1>2. \A n, m \in Nat : <<n, m>> \in R <=> n < m
  BY DEF OpToRel
<1>. HIDE DEF R
<1>1. PICK m \in T : \A n \in T : ~(<<n, m>> \in R)
  BY <1>0, WFMin
<1>3. ASSUME NEW n \in T PROVE m <= n
  <2>1. m \in Nat /\ n \in Nat /\ ~(n < m)
    BY <1>1, <1>2
  <2>. QED BY <2>1
<1>. QED BY <1>3

\* Induction on the natural numbers, for a set T instead of a predicate.
LEMMA SetInduction ==
  ASSUME NEW T, 0 \in T, \A n \in Nat : n \in T => n + 1 \in T
  PROVE  Nat \subseteq T
<1>. SUFFICES ASSUME Nat \ T # {} PROVE FALSE
  OBVIOUS
<1>1. PICK m \in Nat \ T : \A n \in Nat \ T : m <= n
  BY NatLeast
<1>2. m # 0 /\ m - 1 \in Nat /\ m - 1 < m
  BY <1>1
<1>3. m - 1 \in T
  BY <1>1, <1>2
<1>4. (m - 1) + 1 \in T
  BY <1>2, <1>3
<1>. QED BY <1>1, <1>4

\* g holds the sum of f over each part of S: the recursion inside the fold of
\* SumFunctionOnSet.
PartialSums(f, S, g) ==
    g = [s \in SUBSET S |-> IF s = {} THEN 0
                            ELSE f[CHOOSE x \in s : TRUE] + g[s \ {CHOOSE x \in s : TRUE}]]

\* A finite set is one larger than what is left of it without one element.
LEMMA Removal ==
  ASSUME NEW s, IsFiniteSet(s), NEW x \in s
  PROVE  /\ IsFiniteSet(s \ {x})
         /\ Cardinality(s) \in Nat /\ Cardinality(s \ {x}) \in Nat
         /\ Cardinality(s) = Cardinality(s \ {x}) + 1
<1>1. IsFiniteSet(s \ {x}) /\ Cardinality(s \ {x}) = Cardinality(s) - 1
  BY FS_RemoveElement
<1>2. Cardinality(s) \in Nat /\ Cardinality(s \ {x}) \in Nat
  BY <1>1, FS_CardinalityType
<1>. QED BY <1>1, <1>2

\* The recursion of the fold has a solution: by induction on the size of the parts.
LEMMA PartialSumsExist ==
  ASSUME NEW S, IsFiniteSet(S), NEW f, \A x \in S : f[x] \in Int
  PROVE  \E g \in [SUBSET S -> Int] : PartialSums(f, S, g)
<1>. DEFINE Small(n) == {s \in SUBSET S : Cardinality(s) <= n}
            c(s) == CHOOSE x \in s : TRUE
            Next(s, g) == IF s = {} THEN 0 ELSE f[c(s)] + g[s \ {c(s)}]
            T == {n \in Nat : \E g \in [Small(n) -> Int] : \A s \in Small(n) : g[s] = Next(s, g)}
<1>0. \A s \in SUBSET S : IsFiniteSet(s) /\ Cardinality(s) \in Nat
  BY FS_Subset, FS_CardinalityType
<1>c. \A s \in SUBSET S : s # {} => c(s) \in s /\ c(s) \in S /\ f[c(s)] \in Int
  OBVIOUS
<1>m. ASSUME NEW n \in Nat, NEW s \in Small(n + 1), s # {}
      PROVE  s \ {c(s)} \in Small(n)
  <2>1. Cardinality(s) = Cardinality(s \ {c(s)}) + 1 /\ Cardinality(s \ {c(s)}) \in Nat
    BY <1>0, <1>c, <1>m, Removal
  <2>2. Cardinality(s) <= n + 1
    OBVIOUS
  <2>3. Cardinality(s \ {c(s)}) <= n
    BY <2>1, <2>2
  <2>. QED BY <2>3
<1>. HIDE DEF c
<1>1. 0 \in T
  <2>1. \A s \in Small(0) : s = {}
    BY <1>0, FS_EmptySet
  <2>. DEFINE g == [s \in Small(0) |-> 0]
  <2>2. g \in [Small(0) -> Int] /\ \A s \in Small(0) : g[s] = Next(s, g)
    BY <2>1
  <2>. QED BY <2>2
<1>2. ASSUME NEW n \in Nat, n \in T PROVE n + 1 \in T
  <2>1. PICK g \in [Small(n) -> Int] : \A s \in Small(n) : g[s] = Next(s, g)
    BY <1>2
  <2>. DEFINE h == [s \in Small(n + 1) |-> Next(s, g)]
  <2>2. h \in [Small(n + 1) -> Int]
    <3>. SUFFICES ASSUME NEW s \in Small(n + 1) PROVE Next(s, g) \in Int
      OBVIOUS
    <3>1. CASE s = {}
      BY <3>1
    <3>2. CASE s # {}
      <4>1. g[s \ {c(s)}] \in Int
        BY <1>m, <2>1, <3>2
      <4>2. f[c(s)] \in Int
        BY <1>c, <3>2
      <4>. QED BY <4>1, <4>2, <3>2
    <3>. QED BY <3>1, <3>2
  <2>3. ASSUME NEW s \in Small(n + 1) PROVE h[s] = Next(s, h)
    <3>1. CASE s = {}
      BY <3>1
    <3>2. CASE s # {}
      <4>1. s \ {c(s)} \in Small(n) /\ s \ {c(s)} \in Small(n + 1)
        BY <1>m, <1>0, <3>2
      <4>2. h[s \ {c(s)}] = g[s \ {c(s)}]
        BY <4>1, <2>1
      <4>. QED BY <4>2, <3>2
    <3>. QED BY <3>1, <3>2
  <2>. HIDE DEF h
  <2>4. \E k \in [Small(n + 1) -> Int] : \A s \in Small(n + 1) : k[s] = Next(s, k)
    BY <2>2, <2>3, Zenon
  <2>5. n + 1 \in Nat
    OBVIOUS
  <2>. QED BY <2>4, <2>5, Zenon
<1>3. Nat \subseteq T
  BY <1>1, <1>2, SetInduction
<1>4. PICK g \in [Small(Cardinality(S)) -> Int] : \A s \in Small(Cardinality(S)) : g[s] = Next(s, g)
  BY <1>3, <1>0
<1>5. Small(Cardinality(S)) = SUBSET S
  BY FS_Subset
<1>6. g = [s \in SUBSET S |-> Next(s, g)]
  BY <1>4, <1>5
<1>. QED BY <1>4, <1>5, <1>6 DEF PartialSums, c

\* Induction on the parts of a finite set: from the parts with one element less.
LEMMA FiniteSetInduction ==
  ASSUME NEW S, IsFiniteSet(S), NEW T, {} \in T,
         \A s \in SUBSET S : s # {} /\ (\A x \in s : s \ {x} \in T) => s \in T
  PROVE  SUBSET S \subseteq T
<1>. DEFINE N == {n \in Nat : \A s \in SUBSET S : Cardinality(s) = n => s \in T}
<1>0. \A s \in SUBSET S : IsFiniteSet(s) /\ Cardinality(s) \in Nat
  BY FS_Subset, FS_CardinalityType
<1>1. 0 \in N
  BY <1>0, FS_EmptySet
<1>2. ASSUME NEW n \in Nat, n \in N PROVE n + 1 \in N
  <2>. SUFFICES ASSUME NEW s \in SUBSET S, Cardinality(s) = n + 1 PROVE s \in T
    OBVIOUS
  <2>1. s # {}
    <3>1. Cardinality(s) # 0
      OBVIOUS
    <3>. QED BY <3>1, FS_EmptySet
  <2>2. ASSUME NEW x \in s PROVE s \ {x} \in T
    <3>1. Cardinality(s) = Cardinality(s \ {x}) + 1 /\ Cardinality(s \ {x}) \in Nat
      BY <1>0, Removal
    <3>2. Cardinality(s \ {x}) = n
      BY <3>1
    <3>. QED BY <3>2, <1>2
  <2>. QED BY <2>1, <2>2
<1>3. Nat \subseteq N
  BY <1>1, <1>2, SetInduction
<1>. QED BY <1>0, <1>3

\* The solution is unique, and that on a larger set extends that on a smaller one.
LEMMA PartialSumsAgree ==
  ASSUME NEW S, NEW S2, IsFiniteSet(S), S \subseteq S2,
         NEW f, NEW f2, \A x \in S : f[x] = f2[x],
         NEW g, NEW g2, PartialSums(f, S, g), PartialSums(f2, S2, g2)
  PROVE  \A s \in SUBSET S : g[s] = g2[s]
<1>. DEFINE T == {s \in SUBSET S : g[s] = g2[s]}
            c(s) == CHOOSE x \in s : TRUE
<1>1. \A s \in SUBSET S : g[s] = IF s = {} THEN 0 ELSE f[c(s)] + g[s \ {c(s)}]
  BY DEF PartialSums
<1>2. \A s \in SUBSET S : g2[s] = IF s = {} THEN 0 ELSE f2[c(s)] + g2[s \ {c(s)}]
  BY DEF PartialSums
<1>3. \A s \in SUBSET S : s # {} => c(s) \in s
  OBVIOUS
<1>. HIDE DEF c
<1>4. {} \in T
  BY <1>1, <1>2
<1>5. ASSUME NEW s \in SUBSET S, s # {}, \A x \in s : s \ {x} \in T PROVE s \in T
  <2>1. c(s) \in s
    BY <1>3, <1>5
  <2>2. g[s \ {c(s)}] = g2[s \ {c(s)}] /\ f[c(s)] = f2[c(s)]
    BY <2>1, <1>5
  <2>. QED BY <1>1, <1>2, <1>5, <2>2
<1>6. SUBSET S \subseteq T
  <2>. HIDE DEF T
  <2>. QED BY <1>4, <1>5, FiniteSetInduction
<1>. QED BY <1>6

\* The fold takes the elements in the order CHOOSE gives; it may as well take e first.
LEMMA PartialSumsStep ==
  ASSUME NEW S, IsFiniteSet(S), NEW f, \A x \in S : f[x] \in Int,
         NEW g, \A s \in SUBSET S : g[s] \in Int, PartialSums(f, S, g), NEW e \in S
  PROVE  g[S] = f[e] + g[S \ {e}]
<1>. DEFINE T == {s \in SUBSET S : \A x \in s : g[s] = f[x] + g[s \ {x}]}
            c(s) == CHOOSE x \in s : TRUE
<1>1. \A s \in SUBSET S : g[s] = IF s = {} THEN 0 ELSE f[c(s)] + g[s \ {c(s)}]
  BY DEF PartialSums
<1>3. \A s \in SUBSET S : s # {} => c(s) \in s
  OBVIOUS
<1>. HIDE DEF c
<1>4. {} \in T
  OBVIOUS
<1>5. ASSUME NEW s \in SUBSET S, s # {}, \A x \in s : s \ {x} \in T PROVE s \in T
  <2>. SUFFICES ASSUME NEW x \in s, x # c(s) PROVE g[s] = f[x] + g[s \ {x}]
    BY <1>1, <1>5
  <2>1. c(s) \in s
    BY <1>3, <1>5
  <2>2. g[s] = f[c(s)] + g[s \ {c(s)}]
    BY <1>1, <1>5
  <2>3. g[s \ {c(s)}] = f[x] + g[(s \ {c(s)}) \ {x}]
    BY <2>1, <1>5
  <2>4. g[s \ {x}] = f[c(s)] + g[(s \ {x}) \ {c(s)}]
    BY <2>1, <1>5
  <2>5. (s \ {c(s)}) \ {x} = (s \ {x}) \ {c(s)}
    OBVIOUS
  <2>6. f[x] \in Int /\ f[c(s)] \in Int /\ g[(s \ {x}) \ {c(s)}] \in Int
    BY <2>1
  <2>7. \A a, b, w \in Int : a + (b + w) = b + (a + w)
    OBVIOUS
  <2>8. f[c(s)] + (f[x] + g[(s \ {x}) \ {c(s)}]) = f[x] + (f[c(s)] + g[(s \ {x}) \ {c(s)}])
    BY ONLY <2>6, <2>7
  <2>. QED BY <2>2, <2>3, <2>4, <2>5, <2>8
<1>6. SUBSET S \subseteq T
  <2>. HIDE DEF T
  <2>. QED BY <1>4, <1>5, FiniteSetInduction
<1>. QED BY <1>6

\* SumFunctionOnSet is such a solution.
LEMMA PartialSumsOf ==
  ASSUME NEW S, IsFiniteSet(S), NEW f, \A x \in S : f[x] \in Int
  PROVE  \E g \in [SUBSET S -> Int] : PartialSums(f, S, g) /\ SumFunctionOnSet(f, S) = g[S]
<1>. DEFINE G == CHOOSE g : PartialSums(f, S, g)
<1>1. PICK g \in [SUBSET S -> Int] : PartialSums(f, S, g)
  BY PartialSumsExist
<1>2. PartialSums(f, S, G)
  BY <1>1
<1>3. SumFunctionOnSet(f, S) = G[S]
  BY DEF SumFunctionOnSet, FoldFunctionOnSet, MapThenFoldSet, PartialSums
<1>. HIDE DEF G
<1>4. \A s \in SUBSET S : G[s] = g[s]
  BY <1>1, <1>2, PartialSumsAgree
<1>. QED BY <1>1, <1>3, <1>4

\* A sum of integers is an integer.
LEMMA SumType ==
  ASSUME NEW S, IsFiniteSet(S), NEW f, \A x \in S : f[x] \in Int
  PROVE  SumFunctionOnSet(f, S) \in Int
<1>1. PICK g \in [SUBSET S -> Int] : PartialSums(f, S, g) /\ SumFunctionOnSet(f, S) = g[S]
  BY PartialSumsOf
<1>2. S \in SUBSET S
  OBVIOUS
<1>3. g[S] \in Int
  BY <1>2
<1>. QED BY <1>1, <1>3

\* The sum over no element is 0.
LEMMA SumEmpty ==
  ASSUME NEW f
  PROVE  SumFunctionOnSet(f, {}) = 0
<1>1. PICK g \in [SUBSET {} -> Int] : PartialSums(f, {}, g) /\ SumFunctionOnSet(f, {}) = g[{}]
  BY PartialSumsOf, FS_EmptySet
<1>. QED BY <1>1 DEF PartialSums

\* Equal summands have equal sums.
LEMMA SumEqual ==
  ASSUME NEW S, IsFiniteSet(S), NEW f, NEW f2, \A x \in S : f[x] \in Int /\ f[x] = f2[x]
  PROVE  SumFunctionOnSet(f, S) = SumFunctionOnSet(f2, S)
<1>0. \A x \in S : f2[x] \in Int
  OBVIOUS
<1>1. PICK g \in [SUBSET S -> Int] : PartialSums(f, S, g) /\ SumFunctionOnSet(f, S) = g[S]
  BY PartialSumsOf
<1>2. PICK g2 \in [SUBSET S -> Int] : PartialSums(f2, S, g2) /\ SumFunctionOnSet(f2, S) = g2[S]
  BY <1>0, PartialSumsOf
<1>3. g[S] = g2[S]
  BY <1>1, <1>2, PartialSumsAgree
<1>. QED BY <1>1, <1>2, <1>3

\* A sum is one summand and the sum of the others.
LEMMA SumStep ==
  ASSUME NEW S, IsFiniteSet(S), NEW f, \A x \in S : f[x] \in Int, NEW x \in S
  PROVE  SumFunctionOnSet(f, S) = f[x] + SumFunctionOnSet(f, S \ {x})
<1>. DEFINE R == S \ {x}
<1>0. IsFiniteSet(R) /\ R \subseteq S
  BY Removal
<1>1. PICK g \in [SUBSET S -> Int] : PartialSums(f, S, g) /\ SumFunctionOnSet(f, S) = g[S]
  BY PartialSumsOf
<1>2. PICK g2 \in [SUBSET R -> Int] : PartialSums(f, R, g2) /\ SumFunctionOnSet(f, R) = g2[R]
  BY <1>0, PartialSumsOf
<1>3. g[R] = g2[R]
  BY <1>0, <1>1, <1>2, PartialSumsAgree
<1>5. \A s \in SUBSET S : g[s] \in Int
  OBVIOUS
<1>4. g[S] = f[x] + g[S \ {x}]
  BY ONLY <1>1, <1>5, PartialSumsStep, IsFiniteSet(S), \A y \in S : f[y] \in Int, x \in S
<1>. QED BY <1>1, <1>2, <1>3, <1>4

\* Larger summands have a larger sum.
LEMMA SumLeq ==
  ASSUME NEW S, IsFiniteSet(S), NEW f, NEW f2,
         \A x \in S : f[x] \in Int /\ f2[x] \in Int /\ f[x] <= f2[x]
  PROVE  SumFunctionOnSet(f, S) <= SumFunctionOnSet(f2, S)
<1>. DEFINE sum(s) == SumFunctionOnSet(f, s)
            sum2(s) == SumFunctionOnSet(f2, s)
            T == {s \in SUBSET S : sum(s) <= sum2(s)}
<1>1. {} \in T
  BY SumEmpty
<1>2. ASSUME NEW s \in SUBSET S, NEW x \in s
      PROVE  /\ sum(s) = f[x] + sum(s \ {x}) /\ sum2(s) = f2[x] + sum2(s \ {x})
             /\ sum(s \ {x}) \in Int /\ sum2(s \ {x}) \in Int
  <2>1. IsFiniteSet(s) /\ IsFiniteSet(s \ {x}) /\ \A y \in s : f[y] \in Int /\ f2[y] \in Int
    BY FS_Subset
  <2>. QED BY <2>1, SumStep, SumType
<1>. HIDE DEF sum, sum2
<1>3. ASSUME NEW s \in SUBSET S, s # {}, \A x \in s : s \ {x} \in T PROVE s \in T
  <2>1. PICK x \in s : TRUE
    BY <1>3
  <2>2. sum(s \ {x}) <= sum2(s \ {x}) /\ f[x] <= f2[x] /\ f[x] \in Int /\ f2[x] \in Int
    BY <1>3
  <2>3. sum(s) <= sum2(s)
    BY <1>2, <2>2
  <2>. QED BY <2>3
<1>4. SUBSET S \subseteq T
  <2>. HIDE DEF T
  <2>. QED BY <1>1, <1>3, FiniteSetInduction
<1>. QED BY <1>4 DEF sum, sum2

\* A sum of natural numbers is one.
LEMMA SumNat ==
  ASSUME NEW S, IsFiniteSet(S), NEW f, \A x \in S : f[x] \in Nat
  PROVE  SumFunctionOnSet(f, S) \in Nat
<1>. DEFINE T == {s \in SUBSET S : SumFunctionOnSet(f, s) \in Nat}
<1>1. {} \in T
  BY SumEmpty
<1>2. ASSUME NEW s \in SUBSET S, s # {}, \A x \in s : s \ {x} \in T PROVE s \in T
  <2>1. PICK x \in s : TRUE
    BY <1>2
  <2>2. IsFiniteSet(s) /\ \A y \in s : f[y] \in Int
    BY FS_Subset
  <2>3. SumFunctionOnSet(f, s) = f[x] + SumFunctionOnSet(f, s \ {x})
    BY <2>2, SumStep
  <2>4. SumFunctionOnSet(f, s \ {x}) \in Nat /\ f[x] \in Nat
    BY <1>2
  <2>. QED BY <2>3, <2>4
<1>3. SUBSET S \subseteq T
  <2>. HIDE DEF T
  <2>. QED BY <1>1, <1>2, FiniteSetInduction
<1>. QED BY <1>3

\* A sum of zeros is 0.
LEMMA SumZero ==
  ASSUME NEW S, IsFiniteSet(S), NEW f, \A x \in S : f[x] = 0
  PROVE  SumFunctionOnSet(f, S) = 0
<1>. DEFINE T == {s \in SUBSET S : SumFunctionOnSet(f, s) = 0}
<1>1. {} \in T
  BY SumEmpty
<1>2. ASSUME NEW s \in SUBSET S, s # {}, \A x \in s : s \ {x} \in T PROVE s \in T
  <2>1. PICK x \in s : TRUE
    BY <1>2
  <2>2. IsFiniteSet(s) /\ \A y \in s : f[y] \in Int
    BY FS_Subset
  <2>3. SumFunctionOnSet(f, s) = f[x] + SumFunctionOnSet(f, s \ {x})
    BY <2>2, SumStep
  <2>4. SumFunctionOnSet(f, s \ {x}) = 0 /\ f[x] = 0
    BY <1>2
  <2>. QED BY <2>3, <2>4
<1>3. SUBSET S \subseteq T
  <2>. HIDE DEF T
  <2>. QED BY <1>1, <1>2, FiniteSetInduction
<1>. QED BY <1>3

\* A common factor may be taken out of a sum.
LEMMA SumScale ==
  ASSUME NEW S, IsFiniteSet(S), NEW f, \A x \in S : f[x] \in Int, NEW k \in Int,
         NEW f2, \A x \in S : f2[x] = f[x] * k
  PROVE  SumFunctionOnSet(f2, S) = SumFunctionOnSet(f, S) * k
<1>. DEFINE T == {s \in SUBSET S : SumFunctionOnSet(f2, s) = SumFunctionOnSet(f, s) * k}
<1>1. {} \in T
  <2>1. SumFunctionOnSet(f, {}) = 0 /\ SumFunctionOnSet(f2, {}) = 0
    BY SumEmpty
  <2>. QED BY <2>1
<1>2. ASSUME NEW s \in SUBSET S, s # {}, \A x \in s : s \ {x} \in T
      PROVE  s \in T
  <2>1. PICK x \in s : TRUE
    BY <1>2
  <2>2. IsFiniteSet(s) /\ IsFiniteSet(s \ {x})
    BY FS_Subset
  <2>3. (\A y \in s : f[y] \in Int /\ f2[y] \in Int) /\ f2[x] = f[x] * k
    <3>1. \A y \in S : f[y] * k \in Int
      OBVIOUS
    <3>. QED BY <3>1
  <2>. DEFINE a == SumFunctionOnSet(f, s \ {x})
              b == SumFunctionOnSet(f2, s \ {x})
  <2>4. SumFunctionOnSet(f, s) = f[x] + a /\ SumFunctionOnSet(f2, s) = f2[x] + b
    BY <2>1, <2>2, <2>3, SumStep
  <2>5. a \in Int /\ b = a * k
    BY <1>2, <2>1, <2>2, <2>3, SumType
  <2>. HIDE DEF a, b
  <2>6. (f[x] + a) * k = f[x] * k + a * k /\ f[x] \in Int
    BY <2>1, <2>3, <2>5
  <2>. QED BY <2>3, <2>4, <2>5, <2>6
<1>3. SUBSET S \subseteq T
  <2>. HIDE DEF T
  <2>. QED BY <1>1, <1>2, FiniteSetInduction
<1>. QED BY <1>3

\* More summands, none of them negative, have a larger sum.
LEMMA SumMore ==
  ASSUME NEW S, IsFiniteSet(S), NEW R \in SUBSET S, NEW f, \A x \in S : f[x] \in Nat
  PROVE  SumFunctionOnSet(f, R) <= SumFunctionOnSet(f, S)
<1>. DEFINE T == {s \in SUBSET (S \ R) : SumFunctionOnSet(f, R) <= SumFunctionOnSet(f, R \cup s)}
<1>0. IsFiniteSet(R) /\ IsFiniteSet(S \ R)
  BY FS_Subset
<1>1. {} \in T
  <2>1. R \cup {} = R /\ SumFunctionOnSet(f, R) \in Int
    BY <1>0, SumType
  <2>. QED BY <2>1
<1>2. ASSUME NEW s \in SUBSET (S \ R), s # {}, \A x \in s : s \ {x} \in T PROVE s \in T
  <2>1. PICK x \in s : TRUE
    BY <1>2
  <2>2. IsFiniteSet(R \cup s) /\ x \in R \cup s /\ (R \cup s) \ {x} = R \cup (s \ {x})
        /\ (\A y \in R \cup s : f[y] \in Int) /\ IsFiniteSet(R \cup (s \ {x}))
    BY FS_Subset
  <2>3. SumFunctionOnSet(f, R \cup s) = f[x] + SumFunctionOnSet(f, R \cup (s \ {x}))
    BY <2>2, SumStep
  <2>4. /\ SumFunctionOnSet(f, R) <= SumFunctionOnSet(f, R \cup (s \ {x})) /\ f[x] \in Nat
    BY <1>2
  <2>5. SumFunctionOnSet(f, R) \in Int /\ SumFunctionOnSet(f, R \cup (s \ {x})) \in Int
    BY <1>0, <2>2, SumType
  <2>. QED BY <2>3, <2>4, <2>5
<1>3. SUBSET (S \ R) \subseteq T
  <2>. HIDE DEF T
  <2>. QED BY <1>0, <1>1, <1>2, FiniteSetInduction
<1>4. SumFunctionOnSet(f, R) <= SumFunctionOnSet(f, R \cup (S \ R))
  BY <1>3
<1>5. R \cup (S \ R) = S
  OBVIOUS
<1>. QED BY <1>4, <1>5

\* What is added to one summand is added to the sum.
LEMMA SumBump ==
  ASSUME NEW S, IsFiniteSet(S), NEW f, NEW f2, NEW x \in S, NEW e \in Int,
         \A y \in S : f[y] \in Int /\ f2[y] \in Int,
         \A y \in S \ {x} : f2[y] = f[y], f2[x] = f[x] + e
  PROVE  SumFunctionOnSet(f2, S) = SumFunctionOnSet(f, S) + e
<1>1. IsFiniteSet(S \ {x})
  BY FS_Subset
<1>2. SumFunctionOnSet(f2, S \ {x}) = SumFunctionOnSet(f, S \ {x})
  BY <1>1, SumEqual
<1>3. SumFunctionOnSet(f2, S) = f2[x] + SumFunctionOnSet(f2, S \ {x})
  BY SumStep
<1>4. SumFunctionOnSet(f, S) = f[x] + SumFunctionOnSet(f, S \ {x})
  BY SumStep
<1>5. SumFunctionOnSet(f, S \ {x}) \in Int /\ f[x] \in Int
  BY <1>1, SumType
<1>. QED BY <1>2, <1>3, <1>4, <1>5

\* g lists f in the order of order, which repeats nothing; A is the set of the
\* first k elements.
Reindexed(S, n, order, f, g, k, A) ==
  /\ n \in Nat /\ k \in 0 .. n
  /\ \A i \in 1 .. n : order[i] \in S
  /\ \A i, j \in 1 .. n : order[i] = order[j] => i = j
  /\ \A x \in S : f[x] \in Int
  /\ g = [i \in 1 .. n |-> f[order[i]]]
  /\ A = {order[i] : i \in 1 .. k}

\* The sum along a list is the sum over its set: of demands along two task lists,
\* of utilisations along the list of a CPU.
LEMMA SumOverImage ==
  ASSUME NEW S, NEW n, NEW order, NEW f, NEW g, NEW k, NEW A,
         Reindexed(S, n, order, f, g, k, A)
  PROVE  IsFiniteSet(A) /\ SumFunctionOnSet(g, 1 .. k) = SumFunctionOnSet(f, A)
<1>. SUFFICES ASSUME n \in Nat, \A i \in 1 .. n : order[i] \in S,
                     \A i, j \in 1 .. n : order[i] = order[j] => i = j,
                     \A x \in S : f[x] \in Int, k \in 0 .. n,
                     g = [i \in 1 .. n |-> f[order[i]]],
                     A = {order[i] : i \in 1 .. k}
              PROVE  IsFiniteSet(A) /\ SumFunctionOnSet(g, 1 .. k) = SumFunctionOnSet(f, A)
  BY DEF Reindexed
<1>. DEFINE R(m) == {order[i] : i \in 1 .. m}
            T == {m \in Nat : m <= n => IsFiniteSet(R(m))
                                /\ SumFunctionOnSet(g, 1 .. m) = SumFunctionOnSet(f, R(m))}
<1>1. 0 \in T
  <2>1. 1 .. 0 = {} /\ R(0) = {}
    OBVIOUS
  <2>. QED BY <2>1, SumEmpty, FS_EmptySet
<1>2. ASSUME NEW m \in Nat, m \in T PROVE m + 1 \in T
  <2>. SUFFICES ASSUME m + 1 <= n
                PROVE  IsFiniteSet(R(m + 1))
                         /\ SumFunctionOnSet(g, 1 .. m + 1) = SumFunctionOnSet(f, R(m + 1))
    OBVIOUS
  <2>0. m + 1 \in 1 .. n /\ m + 1 \in Nat /\ m <= n
    OBVIOUS
  <2>1. R(m + 1) = R(m) \cup {order[m + 1]}
    <3>1. \A i : i \in 1 .. m + 1 <=> i \in 1 .. m \/ i = m + 1
      OBVIOUS
    <3>. QED BY <3>1
  <2>2. order[m + 1] \notin R(m) /\ order[m + 1] \in R(m + 1)
    <3>1. \A i \in 1 .. m : i \in 1 .. n /\ i # m + 1
      BY <2>0
    <3>. QED BY <2>0, <2>1, <3>1
  <2>3. R(m + 1) \ {order[m + 1]} = R(m) /\ (1 .. m + 1) \ {m + 1} = 1 .. m
    BY <2>1, <2>2
  <2>4. IsFiniteSet(R(m + 1)) /\ IsFiniteSet(1 .. m + 1)
    <3>1. IsFiniteSet(R(m))
      BY <1>2, <2>0
    <3>2. IsFiniteSet(1 .. m + 1)
      BY <2>0, FS_Interval
    <3>3. IsFiniteSet(R(m) \cup {order[m + 1]})
      <4>. HIDE DEF R
      <4>. QED BY ONLY <3>1, FS_AddElement
    <3>. QED BY ONLY <2>1, <3>2, <3>3
  <2>5. (\A x \in R(m + 1) : f[x] \in Int) /\ (\A i \in 1 .. m + 1 : g[i] \in Int)
    <3>1. \A i \in 1 .. m + 1 : i \in 1 .. n
      BY <2>0
    <3>2. \A i \in 1 .. m + 1 : order[i] \in S /\ g[i] = f[order[i]]
      BY <3>1
    <3>. QED BY <3>2
  <2>6. SumFunctionOnSet(f, R(m + 1)) = f[order[m + 1]] + SumFunctionOnSet(f, R(m + 1) \ {order[m + 1]})
    BY <2>2, <2>4, <2>5, SumStep
  <2>7. SumFunctionOnSet(g, 1 .. m + 1) = g[m + 1] + SumFunctionOnSet(g, (1 .. m + 1) \ {m + 1})
    <3>1. m + 1 \in 1 .. m + 1
      BY <2>0
    <3>. QED BY ONLY <3>1, <2>4, <2>5, SumStep
  <2>8. g[m + 1] = f[order[m + 1]]
    BY <2>0
  <2>9. SumFunctionOnSet(g, 1 .. m) = SumFunctionOnSet(f, R(m))
    BY <1>2, <2>0
  <2>. HIDE DEF R
  <2>. QED BY <2>3, <2>4, <2>6, <2>7, <2>8, <2>9
<1>3. Nat \subseteq T
  <2>. HIDE DEF T
  <2>. QED BY <1>1, <1>2, SetInduction
<1>4. k \in Nat /\ k <= n
  OBVIOUS
<1>5. A = R(k)
  OBVIOUS
<1>. QED BY <1>3, <1>4, <1>5

\* g is base under the first n of the functions F.
Iterates(base, F, n, g) == \A k \in 0 .. n : g[k] = IF k = 0 THEN base ELSE F[k][g[k - 1]]

\* Two such iterations agree as far as both go.
LEMMA IteratesAgree ==
  ASSUME NEW base, NEW F, NEW n \in Nat, NEW m \in Nat, n <= m, NEW g, NEW h,
         Iterates(base, F, n, g), Iterates(base, F, m, h)
  PROVE  g[n] = h[n]
<1>. DEFINE T == {k \in Nat : k <= n => g[k] = h[k]}
<1>1. 0 \in T
  BY DEF Iterates
<1>2. ASSUME NEW k \in Nat, k \in T PROVE k + 1 \in T
  <2>. SUFFICES ASSUME k + 1 <= n PROVE g[k + 1] = h[k + 1]
    OBVIOUS
  <2>1. k + 1 \in 0 .. n /\ k + 1 \in 0 .. m /\ k + 1 # 0 /\ (k + 1) - 1 = k /\ k <= n
    OBVIOUS
  <2>2. g[k + 1] = F[k + 1][g[k]] /\ h[k + 1] = F[k + 1][h[k]]
    BY <2>1 DEF Iterates
  <2>. QED BY <1>2, <2>1, <2>2
<1>3. Nat \subseteq T
  <2>. HIDE DEF T
  <2>. QED BY <1>1, <1>2, SetInduction
<1>. QED BY <1>3

\* f is defined by recursion on the natural numbers, and stays in S.
Recursion(S, base, F, f) ==
    /\ f = [n \in Nat |-> IF n = 0 THEN base ELSE F[n][f[n - 1]]]
    /\ \A n \in Nat : f[n] \in S

\* Every such recursion has a solution: Served, and the loop of bin_packing.
LEMMA RecursionExists ==
  ASSUME NEW S, NEW base \in S, NEW F, \A n \in Nat, s \in S : F[n][s] \in S
  PROVE  \E f : Recursion(S, base, F, f)
<1>. DEFINE I(n, g) == Iterates(base, F, n, g) /\ \A k \in 0 .. n : g[k] \in S
            T == {n \in Nat : \E g : I(n, g)}
<1>1. 0 \in T
  <2>1. I(0, [k \in 0 .. 0 |-> base])
    BY DEF Iterates
  <2>. QED BY <2>1
<1>2. ASSUME NEW n \in Nat, n \in T PROVE n + 1 \in T
  <2>1. PICK g : I(n, g)
    BY <1>2
  <2>. DEFINE h == [k \in 0 .. n + 1 |-> IF k = n + 1 THEN F[n + 1][g[n]] ELSE g[k]]
  <2>2. ASSUME NEW k \in 0 .. n + 1
        PROVE  h[k] = (IF k = 0 THEN base ELSE F[k][h[k - 1]]) /\ h[k] \in S
    <3>1. CASE k = n + 1
      <4>1. k # 0 /\ k - 1 = n /\ n \in 0 .. n + 1 /\ n # n + 1 /\ n \in 0 .. n
        BY <3>1
      <4>2. h[n] = g[n] /\ g[n] \in S /\ h[k] = F[n + 1][g[n]]
        BY <4>1, <3>1, <2>1
      <4>. QED BY <3>1, <4>1, <4>2
    <3>2. CASE k # n + 1
      <4>1. k \in 0 .. n /\ (k # 0 => k - 1 \in 0 .. n + 1 /\ k - 1 # n + 1)
        BY <3>2
      <4>2. h[k] = g[k] /\ (k # 0 => h[k - 1] = g[k - 1])
        BY <4>1
      <4>. QED BY <2>1, <4>1, <4>2 DEF Iterates
    <3>. QED BY <3>1, <3>2
  <2>. HIDE DEF h
  <2>3. I(n + 1, h)
    BY <2>2 DEF Iterates
  <2>4. n + 1 \in Nat
    OBVIOUS
  <2>. QED BY <2>3, <2>4, Zenon
<1>3. Nat \subseteq T
  <2>. HIDE DEF T
  <2>. QED BY <1>1, <1>2, SetInduction
<1>. DEFINE G(n) == CHOOSE g : I(n, g)
            f == [n \in Nat |-> G(n)[n]]
<1>4. \A n \in Nat : I(n, G(n))
  BY <1>3, Zenon
<1>. HIDE DEF G
<1>5. ASSUME NEW n \in Nat
      PROVE  f[n] = (IF n = 0 THEN base ELSE F[n][f[n - 1]]) /\ f[n] \in S
  <2>1. Iterates(base, F, n, G(n)) /\ G(n)[n] \in S /\ n \in 0 .. n
    BY <1>4
  <2>2. n # 0 => n - 1 \in Nat /\ n - 1 <= n
    OBVIOUS
  <2>3. n # 0 => Iterates(base, F, n - 1, G(n - 1))
    BY <1>4, <2>2
  <2>4. n # 0 => G(n - 1)[n - 1] = G(n)[n - 1]
    BY <2>1, <2>2, <2>3, IteratesAgree
  <2>5. n # 0 => f[n - 1] = G(n - 1)[n - 1]
    BY <2>2
  <2>6. f[n] = G(n)[n]
    OBVIOUS
  <2>7. G(n)[n] = IF n = 0 THEN base ELSE F[n][G(n)[n - 1]]
    BY <2>1 DEF Iterates
  <2>. HIDE DEF f
  <2>. QED BY <2>1, <2>4, <2>5, <2>6, <2>7
<1>6. f = [n \in Nat |-> IF n = 0 THEN base ELSE F[n][f[n - 1]]]
  <2>1. DOMAIN f = Nat /\ f = [n \in Nat |-> f[n]]
    OBVIOUS
  <2>. HIDE DEF f
  <2>. QED BY <1>5, <2>1
<1>7. \A n \in Nat : f[n] \in S
  <2>. HIDE DEF f
  <2>. QED BY <1>5
<1>. HIDE DEF f
<1>. QED BY <1>6, <1>7 DEF Recursion
=============================================================================
