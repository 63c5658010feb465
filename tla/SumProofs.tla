----------------------------- MODULE SumProofs -----------------------------
(***************************************************************************)
(* Lemmas about finite sums.  SumFunctionOnSet is defined by recursion over *)
(* the subsets of its index set, taking away a chosen element each time;   *)
(* what it is used for is that any term may be split off.                  *)
(***************************************************************************)
EXTENDS Integers, FiniteSets, Functions, FiniteSetTheorems, WellFoundedInduction, TLAPS

\* Every non-empty set of naturals has a least element.
LEMMA LeastNatural ==
  ASSUME NEW T \in SUBSET Nat, T # {}
  PROVE  \E x \in T : \A y \in T : x <= y
<1> DEFINE R == {ss \in Nat \X Nat : ss[1] < ss[2]}
<1>1. IsWellFoundedOn(R, Nat)
  BY NatLessThanWellFounded, Zenon DEF OpToRel
<1> HIDE DEF R
<1>2. PICK x \in T : \A y \in T : ~ (<<y, x>> \in R)
  BY <1>1, WFMin
<1>3. \A y \in T : ~ (y < x)
  BY <1>2 DEF R
<1> QED
  BY <1>3

\* Induction over the naturals and over the subsets of a finite set, with the
\* sets of good cases in place of a predicate.
LEMMA NaturalCases ==
  ASSUME NEW Good \in SUBSET Nat, 0 \in Good, \A n \in Good : n + 1 \in Good
  PROVE  Nat \subseteq Good
<1> SUFFICES ASSUME Nat \ Good # {}
             PROVE  FALSE
  OBVIOUS
<1>1. PICK m \in Nat \ Good : \A k \in Nat \ Good : m <= k
  BY LeastNatural
<1>2. m - 1 \in Nat /\ m - 1 \in Good
  BY <1>1
<1> QED
  BY <1>1, <1>2

LEMMA SubsetCases ==
  ASSUME NEW S, IsFiniteSet(S), NEW Good \in SUBSET SUBSET S,
         {} \in Good,
         \A s \in SUBSET S : (s # {} /\ \A x \in s : s \ {x} \in Good) => s \in Good
  PROVE  \A s \in SUBSET S : s \in Good
<1> DEFINE Small(n) == \A s \in SUBSET S : Cardinality(s) <= n => s \in Good
           Ns       == {n \in Nat : Small(n)}
<1>1. \A s \in SUBSET S : IsFiniteSet(s) /\ Cardinality(s) \in Nat
  BY FS_Subset, FS_CardinalityType
<1>2. 0 \in Ns
  <2> SUFFICES ASSUME NEW s \in SUBSET S, Cardinality(s) <= 0
               PROVE  s \in Good
    OBVIOUS
  <2>1. s = {}
    BY <1>1, FS_EmptySet
  <2> QED
    BY <2>1
<1>3. \A n \in Ns : n + 1 \in Ns
  <2> SUFFICES ASSUME NEW n \in Ns
               PROVE  Small(n + 1)
    OBVIOUS
  <2> SUFFICES ASSUME NEW s \in SUBSET S, Cardinality(s) <= n + 1, s # {}
               PROVE  s \in Good
    OBVIOUS
  <2>1. ASSUME NEW x \in s
        PROVE  s \ {x} \in Good
    <3>1. s \ {x} \in SUBSET S /\ Cardinality(s \ {x}) = Cardinality(s) - 1
      BY <1>1, FS_RemoveElement
    <3> QED
      BY <1>1, <3>1
  <2> QED
    BY <2>1
<1>4. Nat \subseteq Ns
  BY <1>2, <1>3, NaturalCases
<1> QED
  BY <1>1, <1>4

-----------------------------------------------------------------------------
(* The recursion of SumFunctionOnSet, and that a function satisfies it.    *)

Pick(s) == CHOOSE x \in s : TRUE

Term(f, g, s) == IF s = {} THEN 0 ELSE f[Pick(s)] + g[s \ {Pick(s)}]

Sums(f, g, D) == g = [s \in D |-> Term(f, g, s)]

\* SumFunctionOnSet takes the last value of such a function.
LEMMA SumUnfold ==
  ASSUME NEW f, NEW S
  PROVE  SumFunctionOnSet(f, S) = (CHOOSE g : Sums(f, g, SUBSET S))[S]
BY Zenon DEF SumFunctionOnSet, FoldFunctionOnSet, MapThenFoldSet, Sums, Term, Pick

\* There is one: it is extended from the subsets of n elements to those of n + 1.
LEMMA SumsExist ==
  ASSUME NEW f, NEW S, IsFiniteSet(S)
  PROVE  \E g : Sums(f, g, SUBSET S)
<1> DEFINE D(n) == {s \in SUBSET S : Cardinality(s) <= n}
           Ns   == {n \in Nat : \E g : Sums(f, g, D(n))}
<1>1. \A s \in SUBSET S : IsFiniteSet(s) /\ Cardinality(s) \in Nat
  BY FS_Subset, FS_CardinalityType
<1>2. ASSUME NEW s \in SUBSET S, s # {}
      PROVE  /\ Pick(s) \in s
             /\ s \ {Pick(s)} \in SUBSET S
             /\ Cardinality(s \ {Pick(s)}) = Cardinality(s) - 1
  <2>1. Pick(s) \in s
    BY <1>2 DEF Pick
  <2> QED
    BY <1>1, <2>1, FS_RemoveElement
<1>3. 0 \in Ns
  <2> DEFINE g == [s \in D(0) |-> 0]
  <2>1. \A s \in D(0) : s = {}
    BY <1>1, FS_EmptySet
  <2>2. g = [s \in D(0) |-> Term(f, g, s)]
    BY <2>1 DEF Term
  <2> QED
    BY <2>2 DEF Sums
<1>4. \A n \in Ns : n + 1 \in Ns
  <2> TAKE n \in Ns
  <2>1. PICK g : Sums(f, g, D(n))
    OBVIOUS
  <2> DEFINE h == [s \in D(n + 1) |-> Term(f, g, s)]
  <2>2. ASSUME NEW s \in D(n)
        PROVE  s \in D(n + 1) /\ h[s] = g[s]
    <3>1. s \in D(n + 1)
      BY <1>1
    <3> QED
      BY <2>1, <3>1 DEF Sums
  <2>3. ASSUME NEW s \in D(n + 1)
        PROVE  Term(f, g, s) = Term(f, h, s)
    <3>1. CASE s = {}
      BY <3>1 DEF Term
    <3>2. CASE s # {}
      <4>1. s \ {Pick(s)} \in D(n)
        BY <1>1, <1>2, <3>2
      <4>2. h[s \ {Pick(s)}] = g[s \ {Pick(s)}]
        BY <2>2, <4>1
      <4> HIDE DEF h
      <4> QED
        BY <3>2, <4>2 DEF Term
    <3> QED
      BY <3>1, <3>2
  <2>4. h = [s \in D(n + 1) |-> Term(f, h, s)]
    BY <2>3, Zenon
  <2>5. Sums(f, h, D(n + 1))
    BY <2>4, Zenon DEF Sums
  <2> HIDE DEF h, D
  <2> QED
    BY <2>5
<1>5. Nat \subseteq Ns
  BY <1>3, <1>4, NaturalCases
<1>6. Cardinality(S) \in Nat /\ D(Cardinality(S)) = SUBSET S
  BY FS_Subset, FS_CardinalityType
<1> QED
  BY <1>5, <1>6

\* The sums over the subsets of a set do not depend on the set.
LEMMA SumsUnique ==
  ASSUME NEW f, NEW S, NEW T \in SUBSET S, IsFiniteSet(S), NEW g, NEW h,
         Sums(f, g, SUBSET S), Sums(f, h, SUBSET T)
  PROVE  \A s \in SUBSET T : g[s] = h[s]
<1> DEFINE Good == {s \in SUBSET T : g[s] = h[s]}
<1>1. IsFiniteSet(T)
  BY FS_Subset
<1>2. ASSUME NEW s \in SUBSET T
      PROVE  g[s] = Term(f, g, s) /\ h[s] = Term(f, h, s)
  BY DEF Sums
<1>3. {} \in Good
  BY <1>2 DEF Term
<1>4. ASSUME NEW s \in SUBSET T, s # {}, \A x \in s : s \ {x} \in Good
      PROVE  s \in Good
  <2>1. Pick(s) \in s
    BY <1>4 DEF Pick
  <2> QED
    BY <1>2, <1>4, <2>1 DEF Term
<1> QED
  BY <1>1, <1>3, <1>4, SubsetCases

\* One term may be split off a finite sum, whichever it is.
LEMMA SumSplit ==
  ASSUME NEW S, IsFiniteSet(S), NEW f, \A x \in S : f[x] \in Int
  PROVE  /\ SumFunctionOnSet(f, {}) = 0
         /\ \A T \in SUBSET S : SumFunctionOnSet(f, T) \in Int
         /\ \A T \in SUBSET S : \A y \in T :
              SumFunctionOnSet(f, T) = f[y] + SumFunctionOnSet(f, T \ {y})
<1> DEFINE Sum(T) == SumFunctionOnSet(f, T)
<1>1. PICK g : Sums(f, g, SUBSET S)
  BY SumsExist
<1>2. ASSUME NEW T \in SUBSET S
      PROVE  Sum(T) = g[T]
  <2> DEFINE h == CHOOSE h : Sums(f, h, SUBSET T)
  <2>1. IsFiniteSet(T)
    BY FS_Subset
  <2>2. Sums(f, h, SUBSET T)
    BY <2>1, SumsExist
  <2>3. Sum(T) = h[T]
    BY SumUnfold
  <2> HIDE DEF h
  <2> QED
    BY <1>1, <2>2, <2>3, SumsUnique
<1>3. ASSUME NEW T \in SUBSET S
      PROVE  g[T] = Term(f, g, T)
  BY <1>1 DEF Sums
<1>4. g[{}] = 0
  <2>1. {} \in SUBSET S
    OBVIOUS
  <2> QED
    BY <1>3, <2>1 DEF Term
<1>5. ASSUME NEW T \in SUBSET S, T # {}
      PROVE  Pick(T) \in T /\ g[T] = f[Pick(T)] + g[T \ {Pick(T)}]
  BY <1>3, <1>5 DEF Term, Pick
<1>6. \A T \in SUBSET S : g[T] \in Int
  <2> DEFINE Good == {T \in SUBSET S : g[T] \in Int}
  <2>1. Good \in SUBSET SUBSET S /\ {} \in Good
    BY <1>4
  <2>2. ASSUME NEW T \in SUBSET S, T # {}, \A x \in T : T \ {x} \in Good
        PROVE  T \in Good
    <3>1. Pick(T) \in T /\ g[T] = f[Pick(T)] + g[T \ {Pick(T)}]
      BY <1>5, <2>2
    <3>2. f[Pick(T)] \in Int /\ g[T \ {Pick(T)}] \in Int
      BY <2>2, <3>1
    <3> QED
      BY <3>1, <3>2
  <2>3. \A T \in SUBSET S : T \in Good
    <3> HIDE DEF Good
    <3> QED
      BY <2>1, <2>2, SubsetCases
  <2> QED
    BY <2>3
<1>7. \A T \in SUBSET S : \A y \in T : g[T] = f[y] + g[T \ {y}]
  <2> DEFINE Good == {T \in SUBSET S : \A y \in T : g[T] = f[y] + g[T \ {y}]}
  <2>1. Good \in SUBSET SUBSET S /\ {} \in Good
    OBVIOUS
  <2>2. ASSUME NEW T \in SUBSET S, T # {}, \A x \in T : T \ {x} \in Good, NEW y \in T
        PROVE  g[T] = f[y] + g[T \ {y}]
    <3> DEFINE p == Pick(T)
               a == g[(T \ {p}) \ {y}]
    <3>1. p \in T /\ g[T] = f[p] + g[T \ {p}]
      BY <1>5, <2>2
    <3>2. CASE y = p
      BY <3>1, <3>2
    <3>3. CASE y # p
      <4>1. g[T \ {p}] = f[y] + a
        BY <2>2, <3>1, <3>3
      <4>2. g[T \ {y}] = f[p] + g[(T \ {y}) \ {p}]
        BY <2>2, <3>1, <3>3
      <4>3. (T \ {p}) \ {y} = (T \ {y}) \ {p}
        OBVIOUS
      <4>4. f[y] \in Int /\ f[p] \in Int /\ a \in Int
        BY <1>6, <3>1
      <4>5. g[T \ {y}] = f[p] + a
        BY <4>2, <4>3
      <4> HIDE DEF a, p
      <4> QED
        BY <3>1, <4>1, <4>4, <4>5
    <3> QED
      BY <3>2, <3>3
  <2>3. \A T \in SUBSET S : (T # {} /\ \A x \in T : T \ {x} \in Good) => T \in Good
    BY <2>2
  <2>4. \A T \in SUBSET S : T \in Good
    <3> HIDE DEF Good
    <3> QED
      BY <2>1, <2>3, SubsetCases
  <2> QED
    BY <2>4
<1>8. {} \in SUBSET S /\ \A T \in SUBSET S : \A y \in T : T \ {y} \in SUBSET S
  OBVIOUS
<1> HIDE DEF Sum
<1>9. /\ Sum({}) = 0
      /\ \A T \in SUBSET S : Sum(T) \in Int
      /\ \A T \in SUBSET S : \A y \in T : Sum(T) = f[y] + Sum(T \ {y})
  BY <1>2, <1>4, <1>6, <1>7, <1>8
<1> QED
  BY <1>9 DEF Sum

-----------------------------------------------------------------------------
\* A finite sum of naturals is a natural, no term exceeds it, and it is zero
\* when its terms are.
LEMMA SumOfNaturals ==
  ASSUME NEW S, IsFiniteSet(S), NEW f, \A x \in S : f[x] \in Nat
  PROVE  /\ SumFunctionOnSet(f, S) \in Nat
         /\ \A x \in S : f[x] <= SumFunctionOnSet(f, S)
         /\ (\A x \in S : f[x] = 0) => SumFunctionOnSet(f, S) = 0
<1> DEFINE Sum(T) == SumFunctionOnSet(f, T)
           Good   == {T \in SUBSET S : /\ Sum(T) \in Nat
                                       /\ (\A x \in T : f[x] = 0) => Sum(T) = 0}
<1>1. /\ Sum({}) = 0
      /\ \A T \in SUBSET S : Sum(T) \in Int
      /\ \A T \in SUBSET S : \A y \in T : Sum(T) = f[y] + Sum(T \ {y})
  BY SumSplit
<1> HIDE DEF Sum
<1>2. Good \in SUBSET SUBSET S /\ {} \in Good
  BY <1>1
<1>3. ASSUME NEW T \in SUBSET S, T # {}, \A x \in T : T \ {x} \in Good
      PROVE  T \in Good
  <2>1. PICK y \in T : TRUE
    BY <1>3
  <2>2. Sum(T) = f[y] + Sum(T \ {y}) /\ T \ {y} \in Good
    BY <1>1, <1>3
  <2> QED
    BY <2>2
<1>4. \A T \in SUBSET S : T \in Good
  <2> HIDE DEF Good
  <2> QED
    BY <1>2, <1>3, SubsetCases
<1>5. ASSUME NEW x \in S
      PROVE  f[x] <= Sum(S)
  <2>1. Sum(S) = f[x] + Sum(S \ {x})
    BY <1>1
  <2>2. Sum(S \ {x}) \in Nat
    BY <1>4
  <2> QED
    BY <2>1, <2>2
<1>6. S \in Good
  BY <1>4
<1> QED
  BY <1>5, <1>6 DEF Sum
=============================================================================
