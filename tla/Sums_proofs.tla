---------------------------- MODULE Sums_proofs ----------------------------
(***************************************************************************)
(* Induction, and the sums of the library: what the proofs about totals    *)
(* need.  A property to prove by induction is given as the set of what has *)
(* it, since the provers cannot be given an operator.                      *)
(***************************************************************************)
EXTENDS Functions, FiniteSetTheorems, TLAPS

(* ---------------------------------------------------------------------- *)
(* Induction.                                                             *)

\* A set with zero and every successor has every natural number.
LEMMA NaturalsFromZero ==
    ASSUME NEW S, 0 \in S, \A n \in Nat : n \in S => n + 1 \in S
    PROVE  Nat \subseteq S
<1>. DEFINE T == Nat \ S
            less == {ss \in Nat \X Nat : ss[1] < ss[2]}
<1>. SUFFICES ASSUME T # {} PROVE FALSE
  OBVIOUS
<1>1. IsWellFoundedOn(less, Nat)
  BY NatLessThanWellFounded DEF OpToRel
<1>2. PICK m \in T : \A n \in T : <<n, m>> \notin less
  <2>. T \subseteq Nat
    OBVIOUS
  <2>. HIDE DEF less, T
  <2>. QED
    BY <1>1, WFMin
<1>3. m - 1 \in Nat
  OBVIOUS
<1>4. <<m - 1, m>> \in less
  BY <1>3
<1>5. m - 1 \in S
  BY <1>2, <1>3, <1>4
<1>6. (m - 1) + 1 = m
  OBVIOUS
<1>7. m \in S
  BY <1>3, <1>5, <1>6
<1>. QED
  BY <1>7

\* A family that has every subset of S from which it has whatever one element less
\* makes of it, the empty one therefore included, has S if that is finite.
LEMMA FiniteFromSmaller ==
    ASSUME NEW S, IsFiniteSet(S), NEW F,
           \A T \in SUBSET S : (\A x \in T : T \ {x} \in F) => T \in F
    PROVE  S \in F
<1>. DEFINE Sizes == {n \in Nat : \A T \in SUBSET S : Cardinality(T) = n => T \in F}
<1>1. 0 \in Sizes
  <2>1. \A T \in SUBSET S : Cardinality(T) = 0 => T = {}
    BY FS_EmptySet, FS_Subset
  <2>. QED
    BY <2>1
<1>2. ASSUME NEW n \in Nat, n \in Sizes PROVE n + 1 \in Sizes
  <2>1. ASSUME NEW T \in SUBSET S, Cardinality(T) = n + 1, NEW x \in T PROVE T \ {x} \in F
    <3>1. IsFiniteSet(T)
      BY FS_Subset
    <3>2. Cardinality(T \ {x}) = Cardinality(T) - 1
      BY <3>1, FS_RemoveElement
    <3>3. Cardinality(T \ {x}) = n
      BY <2>1, <3>2
    <3>. QED
      BY <1>2, <3>3
  <2>. QED
    BY <2>1
<1>3. Nat \subseteq Sizes
  <2>. HIDE DEF Sizes
  <2>. QED
    BY <1>1, <1>2, NaturalsFromZero
<1>4. Cardinality(S) \in Nat
  BY FS_CardinalityType
<1>. QED
  BY <1>3, <1>4

(* ---------------------------------------------------------------------- *)
(* The library sums by a recursive function on the subsets of the indices, *)
(* which takes out one element after the other.                           *)

Pick(s) == CHOOSE x \in s : TRUE

\* h sums f over the sets of `domain'.
SumsOver(h, f, domain) ==
    h = [s \in domain |-> IF s = {} THEN 0 ELSE f[Pick(s)] + h[s \ {Pick(s)}]]

LEMMA SumIsChosen ==
    ASSUME NEW f, NEW S
    PROVE  SumFunctionOnSet(f, S) = (CHOOSE h : SumsOver(h, f, SUBSET S))[S]
  BY DEF SumFunctionOnSet, FoldFunctionOnSet, MapThenFoldSet, SumsOver, Pick

\* There is such a function: one for the subsets of at most n + 1 elements is made of
\* one for those of at most n.
LEMMA SumExists ==
    ASSUME NEW f, NEW S, IsFiniteSet(S)
    PROVE  \E h : SumsOver(h, f, SUBSET S)
<1>. DEFINE UpTo(n) == {s \in SUBSET S : Cardinality(s) <= n}
            Sizes == {n \in Nat : \E h : SumsOver(h, f, UpTo(n))}
<1>1. \A s \in SUBSET S : /\ Cardinality(s) \in Nat
                          /\ Cardinality(s) = 0 => s = {}
                          /\ s # {} => /\ Pick(s) \in s
                                       /\ Cardinality(s \ {Pick(s)}) = Cardinality(s) - 1
  <2>. SUFFICES ASSUME NEW s \in SUBSET S
                PROVE  /\ Cardinality(s) \in Nat
                       /\ Cardinality(s) = 0 => s = {}
                       /\ s # {} => /\ Pick(s) \in s
                                    /\ Cardinality(s \ {Pick(s)}) = Cardinality(s) - 1
    OBVIOUS
  <2>1. IsFiniteSet(s)
    BY FS_Subset
  <2>2. s # {} => Pick(s) \in s
    BY DEF Pick
  <2>. QED
    BY <2>1, <2>2, FS_CardinalityType, FS_EmptySet, FS_RemoveElement
<1>2. 0 \in Sizes
  <2>. DEFINE g == [s \in UpTo(0) |-> 0]
  <2>1. ASSUME NEW s \in UpTo(0) PROVE s = {}
    <3>1. s \in SUBSET S /\ Cardinality(s) <= 0
      OBVIOUS
    <3>2. Cardinality(s) \in Nat /\ (Cardinality(s) = 0 => s = {})
      BY <1>1, <3>1
    <3>. QED
      BY <3>1, <3>2
  <2>2. SumsOver(g, f, UpTo(0))
    BY <2>1 DEF SumsOver
  <2>. QED
    BY <2>2
<1>3. ASSUME NEW n \in Nat, n \in Sizes PROVE n + 1 \in Sizes
  <2>1. PICK h : SumsOver(h, f, UpTo(n))
    BY <1>3
  <2>. DEFINE g == [s \in UpTo(n + 1) |->
                       IF s = {} THEN 0 ELSE f[Pick(s)] + h[s \ {Pick(s)}]]
  <2>2. ASSUME NEW s \in UpTo(n + 1), s # {}
        PROVE  g[s \ {Pick(s)}] = h[s \ {Pick(s)}]
    <3>. DEFINE r == s \ {Pick(s)}
    <3>1. r \in UpTo(n) /\ r \in UpTo(n + 1)
      BY <1>1, <2>2
    <3>2. h[r] = IF r = {} THEN 0 ELSE f[Pick(r)] + h[r \ {Pick(r)}]
      BY <2>1, <3>1 DEF SumsOver
    <3>3. g[r] = IF r = {} THEN 0 ELSE f[Pick(r)] + h[r \ {Pick(r)}]
      BY <3>1
    <3>. QED
      BY <3>2, <3>3
  <2>3. SumsOver(g, f, UpTo(n + 1))
    BY <2>2 DEF SumsOver
  <2>4. \E i : SumsOver(i, f, UpTo(n + 1))
    <3>. HIDE DEF g, UpTo
    <3>. QED
      BY <2>3
  <2>. QED
    <3>. HIDE DEF UpTo
    <3>. QED
      BY <2>4
<1>4. Nat \subseteq Sizes
  <2>. HIDE DEF Sizes
  <2>. QED
    BY <1>2, <1>3, NaturalsFromZero
<1>5. UpTo(Cardinality(S)) = SUBSET S
  BY FS_Subset
<1>. QED
  BY <1>4, <1>5, FS_CardinalityType

LEMMA SumIsFunction ==
    ASSUME NEW f, NEW S, IsFiniteSet(S)
    PROVE  SumsOver(CHOOSE h : SumsOver(h, f, SUBSET S), f, SUBSET S)
  BY SumExists

\* It sums every subset as the library would.
LEMMA SumOfSubset ==
    ASSUME NEW f, NEW S, IsFiniteSet(S), NEW T \in SUBSET S
    PROVE  SumFunctionOnSet(f, T) = (CHOOSE h : SumsOver(h, f, SUBSET S))[T]
<1>. DEFINE h == CHOOSE i : SumsOver(i, f, SUBSET S)
            g == CHOOSE i : SumsOver(i, f, SUBSET T)
            F == {s \in SUBSET T : h[s] = g[s]}
<1>1. IsFiniteSet(T)
  BY FS_Subset
<1>2. SumsOver(h, f, SUBSET S) /\ SumsOver(g, f, SUBSET T)
  BY <1>1, SumIsFunction
<1>3. SumFunctionOnSet(f, T) = g[T]
  BY SumIsChosen
<1>. HIDE DEF h, g
<1>4. ASSUME NEW s \in SUBSET T, \A x \in s : s \ {x} \in F PROVE s \in F
  <2>1. h[s] = IF s = {} THEN 0 ELSE f[Pick(s)] + h[s \ {Pick(s)}]
    BY <1>2 DEF SumsOver
  <2>2. g[s] = IF s = {} THEN 0 ELSE f[Pick(s)] + g[s \ {Pick(s)}]
    BY <1>2 DEF SumsOver
  <2>3. s # {} => h[s \ {Pick(s)}] = g[s \ {Pick(s)}]
    BY <1>4 DEF Pick
  <2>. QED
    BY <2>1, <2>2, <2>3
<1>5. T \in F
  <2>. HIDE DEF F
  <2>. QED
    BY <1>1, <1>4, FiniteFromSmaller
<1>. QED
  BY <1>3, <1>5 DEF h

\* So the sum satisfies the equation it is defined by.
LEMMA SumEquation ==
    ASSUME NEW f, NEW S, IsFiniteSet(S)
    PROVE  SumFunctionOnSet(f, S) =
             IF S = {} THEN 0 ELSE f[Pick(S)] + SumFunctionOnSet(f, S \ {Pick(S)})
<1>. DEFINE h == CHOOSE i : SumsOver(i, f, SUBSET S)
<1>1. SumsOver(h, f, SUBSET S)
  BY SumIsFunction
<1>2. \A T \in SUBSET S : SumFunctionOnSet(f, T) = h[T]
  BY SumOfSubset
<1>. HIDE DEF h
<1>3. h[S] = IF S = {} THEN 0 ELSE f[Pick(S)] + h[S \ {Pick(S)}]
  BY <1>1 DEF SumsOver
<1>. QED
  BY <1>2, <1>3

(* ---------------------------------------------------------------------- *)
(* Sums of integers.                                                      *)

LEMMA SumOfNone == ASSUME NEW f PROVE SumFunctionOnSet(f, {}) = 0
  BY SumEquation, FS_EmptySet

LEMMA SumIsInteger ==
    ASSUME NEW f, NEW S, IsFiniteSet(S), \A x \in S : f[x] \in Int
    PROVE  SumFunctionOnSet(f, S) \in Int
<1>. DEFINE F == {T \in SUBSET S : SumFunctionOnSet(f, T) \in Int}
<1>1. ASSUME NEW T \in SUBSET S, \A x \in T : T \ {x} \in F PROVE T \in F
  <2>1. SumFunctionOnSet(f, T) =
          IF T = {} THEN 0 ELSE f[Pick(T)] + SumFunctionOnSet(f, T \ {Pick(T)})
    BY SumEquation, FS_Subset
  <2>2. T # {} => Pick(T) \in T
    BY DEF Pick
  <2>. QED
    BY <1>1, <2>1, <2>2
<1>2. S \in F
  <2>. HIDE DEF F
  <2>. QED
    BY <1>1, FiniteFromSmaller
<1>. QED
  BY <1>2

\* Any element may be taken out first.
LEMMA SumWithout ==
    ASSUME NEW f, NEW S, IsFiniteSet(S), \A x \in S : f[x] \in Int, NEW x \in S
    PROVE  SumFunctionOnSet(f, S) = f[x] + SumFunctionOnSet(f, S \ {x})
<1>. DEFINE Sum(T) == SumFunctionOnSet(f, T)
            F == {T \in SUBSET S : \A y \in T : Sum(T) = f[y] + Sum(T \ {y})}
<1>1. ASSUME NEW T \in SUBSET S, \A y \in T : T \ {y} \in F, NEW y \in T
      PROVE  Sum(T) = f[y] + Sum(T \ {y})
  <2>. DEFINE p == Pick(T)
  <2>1. p \in T
    BY DEF Pick
  <2>2. Sum(T) = f[p] + Sum(T \ {p})
    BY SumEquation, FS_Subset
  <2>3. CASE y = p
    BY <2>2, <2>3
  <2>4. CASE y # p
    <3>. HIDE DEF p, Sum
    <3>1. Sum(T \ {p}) = f[y] + Sum((T \ {p}) \ {y})
      BY <1>1, <2>1, <2>4
    <3>2. Sum(T \ {y}) = f[p] + Sum((T \ {y}) \ {p})
      BY <1>1, <2>1, <2>4
    <3>3. Sum((T \ {p}) \ {y}) = Sum((T \ {y}) \ {p})
      <4>1. (T \ {p}) \ {y} = (T \ {y}) \ {p}
        OBVIOUS
      <4>. QED
        BY <4>1
    <3>4. Sum((T \ {y}) \ {p}) \in Int /\ f[y] \in Int /\ f[p] \in Int
      BY <2>1, FS_Subset, SumIsInteger DEF Sum
    <3>. QED
      BY <2>2, <3>1, <3>2, <3>3, <3>4
  <2>. QED
    BY <2>3, <2>4
<1>2. \A T \in SUBSET S : (\A y \in T : T \ {y} \in F) => T \in F
  BY <1>1
<1>3. S \in F
  <2>. HIDE DEF F
  <2>. QED
    BY <1>2, FiniteFromSmaller
<1>. QED
  BY <1>3

LEMMA SumOfOne ==
    ASSUME NEW f, NEW x, f[x] \in Int
    PROVE  SumFunctionOnSet(f, {x}) = f[x]
<1>1. SumFunctionOnSet(f, {x}) = f[x] + SumFunctionOnSet(f, {x} \ {x})
  BY FS_Singleton, SumWithout
<1>2. {x} \ {x} = {}
  OBVIOUS
<1>. QED
  BY <1>1, <1>2, SumOfNone

\* Only the values at the indices count.
LEMMA SumOfSame ==
    ASSUME NEW f, NEW g, NEW S, IsFiniteSet(S), \A x \in S : f[x] = g[x]
    PROVE  SumFunctionOnSet(f, S) = SumFunctionOnSet(g, S)
<1>. DEFINE F == {T \in SUBSET S : SumFunctionOnSet(f, T) = SumFunctionOnSet(g, T)}
<1>1. ASSUME NEW T \in SUBSET S, \A x \in T : T \ {x} \in F PROVE T \in F
  <2>1. SumFunctionOnSet(f, T) =
          IF T = {} THEN 0 ELSE f[Pick(T)] + SumFunctionOnSet(f, T \ {Pick(T)})
    BY SumEquation, FS_Subset
  <2>2. SumFunctionOnSet(g, T) =
          IF T = {} THEN 0 ELSE g[Pick(T)] + SumFunctionOnSet(g, T \ {Pick(T)})
    BY SumEquation, FS_Subset
  <2>3. T # {} => Pick(T) \in T
    BY DEF Pick
  <2>. QED
    BY <1>1, <2>1, <2>2, <2>3
<1>2. S \in F
  <2>. HIDE DEF F
  <2>. QED
    BY <1>1, FiniteFromSmaller
<1>. QED
  BY <1>2

\* One value changes, and the sum by as much.
LEMMA SumOfChanged ==
    ASSUME NEW f, NEW g, NEW S, IsFiniteSet(S),
           \A x \in S : f[x] \in Int /\ g[x] \in Int,
           NEW x \in S, \A y \in S \ {x} : f[y] = g[y]
    PROVE  SumFunctionOnSet(g, S) = SumFunctionOnSet(f, S) + g[x] - f[x]
<1>1. SumFunctionOnSet(f, S) = f[x] + SumFunctionOnSet(f, S \ {x})
  BY SumWithout
<1>2. SumFunctionOnSet(g, S) = g[x] + SumFunctionOnSet(g, S \ {x})
  BY SumWithout
<1>3. IsFiniteSet(S \ {x})
  BY FS_RemoveElement
<1>4. SumFunctionOnSet(f, S \ {x}) = SumFunctionOnSet(g, S \ {x})
  BY <1>3, SumOfSame
<1>5. SumFunctionOnSet(f, S \ {x}) \in Int
  BY <1>3, SumIsInteger
<1>. QED
  BY <1>1, <1>2, <1>4, <1>5

\* A sum of naturals is one, and no less than any of them.
LEMMA SumOfNaturals ==
    ASSUME NEW f, NEW S, IsFiniteSet(S), \A x \in S : f[x] \in Nat
    PROVE  /\ SumFunctionOnSet(f, S) \in Nat
           /\ \A x \in S : f[x] <= SumFunctionOnSet(f, S)
<1>. DEFINE F == {T \in SUBSET S : SumFunctionOnSet(f, T) \in Nat}
<1>1. ASSUME NEW T \in SUBSET S, \A x \in T : T \ {x} \in F PROVE T \in F
  <2>1. SumFunctionOnSet(f, T) =
          IF T = {} THEN 0 ELSE f[Pick(T)] + SumFunctionOnSet(f, T \ {Pick(T)})
    BY SumEquation, FS_Subset
  <2>2. T # {} => Pick(T) \in T
    BY DEF Pick
  <2>. QED
    BY <1>1, <2>1, <2>2
<1>2. \A U \in SUBSET S : SumFunctionOnSet(f, U) \in Nat
  <2>. SUFFICES ASSUME NEW U \in SUBSET S PROVE U \in F
    OBVIOUS
  <2>1. IsFiniteSet(U)
    BY FS_Subset
  <2>2. \A T \in SUBSET U : (\A x \in T : T \ {x} \in F) => T \in F
    BY <1>1
  <2>. HIDE DEF F
  <2>. QED
    BY <2>1, <2>2, FiniteFromSmaller
<1>3. ASSUME NEW x \in S PROVE f[x] <= SumFunctionOnSet(f, S)
  <2>1. SumFunctionOnSet(f, S) = f[x] + SumFunctionOnSet(f, S \ {x})
    BY SumWithout
  <2>2. SumFunctionOnSet(f, S \ {x}) \in Nat
    BY <1>2
  <2>. QED
    BY <2>1, <2>2
<1>. QED
  BY <1>2, <1>3

LEMMA SumOfConstant ==
    ASSUME NEW f, NEW S, IsFiniteSet(S), NEW c \in Int, \A x \in S : f[x] = c
    PROVE  SumFunctionOnSet(f, S) = c * Cardinality(S)
<1>. DEFINE F == {T \in SUBSET S : SumFunctionOnSet(f, T) = c * Cardinality(T)}
<1>1. ASSUME NEW T \in SUBSET S, \A x \in T : T \ {x} \in F PROVE T \in F
  <2>1. IsFiniteSet(T)
    BY FS_Subset
  <2>2. CASE T = {}
    BY <2>2, SumOfNone, FS_EmptySet
  <2>3. CASE T # {}
    <3>1. PICK x \in T : TRUE
      BY <2>3
    <3>2. SumFunctionOnSet(f, T) = c + SumFunctionOnSet(f, T \ {x})
      BY <2>1, SumWithout
    <3>3. Cardinality(T \ {x}) = Cardinality(T) - 1 /\ Cardinality(T) \in Nat
      BY <2>1, FS_RemoveElement, FS_CardinalityType
    <3>4. SumFunctionOnSet(f, T \ {x}) = c * (Cardinality(T) - 1)
      BY <1>1, <3>3
    <3>5. c + c * (Cardinality(T) - 1) = c * Cardinality(T)
      BY <3>3
    <3>. QED
      BY <3>2, <3>4, <3>5
  <2>. QED
    BY <2>2, <2>3
<1>2. S \in F
  <2>. HIDE DEF F
  <2>. QED
    BY <1>1, FiniteFromSmaller
<1>. QED
  BY <1>2

=============================================================================
