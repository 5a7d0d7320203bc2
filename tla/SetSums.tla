------------------------------ MODULE SetSums ------------------------------
(***************************************************************************)
(* Lemmas about SumFunctionOnSet, the sum of a function over a finite set, *)
(* with which the ledgers of this project are stated: it is an integer,    *)
(* depends on the values alone, and changes by the values that change.     *)
(* The community modules define it by a recursive function that takes one  *)
(* element out of the set at a time; the proofs take a smallest set for    *)
(* which a fact fails, since the library's induction theorems cannot be    *)
(* instantiated.                                                           *)
(***************************************************************************)
EXTENDS Integers, Functions, FiniteSetTheorems, WellFoundedInduction, TLAPS

Pick(s) == CHOOSE x \in s : TRUE

LEMMA PickIsElement == \A s : s # {} => Pick(s) \in s
  BY DEF Pick

\* One step of the recursive function h behind the sum of f, and all of them.
Unfolded(f, h, s) == IF s = {} THEN 0 ELSE f[Pick(s)] + h[s \ {Pick(s)}]
Sums(f, S, h) == h = [s \in SUBSET S |-> Unfolded(f, h, s)]

LEMMA SumIsChosen ==
  ASSUME NEW f, NEW S
  PROVE  SumFunctionOnSet(f, S) = (CHOOSE h : Sums(f, S, h))[S]
  BY DEF SumFunctionOnSet, FoldFunctionOnSet, MapThenFoldSet, Sums, Unfolded, Pick

\* A non-empty set of finite sets has a smallest one.
LEMMA SmallestSet ==
  ASSUME NEW S, IsFiniteSet(S), NEW Bad \in SUBSET (SUBSET S), Bad # {}
  PROVE  \E s \in Bad : \A t \in SUBSET S : Cardinality(t) < Cardinality(s) => t \notin Bad
<1> DEFINE Sizes == {Cardinality(s) : s \in Bad}
           Less == OpToRel(<, Nat)
<1>1. \A s \in SUBSET S : IsFiniteSet(s) /\ Cardinality(s) \in Nat
  BY FS_Subset, FS_CardinalityType
<1>2. Sizes \subseteq Nat /\ Sizes # {}
  BY <1>1
<1>3. IsWellFoundedOn(Less, Nat)
  BY NatLessThanWellFounded
<1>4. PICK n \in Sizes : \A m \in Sizes : <<m, n>> \notin Less
  <2> HIDE DEF Sizes, Less
  <2> QED BY <1>2, <1>3, WFMin
<1>5. \A m \in Sizes : ~(m < n)
  BY <1>2, <1>4 DEF OpToRel
<1>6. PICK s \in Bad : n = Cardinality(s)
  BY <1>4
<1>7. \A t \in SUBSET S : Cardinality(t) < Cardinality(s) => t \notin Bad
  BY <1>5, <1>6
<1> QED BY <1>7

LEMMA Smaller ==
  ASSUME NEW S, IsFiniteSet(S), NEW s \in SUBSET S, NEW x \in s
  PROVE  /\ s \ {x} \in SUBSET S /\ Cardinality(s \ {x}) < Cardinality(s)
         /\ Cardinality(s \ {x}) = Cardinality(s) - 1 /\ Cardinality(s) \in Nat
<1>1. IsFiniteSet(s)
  BY FS_Subset
<1>2. Cardinality(s) \in Nat /\ Cardinality(s \ {x}) = Cardinality(s) - 1
  BY <1>1, FS_CardinalityType, FS_RemoveElement
<1> QED BY <1>2

-----------------------------------------------------------------------------
(* The recursive function exists                                            *)

\* Functions that are right on all subsets of up to n elements.
RightUpTo(f, S, n) ==
  \E h : \A s \in SUBSET S : Cardinality(s) <= n => h[s] = Unfolded(f, h, s)

LEMMA RightOnOneMore ==
  ASSUME NEW f, NEW S, IsFiniteSet(S), NEW n \in Nat, RightUpTo(f, S, n)
  PROVE  RightUpTo(f, S, n + 1)
<1>1. PICK h : \A s \in SUBSET S : Cardinality(s) <= n => h[s] = Unfolded(f, h, s)
  BY DEF RightUpTo
<1> DEFINE k == [s \in SUBSET S |-> IF Cardinality(s) <= n THEN h[s] ELSE Unfolded(f, h, s)]
<1>2. ASSUME NEW s \in SUBSET S, Cardinality(s) <= n + 1 PROVE k[s] = Unfolded(f, k, s)
  <2>1. k[s] = Unfolded(f, h, s)
    BY <1>1
  <2>2. CASE s = {}
    BY <2>1, <2>2 DEF Unfolded
  <2>3. CASE s # {}
    <3>1. PICK r : r = s \ {Pick(s)}
      OBVIOUS
    <3>2. r \in SUBSET S /\ Cardinality(r) = Cardinality(s) - 1 /\ Cardinality(s) \in Nat
      BY <2>3, <3>1, PickIsElement, Smaller
    <3>3. Cardinality(r) <= n
      BY <1>2, <3>2
    <3>4. k[r] = h[r]
      BY <3>2, <3>3
    <3> HIDE DEF k
    <3> QED BY <2>1, <2>3, <3>1, <3>4 DEF Unfolded
  <2> QED BY <2>2, <2>3
<1> HIDE DEF k
<1> QED BY <1>2 DEF RightUpTo

LEMMA RightUpToAny ==
  ASSUME NEW f, NEW S, IsFiniteSet(S), NEW n \in Nat
  PROVE  RightUpTo(f, S, n)
<1> DEFINE Bad == {m \in Nat : ~RightUpTo(f, S, m)}
           Less == OpToRel(<, Nat)
<1>1. SUFFICES ASSUME Bad # {} PROVE FALSE
  OBVIOUS
<1>2. IsWellFoundedOn(Less, Nat)
  BY NatLessThanWellFounded
<1>3. PICK m \in Bad : \A l \in Bad : <<l, m>> \notin Less
  <2>1. Bad \subseteq Nat
    OBVIOUS
  <2> HIDE DEF Bad, Less
  <2> QED BY <1>1, <1>2, <2>1, WFMin
<1>4. \A l \in Bad : ~(l < m)
  BY <1>3 DEF OpToRel
<1>5. RightUpTo(f, S, 0)
  <2> DEFINE h == [s \in SUBSET S |-> 0]
  <2>1. ASSUME NEW s \in SUBSET S, Cardinality(s) <= 0 PROVE h[s] = Unfolded(f, h, s)
    <3>1. s = {}
      BY <2>1, FS_Subset, FS_CardinalityType, FS_EmptySet
    <3> QED BY <3>1 DEF Unfolded
  <2> HIDE DEF h
  <2> QED BY <2>1 DEF RightUpTo
<1>6. m \in Nat /\ m # 0 /\ ~RightUpTo(f, S, m)
  BY <1>3, <1>5
<1>7. m - 1 \in Nat /\ m - 1 < m /\ (m - 1) + 1 = m
  BY <1>6
<1>8. RightUpTo(f, S, m - 1)
  BY <1>4, <1>7
<1> QED BY <1>6, <1>7, <1>8, RightOnOneMore

LEMMA SumsExist ==
  ASSUME NEW f, NEW S, IsFiniteSet(S)
  PROVE  \E h : Sums(f, S, h)
<1>1. Cardinality(S) \in Nat
  BY FS_CardinalityType
<1>2. PICK k : \A s \in SUBSET S : Cardinality(s) <= Cardinality(S) => k[s] = Unfolded(f, k, s)
  BY <1>1, RightUpToAny DEF RightUpTo
<1>3. \A s \in SUBSET S : k[s] = Unfolded(f, k, s)
  BY <1>2, FS_Subset
<1> DEFINE h == [s \in SUBSET S |-> k[s]]
<1>4. ASSUME NEW s \in SUBSET S PROVE Unfolded(f, k, s) = Unfolded(f, h, s)
  <2>1. h[s \ {Pick(s)}] = k[s \ {Pick(s)}]
    OBVIOUS
  <2> HIDE DEF h
  <2> QED BY <2>1 DEF Unfolded
<1>5. \A s \in SUBSET S : k[s] = Unfolded(f, h, s)
  BY <1>3, <1>4
<1>6. PICK g : g = h
  OBVIOUS
<1>7. \A s \in SUBSET S : k[s] = Unfolded(f, g, s)
  BY <1>5, <1>6
<1>8. g = [s \in SUBSET S |-> k[s]]
  BY <1>6
<1>9. g = [s \in SUBSET S |-> Unfolded(f, g, s)]
  BY <1>7, <1>8
<1> QED BY <1>9 DEF Sums

-----------------------------------------------------------------------------
(* What it computes                                                         *)

LEMMA SumsUnfold ==
  ASSUME NEW f, NEW S, NEW h, Sums(f, S, h)
  PROVE  /\ h[{}] = 0
         /\ \A s \in SUBSET S : s # {} => h[s] = f[Pick(s)] + h[s \ {Pick(s)}]
<1>1. \A s \in SUBSET S : h[s] = Unfolded(f, h, s)
  BY DEF Sums
<1> QED BY <1>1 DEF Unfolded

LEMMA SumsAreIntegers ==
  ASSUME NEW f, NEW S, IsFiniteSet(S), NEW h, Sums(f, S, h), \A x \in S : f[x] \in Int
  PROVE  \A s \in SUBSET S : h[s] \in Int
<1> DEFINE Bad == {s \in SUBSET S : h[s] \notin Int}
<1>1. SUFFICES ASSUME Bad # {} PROVE FALSE
  OBVIOUS
<1>2. PICK s \in Bad : \A t \in SUBSET S : Cardinality(t) < Cardinality(s) => t \notin Bad
  <2>1. Bad \in SUBSET (SUBSET S)
    OBVIOUS
  <2> HIDE DEF Bad
  <2> QED BY <1>1, <2>1, SmallestSet
<1>3. s \in SUBSET S /\ s # {} /\ h[s] \notin Int
  BY <1>2, SumsUnfold
<1>4. PICK x, r : x = Pick(s) /\ r = s \ {Pick(s)}
  OBVIOUS
<1>5. x \in S /\ r \in SUBSET S /\ Cardinality(r) < Cardinality(s)
  BY <1>3, <1>4, PickIsElement, Smaller
<1>6. h[r] \in Int
  BY <1>2, <1>5
<1>7. h[s] = f[x] + h[r]
  <2>1. h[s] = f[Pick(s)] + h[s \ {Pick(s)}]
    BY <1>3, SumsUnfold
  <2> QED BY <1>4, <2>1
<1> QED BY <1>3, <1>5, <1>6, <1>7

\* It does not matter which element is taken out first.
LEMMA SumsTakeAny ==
  ASSUME NEW f, NEW S, IsFiniteSet(S), NEW h, Sums(f, S, h), \A x \in S : f[x] \in Int
  PROVE  \A s \in SUBSET S : \A x \in s : h[s] = f[x] + h[s \ {x}]
<1> DEFINE Bad == {s \in SUBSET S : \E x \in s : h[s] # f[x] + h[s \ {x}]}
<1>1. SUFFICES ASSUME Bad # {} PROVE FALSE
  OBVIOUS
<1>2. PICK s \in Bad : \A t \in SUBSET S : Cardinality(t) < Cardinality(s) => t \notin Bad
  <2>1. Bad \in SUBSET (SUBSET S)
    OBVIOUS
  <2> HIDE DEF Bad
  <2> QED BY <1>1, <2>1, SmallestSet
<1>3. PICK x \in s : h[s] # f[x] + h[s \ {x}]
  BY <1>2
<1>4. s \in SUBSET S /\ s # {} /\ x \in S
  BY <1>2, <1>3
<1>5. PICK y : y = Pick(s)
  OBVIOUS
<1>6. y \in s /\ y \in S /\ h[s] = f[y] + h[s \ {y}]
  <2>1. h[s] = f[Pick(s)] + h[s \ {Pick(s)}]
    BY <1>4, SumsUnfold
  <2>2. y \in s
    BY <1>4, <1>5, PickIsElement
  <2> QED BY <1>4, <1>5, <2>1, <2>2
<1>7. y # x
  BY <1>3, <1>6
<1>8. PICK sx, sy, both : sx = s \ {x} /\ sy = s \ {y} /\ both = (s \ {x}) \ {y}
  OBVIOUS
<1>9. /\ sx \in SUBSET S /\ sy \in SUBSET S /\ both \in SUBSET S
      /\ Cardinality(sx) < Cardinality(s) /\ Cardinality(sy) < Cardinality(s)
      /\ y \in sx /\ x \in sy /\ both = sx \ {y} /\ both = sy \ {x}
  BY <1>4, <1>6, <1>7, <1>8, Smaller
<1>10. sx \notin Bad /\ sy \notin Bad
  BY <1>2, <1>9
<1>11. h[sx] = f[y] + h[both] /\ h[sy] = f[x] + h[both]
  BY <1>9, <1>10
<1>12. h[both] \in Int /\ f[x] \in Int /\ f[y] \in Int
  BY <1>4, <1>6, <1>9, SumsAreIntegers
<1>13. h[s] = f[y] + h[sy] /\ h[s] # f[x] + h[sx]
  BY <1>3, <1>6, <1>8
<1> QED BY <1>11, <1>12, <1>13

LEMMA SumsAgree ==
  ASSUME NEW f, NEW g, NEW S, NEW T, IsFiniteSet(S), S \subseteq T, NEW h, NEW k,
         Sums(f, S, h), Sums(g, T, k), \A x \in S : f[x] = g[x]
  PROVE  h[S] = k[S]
<1>1. h[{}] = 0 /\ \A s \in SUBSET S : s # {} => h[s] = f[Pick(s)] + h[s \ {Pick(s)}]
  BY SumsUnfold
<1>2. k[{}] = 0 /\ \A s \in SUBSET T : s # {} => k[s] = g[Pick(s)] + k[s \ {Pick(s)}]
  BY SumsUnfold
<1> DEFINE Bad == {s \in SUBSET S : h[s] # k[s]}
<1>3. SUFFICES ASSUME Bad # {} PROVE FALSE
  OBVIOUS
<1>4. PICK s \in Bad : \A t \in SUBSET S : Cardinality(t) < Cardinality(s) => t \notin Bad
  <2>1. Bad \in SUBSET (SUBSET S)
    OBVIOUS
  <2> HIDE DEF Bad
  <2> QED BY <1>3, <2>1, SmallestSet
<1>5. s \in SUBSET S /\ s \in SUBSET T /\ s # {} /\ h[s] # k[s]
  BY <1>4, <1>1, <1>2
<1>6. PICK x, r : x = Pick(s) /\ r = s \ {Pick(s)}
  OBVIOUS
<1>7. x \in S /\ r \in SUBSET S /\ Cardinality(r) < Cardinality(s)
  BY <1>5, <1>6, PickIsElement, Smaller
<1>8. h[r] = k[r]
  BY <1>4, <1>7
<1>9. h[s] = f[x] + h[r] /\ k[s] = g[x] + k[r]
  BY <1>5, <1>6, <1>1, <1>2
<1> QED BY <1>5, <1>7, <1>8, <1>9

-----------------------------------------------------------------------------
(* Sums                                                                     *)

LEMMA SumIsOfSums ==
  ASSUME NEW f, NEW S, IsFiniteSet(S)
  PROVE  \E h : Sums(f, S, h) /\ SumFunctionOnSet(f, S) = h[S]
<1>1. Sums(f, S, CHOOSE h : Sums(f, S, h))
  BY SumsExist
<1> QED BY <1>1, SumIsChosen

\* A sum of integers is an integer, and the empty sum is zero.
LEMMA SumIsInteger ==
  ASSUME NEW f, NEW S, IsFiniteSet(S), \A x \in S : f[x] \in Int
  PROVE  SumFunctionOnSet(f, S) \in Int
<1>1. PICK h : Sums(f, S, h) /\ SumFunctionOnSet(f, S) = h[S]
  BY SumIsOfSums
<1> QED BY <1>1, SumsAreIntegers

LEMMA SumOfNothing == ASSUME NEW f PROVE SumFunctionOnSet(f, {}) = 0
<1>1. PICK h : Sums(f, {}, h) /\ SumFunctionOnSet(f, {}) = h[{}]
  BY SumIsOfSums, FS_EmptySet
<1> QED BY <1>1, SumsUnfold

\* A sum depends on the values summed alone.
LEMMA SumDependsOnValues ==
  ASSUME NEW f, NEW g, NEW S, IsFiniteSet(S), \A x \in S : f[x] = g[x]
  PROVE  SumFunctionOnSet(f, S) = SumFunctionOnSet(g, S)
<1>1. PICK h : Sums(f, S, h) /\ SumFunctionOnSet(f, S) = h[S]
  BY SumIsOfSums
<1>2. PICK k : Sums(g, S, k) /\ SumFunctionOnSet(g, S) = k[S]
  BY SumIsOfSums
<1> QED BY <1>1, <1>2, SumsAgree

\* An element adds its value to the sum of the others.
LEMMA SumTakesOneOut ==
  ASSUME NEW f, NEW S, IsFiniteSet(S), \A x \in S : f[x] \in Int, NEW x \in S
  PROVE  SumFunctionOnSet(f, S) = f[x] + SumFunctionOnSet(f, S \ {x})
<1>1. PICK h : Sums(f, S, h) /\ SumFunctionOnSet(f, S) = h[S]
  BY SumIsOfSums
<1>2. PICK r : r = S \ {x}
  OBVIOUS
<1>3. IsFiniteSet(r) /\ r \subseteq S
  BY <1>2, FS_Subset
<1>4. PICK k : Sums(f, r, k) /\ SumFunctionOnSet(f, r) = k[r]
  BY <1>3, SumIsOfSums
<1>5. k[r] = h[r]
  BY <1>1, <1>3, <1>4, SumsAgree
<1>6. h[S] = f[x] + h[r]
  BY <1>1, <1>2, SumsTakeAny
<1> QED BY <1>1, <1>2, <1>4, <1>5, <1>6

LEMMA SumTakesOneIn ==
  ASSUME NEW f, NEW S, IsFiniteSet(S), NEW x, x \notin S, \A y \in S \cup {x} : f[y] \in Int
  PROVE  SumFunctionOnSet(f, S \cup {x}) = f[x] + SumFunctionOnSet(f, S)
<1>1. IsFiniteSet(S \cup {x}) /\ x \in S \cup {x}
  BY FS_AddElement
<1>2. (S \cup {x}) \ {x} = S
  OBVIOUS
<1>3. SumFunctionOnSet(f, S \cup {x}) = f[x] + SumFunctionOnSet(f, (S \cup {x}) \ {x})
  BY <1>1, SumTakesOneOut
<1> QED BY <1>2, <1>3

\* A new element, with the values of the others kept.
LEMMA SumGrows ==
  ASSUME NEW f, NEW g, NEW S, IsFiniteSet(S), NEW x, x \notin S,
         \A y \in S : f[y] = g[y], \A y \in S \cup {x} : g[y] \in Int
  PROVE  /\ SumFunctionOnSet(g, S \cup {x}) = SumFunctionOnSet(f, S) + g[x]
         /\ SumFunctionOnSet(f, S) \in Int
<1>1. PICK s : s = SumFunctionOnSet(g, S)
  OBVIOUS
<1>2. SumFunctionOnSet(g, S \cup {x}) = g[x] + s
  BY <1>1, SumTakesOneIn
<1>3. SumFunctionOnSet(f, S) = s
  BY <1>1, SumDependsOnValues
<1>4. s \in Int
  <2>1. \A y \in S : g[y] \in Int
    OBVIOUS
  <2> QED BY <1>1, <2>1, SumIsInteger
<1>5. g[x] \in Int
  OBVIOUS
<1> QED BY <1>2, <1>3, <1>4, <1>5

\* When one value changes, the sum changes by the difference.
LEMMA SumChangesByOne ==
  ASSUME NEW f, NEW g, NEW S, IsFiniteSet(S), NEW x \in S,
         \A y \in S : f[y] \in Int /\ g[y] \in Int,
         \A y \in S \ {x} : f[y] = g[y]
  PROVE  SumFunctionOnSet(g, S) = SumFunctionOnSet(f, S) - f[x] + g[x]
<1>1. IsFiniteSet(S \ {x}) /\ \A y \in S \ {x} : y \in S
  BY FS_RemoveElement
<1>2. PICK r : r = SumFunctionOnSet(f, S \ {x})
  OBVIOUS
<1>3. r \in Int /\ r = SumFunctionOnSet(g, S \ {x})
  BY <1>1, <1>2, SumIsInteger, SumDependsOnValues
<1>4. SumFunctionOnSet(f, S) = f[x] + r /\ SumFunctionOnSet(g, S) = g[x] + r
  <2>1. SumFunctionOnSet(f, S) = f[x] + SumFunctionOnSet(f, S \ {x})
    BY SumTakesOneOut
  <2>2. SumFunctionOnSet(g, S) = g[x] + SumFunctionOnSet(g, S \ {x})
    BY SumTakesOneOut
  <2> QED BY <1>2, <1>3, <2>1, <2>2
<1> QED BY <1>3, <1>4
=============================================================================
