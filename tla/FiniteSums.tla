------------------------------ MODULE FiniteSums ------------------------------
(* Facts about SumFunctionOnSet, the sum over a finite set that the         *)
(* community modules define by a recursive function: it can be split at any *)
(* element.                                                                 *)
(* Induction is stated for sets, since a theorem about an arbitrary         *)
(* predicate cannot be instantiated.                                        *)
EXTENDS Integers, Functions, FiniteSetTheorems, WellFoundedInduction, TLAPS

(* The element that the recursion removes first.                            *)
Pick(s) == CHOOSE x \in s : TRUE

(* One step of the recursion, from what h says of smaller sets.             *)
Unrolled(g, h, s) == IF s = {} THEN 0 ELSE g[Pick(s)] + h[s \ {Pick(s)}]

(* h is a function the recursion may define.                                *)
IsSummation(g, S, h) == h = [s \in SUBSET S |-> Unrolled(g, h, s)]

-----------------------------------------------------------------------------
(* Every nonempty set of natural numbers has a least element.               *)
LEMMA LeastNumber ==
  ASSUME NEW T \in SUBSET Nat, T # {}
  PROVE  \E m \in T : \A k \in T : m <= k
<1>1. \E m \in T : \A k \in T : ~(<<k, m>> \in OpToRel(<, Nat))
  BY NatLessThanWellFounded, WFMin, Zenon
<1>2. \A k, m \in T : k < m => <<k, m>> \in OpToRel(<, Nat)
  BY DEF OpToRel
<1>3. \E m \in T : \A k \in T : ~(k < m)
  BY <1>1, <1>2, Zenon
<1> QED
  BY <1>3

(* A set with 0 and the successor of each of its elements is Nat.           *)
LEMMA Induction ==
  ASSUME NEW S \in SUBSET Nat, 0 \in S, \A n \in S : n + 1 \in S
  PROVE  S = Nat
<1>1. SUFFICES ASSUME Nat \ S # {} PROVE FALSE
  OBVIOUS
<1>2. PICK m \in Nat \ S : \A k \in Nat \ S : m <= k
  BY <1>1, LeastNumber
<1>3. m - 1 \in Nat /\ m - 1 \notin Nat \ S
  BY <1>2
<1> QED
  BY <1>2, <1>3

(* A set of subsets of S that has a set when it has all those with one      *)
(* element less has every subset of S.                                      *)
LEMMA SubsetInduction ==
  ASSUME NEW S, IsFiniteSet(S), NEW P \in SUBSET (SUBSET S),
         \A s \in SUBSET S : (\A x \in s : s \ {x} \in P) => s \in P
  PROVE  P = SUBSET S
<1> DEFINE N == {n \in Nat : \A s \in SUBSET S : Cardinality(s) = n => s \in P}
<1>1. \A s \in SUBSET S : IsFiniteSet(s) /\ Cardinality(s) \in Nat
  BY FS_Subset, FS_CardinalityType
<1>2. \A s \in SUBSET S : \A x \in s : s \ {x} \in SUBSET S /\ Cardinality(s \ {x}) = Cardinality(s) - 1
  BY <1>1, FS_RemoveElement
<1>3. 0 \in N
  <2>1. ASSUME NEW s \in SUBSET S, Cardinality(s) = 0 PROVE s \in P
    <3>1. s = {}
      BY <1>1, <2>1, FS_EmptySet
    <3> QED
      BY <3>1
  <2> QED
    BY <2>1
<1>4. ASSUME NEW n \in N PROVE n + 1 \in N
  <2>1. ASSUME NEW s \in SUBSET S, Cardinality(s) = n + 1 PROVE s \in P
    <3>1. \A x \in s : s \ {x} \in SUBSET S /\ Cardinality(s \ {x}) = n
      BY <1>2, <2>1
    <3> QED
      BY <3>1
  <2> QED
    BY <2>1
<1>5. N = Nat
  <2>1. N \in SUBSET Nat
    OBVIOUS
  <2> HIDE DEF N
  <2> QED
    BY <1>3, <1>4, <2>1, Induction
<1> QED
  BY <1>1, <1>5

-----------------------------------------------------------------------------
(* SumFunctionOnSet is what its recursion makes of the whole set.              *)
LEMMA SumUnfolds ==
  ASSUME NEW g, NEW S
  PROVE  SumFunctionOnSet(g, S) = (CHOOSE h : IsSummation(g, S, h))[S]
BY Zenon DEF SumFunctionOnSet, FoldFunctionOnSet, MapThenFoldSet, Pick, Unrolled, IsSummation

LEMMA PickIsElement ==
  ASSUME NEW s, s # {}
  PROVE  Pick(s) \in s
BY DEF Pick

(* The recursion defines a function with natural values.                    *)
LEMMA SummationExists ==
  ASSUME NEW S, IsFiniteSet(S), NEW g, \A x \in S : g[x] \in Nat
  PROVE  \E h \in [SUBSET S -> Nat] : IsSummation(g, S, h)
<1> DEFINE Upto(n, h) == \A s \in SUBSET S : Cardinality(s) <= n => h[s] = Unrolled(g, h, s)
           N == {n \in Nat : \E h \in [SUBSET S -> Nat] : Upto(n, h)}
<1>1. \A s \in SUBSET S : IsFiniteSet(s) /\ Cardinality(s) \in Nat /\ Cardinality(s) <= Cardinality(S)
  BY FS_Subset, FS_CardinalityType
<1>2. \A s \in SUBSET S : s # {} => /\ Pick(s) \in s /\ Pick(s) \in S
                                    /\ s \ {Pick(s)} \in SUBSET S
                                    /\ Cardinality(s \ {Pick(s)}) = Cardinality(s) - 1
  BY <1>1, PickIsElement, FS_RemoveElement
<1>3. 0 \in N
  <2> DEFINE h == [s \in SUBSET S |-> 0]
  <2>1. h \in [SUBSET S -> Nat]
    OBVIOUS
  <2>2. ASSUME NEW s \in SUBSET S, Cardinality(s) <= 0 PROVE h[s] = Unrolled(g, h, s)
    <3>1. s = {}
      BY <1>1, <2>2, FS_EmptySet
    <3>2. Unrolled(g, h, s) = 0
      BY <3>1 DEF Unrolled
    <3>3. h[s] = 0
      OBVIOUS
    <3> QED
      BY <3>2, <3>3
  <2> QED
    BY <2>1, <2>2
<1>4. ASSUME NEW n \in N PROVE n + 1 \in N
  <2>1. PICK h \in [SUBSET S -> Nat] : Upto(n, h)
    OBVIOUS
  <2> DEFINE k == [s \in SUBSET S |-> Unrolled(g, h, s)]
  <2>2. k \in [SUBSET S -> Nat]
    <3>1. ASSUME NEW s \in SUBSET S PROVE Unrolled(g, h, s) \in Nat
      <4>1. CASE s = {}
        BY <4>1 DEF Unrolled
      <4>2. CASE s # {}
        <5>1. g[Pick(s)] \in Nat /\ h[s \ {Pick(s)}] \in Nat
          BY <1>2, <4>2
        <5> QED
          BY <4>2, <5>1 DEF Unrolled
      <4> QED
        BY <4>1, <4>2
    <3> QED
      BY <3>1
  <2>3. ASSUME NEW s \in SUBSET S, Cardinality(s) <= n + 1 PROVE k[s] = Unrolled(g, k, s)
    <3>1. CASE s = {}
      BY <3>1 DEF Unrolled
    <3>2. CASE s # {}
      <4> DEFINE r == s \ {Pick(s)}
      <4>1. r \in SUBSET S /\ Cardinality(r) <= n
        BY <1>1, <1>2, <2>3, <3>2
      <4>2. h[r] = Unrolled(g, h, r)
        BY <2>1, <4>1
      <4>3. k[r] = h[r]
        BY <4>1, <4>2
      <4>4. k[s] = g[Pick(s)] + h[r]
        BY <3>2 DEF Unrolled
      <4> QED
        BY <3>2, <4>3, <4>4 DEF Unrolled
    <3> QED
      BY <3>1, <3>2
  <2> HIDE DEF k
  <2> QED
    BY <2>2, <2>3
<1>5. N = Nat
  <2>1. N \in SUBSET Nat
    OBVIOUS
  <2> HIDE DEF N
  <2> QED
    BY <1>3, <1>4, <2>1, Induction
<1>6. Cardinality(S) \in N
  BY <1>5, FS_CardinalityType
<1>7. PICK h \in [SUBSET S -> Nat] : \A s \in SUBSET S : h[s] = Unrolled(g, h, s)
  BY <1>1, <1>6
<1>8. h = [s \in SUBSET S |-> Unrolled(g, h, s)]
  BY <1>7
<1> QED
  BY <1>7, <1>8 DEF IsSummation

(* Two summations agree where both are defined.                             *)
LEMMA SummationUnique ==
  ASSUME NEW S, IsFiniteSet(S), NEW T \in SUBSET S, NEW g, NEW h, NEW k,
         IsSummation(g, S, h), IsSummation(g, T, k)
  PROVE  \A s \in SUBSET T : h[s] = k[s]
<1> DEFINE P == {s \in SUBSET T : h[s] = k[s]}
<1>1. IsFiniteSet(T)
  BY FS_Subset
<1>2. ASSUME NEW s \in SUBSET T, \A x \in s : s \ {x} \in P PROVE s \in P
  <2>1. h[s] = Unrolled(g, h, s) /\ k[s] = Unrolled(g, k, s)
    BY DEF IsSummation
  <2>2. CASE s = {}
    BY <2>1, <2>2 DEF Unrolled
  <2>3. CASE s # {}
    <3>1. h[s \ {Pick(s)}] = k[s \ {Pick(s)}]
      BY <1>2, <2>3, PickIsElement
    <3> QED
      BY <2>1, <2>3, <3>1 DEF Unrolled
  <2> QED
    BY <2>2, <2>3
<1>3. P = SUBSET T
  <2>1. P \in SUBSET (SUBSET T)
    OBVIOUS
  <2> HIDE DEF P
  <2> QED
    BY <1>1, <1>2, <2>1, SubsetInduction
<1> QED
  BY <1>3

(* A summation can be split at any element, not only at the one picked.     *)
LEMMA SummationSplits ==
  ASSUME NEW S, IsFiniteSet(S), NEW g, \A x \in S : g[x] \in Nat, NEW h \in [SUBSET S -> Nat],
         IsSummation(g, S, h)
  PROVE  \A s \in SUBSET S : \A x \in s : h[s] = g[x] + h[s \ {x}]
<1> DEFINE P == {s \in SUBSET S : \A x \in s : h[s] = g[x] + h[s \ {x}]}
<1>1. ASSUME NEW s \in SUBSET S, \A x \in s : s \ {x} \in P PROVE s \in P
  <2>1. SUFFICES ASSUME NEW x \in s PROVE h[s] = g[x] + h[s \ {x}]
    OBVIOUS
  <2> DEFINE p == Pick(s)
  <2>2. p \in s
    BY PickIsElement
  <2>3. h[s] = g[p] + h[s \ {p}]
    BY DEF IsSummation, Unrolled
  <2> HIDE DEF p
  <2>4. CASE x = p
    BY <2>3, <2>4
  <2>5. CASE x # p
    <3>1. h[s \ {p}] = g[x] + h[(s \ {p}) \ {x}]
      BY <1>1, <2>2, <2>5
    <3>2. h[s \ {x}] = g[p] + h[(s \ {x}) \ {p}]
      BY <1>1, <2>2, <2>5
    <3>3. (s \ {p}) \ {x} = (s \ {x}) \ {p}
      OBVIOUS
    <3>4. /\ g[x] \in Nat /\ g[p] \in Nat
          /\ h[(s \ {x}) \ {p}] \in Nat
      BY <2>2
    <3>5. \A a, b, r \in Nat : a + (b + r) = b + (a + r)
      OBVIOUS
    <3>6. g[p] + (g[x] + h[(s \ {x}) \ {p}]) = g[x] + (g[p] + h[(s \ {x}) \ {p}])
      BY <3>4, <3>5, Zenon
    <3> QED
      BY <2>3, <3>1, <3>2, <3>3, <3>6, Zenon
  <2> QED
    BY <2>4, <2>5
<1>2. P = SUBSET S
  <2>1. P \in SUBSET (SUBSET S)
    OBVIOUS
  <2> HIDE DEF P
  <2> QED
    BY <1>1, <2>1, SubsetInduction
<1> QED
  BY <1>2

(* The sum of nothing is 0, every sum is a natural number, and it is an     *)
(* element's share and the sum of the others, whichever the element.        *)
LEMMA SumOfFiniteSet ==
  ASSUME NEW S, IsFiniteSet(S), NEW g, \A x \in S : g[x] \in Nat
  PROVE  /\ S = {} => SumFunctionOnSet(g, S) = 0
         /\ SumFunctionOnSet(g, S) \in Nat
         /\ \A x \in S : SumFunctionOnSet(g, S) = g[x] + SumFunctionOnSet(g, S \ {x})
<1> DEFINE H == CHOOSE h : IsSummation(g, S, h)
<1>1. PICK h \in [SUBSET S -> Nat] : IsSummation(g, S, h)
  BY SummationExists
<1>2. IsSummation(g, S, H)
  BY <1>1, Zenon
<1>3. SumFunctionOnSet(g, S) = H[S]
  BY SumUnfolds
<1> HIDE DEF H
<1>4. \A s \in SUBSET S : H[s] = h[s]
  BY <1>1, <1>2, SummationUnique
<1>5. SumFunctionOnSet(g, S) = h[S]
  BY <1>3, <1>4
<1>6. S = {} => SumFunctionOnSet(g, S) = 0
  BY <1>1, <1>5 DEF IsSummation, Unrolled
<1>7. ASSUME NEW x \in S PROVE SumFunctionOnSet(g, S) = g[x] + SumFunctionOnSet(g, S \ {x})
  <2> DEFINE T == S \ {x}
             K == CHOOSE k : IsSummation(g, T, k)
  <2>1. T \in SUBSET S /\ IsFiniteSet(T)
    BY FS_Subset
  <2>2. \E k : IsSummation(g, T, k)
    BY <2>1, SummationExists
  <2>3. IsSummation(g, T, K)
    BY <2>2, Zenon
  <2>4. SumFunctionOnSet(g, T) = K[T]
    BY SumUnfolds
  <2> HIDE DEF K, T
  <2>5. h[T] = K[T]
    BY <1>1, <2>1, <2>3, SummationUnique
  <2>6. h[S] = g[x] + h[T]
    BY <1>1, SummationSplits DEF T
  <2> QED
    BY <1>5, <2>4, <2>5, <2>6 DEF T
<1> QED
  BY <1>1, <1>5, <1>6, <1>7

(* A sum does not grow when no part of it does.                             *)
LEMMA SumMonotone ==
  ASSUME NEW S, IsFiniteSet(S), NEW f, NEW g,
         \A x \in S : f[x] \in Nat /\ g[x] \in Nat /\ f[x] <= g[x]
  PROVE  SumFunctionOnSet(f, S) <= SumFunctionOnSet(g, S)
<1> DEFINE P == {s \in SUBSET S : SumFunctionOnSet(f, s) <= SumFunctionOnSet(g, s)}
<1>1. ASSUME NEW s \in SUBSET S, \A x \in s : s \ {x} \in P PROVE s \in P
  <2>1. IsFiniteSet(s) /\ \A x \in s : f[x] \in Nat /\ g[x] \in Nat /\ f[x] <= g[x]
    BY FS_Subset
  <2>2. CASE s = {}
    <3>1. SumFunctionOnSet(f, s) = 0 /\ SumFunctionOnSet(g, s) = 0
      BY <2>1, <2>2, SumOfFiniteSet
    <3> QED
      BY <3>1
  <2>3. CASE s # {}
    <3>1. PICK x \in s : TRUE
      BY <2>3
    <3>2. IsFiniteSet(s \ {x})
      BY <2>1, FS_Subset
    <3>3. SumFunctionOnSet(f, s \ {x}) \in Nat /\ SumFunctionOnSet(g, s \ {x}) \in Nat
      BY <2>1, <3>2, SumOfFiniteSet
    <3>4. /\ SumFunctionOnSet(f, s) = f[x] + SumFunctionOnSet(f, s \ {x})
          /\ SumFunctionOnSet(g, s) = g[x] + SumFunctionOnSet(g, s \ {x})
      BY <2>1, SumOfFiniteSet
    <3>5. SumFunctionOnSet(f, s \ {x}) <= SumFunctionOnSet(g, s \ {x})
      BY <1>1
    <3> QED
      BY <2>1, <3>3, <3>4, <3>5
  <2> QED
    BY <2>2, <2>3
<1>2. P = SUBSET S
  <2>1. P \in SUBSET (SUBSET S)
    OBVIOUS
  <2> HIDE DEF P
  <2> QED
    BY <1>1, <2>1, SubsetInduction
<1> QED
  BY <1>2

(* A sum one part of which grows by at most 1 grows by at most 1.           *)
LEMMA SumGrowsByOne ==
  ASSUME NEW S, IsFiniteSet(S), NEW f, NEW g, NEW k \in S,
         \A x \in S : f[x] \in Nat /\ g[x] \in Nat,
         \A x \in S \ {k} : f[x] <= g[x], f[k] <= g[k] + 1
  PROVE  SumFunctionOnSet(f, S) <= SumFunctionOnSet(g, S) + 1
<1>1. IsFiniteSet(S \ {k})
  BY FS_Subset
<1>2. /\ SumFunctionOnSet(f, S) = f[k] + SumFunctionOnSet(f, S \ {k})
      /\ SumFunctionOnSet(g, S) = g[k] + SumFunctionOnSet(g, S \ {k})
  BY SumOfFiniteSet
<1>3. SumFunctionOnSet(f, S \ {k}) \in Nat /\ SumFunctionOnSet(g, S \ {k}) \in Nat
  BY <1>1, SumOfFiniteSet
<1>4. SumFunctionOnSet(f, S \ {k}) <= SumFunctionOnSet(g, S \ {k})
  BY <1>1, SumMonotone
<1> QED
  BY <1>2, <1>3, <1>4

(* Nothing but zeros adds up to 0.                                          *)
LEMMA SumOfZeros ==
  ASSUME NEW S, IsFiniteSet(S), NEW g, \A x \in S : g[x] = 0
  PROVE  SumFunctionOnSet(g, S) = 0
<1> DEFINE P == {s \in SUBSET S : SumFunctionOnSet(g, s) = 0}
<1>1. ASSUME NEW s \in SUBSET S, \A x \in s : s \ {x} \in P PROVE s \in P
  <2>1. IsFiniteSet(s) /\ \A x \in s : g[x] = 0 /\ g[x] \in Nat
    BY FS_Subset
  <2>2. CASE s = {}
    BY <2>1, <2>2, SumOfFiniteSet
  <2>3. CASE s # {}
    <3>1. PICK x \in s : TRUE
      BY <2>3
    <3>2. SumFunctionOnSet(g, s) = g[x] + SumFunctionOnSet(g, s \ {x})
      BY <2>1, SumOfFiniteSet
    <3>3. SumFunctionOnSet(g, s \ {x}) = 0
      BY <1>1
    <3> QED
      BY <2>1, <3>2, <3>3
  <2> QED
    BY <2>2, <2>3
<1>2. P = SUBSET S
  <2>1. P \in SUBSET (SUBSET S)
    OBVIOUS
  <2> HIDE DEF P
  <2> QED
    BY <1>1, <2>1, SubsetInduction
<1> QED
  BY <1>2

(* A sum of multiples of k is a multiple of k.                              *)
LEMMA SumOfMultiples ==
  ASSUME NEW S, IsFiniteSet(S), NEW k \in Nat, NEW g, \A x \in S : \E m \in Nat : g[x] = k * m
  PROVE  \E m \in Nat : SumFunctionOnSet(g, S) = k * m
<1> DEFINE P == {s \in SUBSET S : \E m \in Nat : SumFunctionOnSet(g, s) = k * m}
<1>0. \A x \in S : g[x] \in Nat
  OBVIOUS
<1>1. ASSUME NEW s \in SUBSET S, \A x \in s : s \ {x} \in P PROVE s \in P
  <2>1. IsFiniteSet(s) /\ \A x \in s : g[x] \in Nat
    BY <1>0, FS_Subset
  <2>2. CASE s = {}
    <3>1. SumFunctionOnSet(g, s) = k * 0
      BY <2>1, <2>2, SumOfFiniteSet
    <3> QED
      BY <3>1
  <2>3. CASE s # {}
    <3>1. PICK x \in s : TRUE
      BY <2>3
    <3>2. SumFunctionOnSet(g, s) = g[x] + SumFunctionOnSet(g, s \ {x})
      BY <2>1, SumOfFiniteSet
    <3>3. PICK m \in Nat : SumFunctionOnSet(g, s \ {x}) = k * m
      BY <1>1
    <3>4. PICK n \in Nat : g[x] = k * n
      OBVIOUS
    <3>5. k * n + k * m = k * (n + m)
      OBVIOUS
    <3>6. n + m \in Nat /\ SumFunctionOnSet(g, s) = k * (n + m)
      BY <3>2, <3>3, <3>4, <3>5
    <3> QED
      BY <3>6
  <2> QED
    BY <2>2, <2>3
<1>2. P = SUBSET S
  <2>1. P \in SUBSET (SUBSET S)
    OBVIOUS
  <2> HIDE DEF P
  <2> QED
    BY <1>0, <1>1, <2>1, SubsetInduction
<1> QED
  BY <1>2

(* A sum one part of which gets smaller, and none larger, gets smaller.     *)
LEMMA SumDecreases ==
  ASSUME NEW S, IsFiniteSet(S), NEW f, NEW g, NEW k \in S,
         \A x \in S : f[x] \in Nat /\ g[x] \in Nat,
         \A x \in S \ {k} : f[x] <= g[x], f[k] < g[k]
  PROVE  SumFunctionOnSet(f, S) < SumFunctionOnSet(g, S)
<1>1. IsFiniteSet(S \ {k})
  BY FS_Subset
<1>2. /\ SumFunctionOnSet(f, S) = f[k] + SumFunctionOnSet(f, S \ {k})
      /\ SumFunctionOnSet(g, S) = g[k] + SumFunctionOnSet(g, S \ {k})
  BY SumOfFiniteSet
<1>3. SumFunctionOnSet(f, S \ {k}) \in Nat /\ SumFunctionOnSet(g, S \ {k}) \in Nat
  BY <1>1, SumOfFiniteSet
<1>4. SumFunctionOnSet(f, S \ {k}) <= SumFunctionOnSet(g, S \ {k})
  BY <1>1, SumMonotone
<1> QED
  BY <1>2, <1>3, <1>4
===============================================================================
