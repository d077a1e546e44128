----------------------------- MODULE SumProofs -----------------------------
(***************************************************************************)
(* Sums over finite sets and over lists, as the folds of the community     *)
(* modules compute them.  A fold is a recursive function that some CHOOSE  *)
(* names, so its equation has to be earned: FoldExists builds a function   *)
(* that satisfies it, FoldUnique shows there is no other.  Both go by the  *)
(* size of the set, with a smallest counterexample.                        *)
(***************************************************************************)
EXTENDS Integers, FiniteSets, FiniteSetTheorems, WellFoundedInduction, SequencesExt, TLAPS

LEMMA NatMinimum ==
  ASSUME NEW T \in SUBSET Nat, T # {}
  PROVE  \E n \in T : \A m \in T : n <= m
<1>1. PICK n \in T : \A m \in T : ~(<<m, n>> \in OpToRel(<, Nat))
  BY NatLessThanWellFounded, WFMin
<1>2. ASSUME NEW m \in T PROVE n <= m
  <2>1. ~(m < n)
    BY <1>1 DEF OpToRel
  <2> QED BY <2>1
<1> QED BY <1>2

\* h adds up g over the subsets of S, taking out element c[s] of s first.
IsFold(h, g, c, S) ==
  h = [s \in SUBSET S |-> IF s = {} THEN 0 ELSE g[c[s]] + h[s \ {c[s]}]]

Picks(c, S) == \A s \in SUBSET S : s # {} => c[s] \in s

UpTo(S, n) == {s \in SUBSET S : Cardinality(s) <= n}

LEMMA FoldExists ==
  ASSUME NEW S, IsFiniteSet(S), NEW g \in [S -> Int], NEW c, Picks(c, S)
  PROVE  \E h \in [SUBSET S -> Int] : IsFold(h, g, c, S)
<1> DEFINE Step(h, s) == IF s = {} THEN 0 ELSE g[c[s]] + h[s \ {c[s]}]
           Good(n) == \E h \in [UpTo(S, n) -> Int] : \A s \in UpTo(S, n) : h[s] = Step(h, s)
           Bad == {n \in Nat : ~Good(n)}
<1>0. \A s \in SUBSET S : IsFiniteSet(s) /\ Cardinality(s) \in Nat
  BY FS_Subset, FS_CardinalityType
<1>1. Good(0)
  <2>1. UpTo(S, 0) = {{}}
    BY <1>0, FS_EmptySet DEF UpTo
  <2>2. [s \in UpTo(S, 0) |-> 0] \in [UpTo(S, 0) -> Int]
    OBVIOUS
  <2> QED BY <2>1, <2>2
<1>2. ASSUME NEW n \in Nat, Good(n) PROVE Good(n + 1)
  <2>1. PICK h \in [UpTo(S, n) -> Int] : \A s \in UpTo(S, n) : h[s] = Step(h, s)
    BY <1>2
  <2> DEFINE k == [s \in UpTo(S, n + 1) |-> Step(h, s)]
  <2>2. ASSUME NEW s \in UpTo(S, n + 1), s # {}
        PROVE  s \ {c[s]} \in UpTo(S, n) /\ c[s] \in S
    <3>1. s \in SUBSET S /\ Cardinality(s) <= n + 1
      BY <2>2 DEF UpTo
    <3>2. IsFiniteSet(s) /\ Cardinality(s) \in Nat
      BY <1>0, <3>1
    <3>3. c[s] \in s
      BY <2>2, <3>1 DEF Picks
    <3>4. Cardinality(s \ {c[s]}) = Cardinality(s) - 1
      BY <3>2, <3>3, FS_RemoveElement
    <3>5. Cardinality(s \ {c[s]}) <= n
      BY <3>1, <3>2, <3>4
    <3>6. s \ {c[s]} \in SUBSET S /\ c[s] \in S
      BY <3>1, <3>3
    <3> QED BY <3>5, <3>6 DEF UpTo
  <2>3. k \in [UpTo(S, n + 1) -> Int]
    BY <2>2
  <2>4. \A s \in UpTo(S, n) : s \in UpTo(S, n + 1) /\ k[s] = h[s]
    BY <1>0, <2>1 DEF UpTo
  <2>5. \A s \in UpTo(S, n + 1) : k[s] = Step(k, s)
    BY <2>2, <2>4
  <2> HIDE DEF k
  <2> QED BY <2>3, <2>5
<1>3. Good(Cardinality(S))
  <2> SUFFICES ASSUME ~Good(Cardinality(S)) PROVE FALSE
    OBVIOUS
  <2> HIDE DEF Good
  <2>1. Bad \in SUBSET Nat /\ Bad # {}
    BY <1>0
  <2>2. PICK n \in Bad : \A m \in Bad : n <= m
    BY <2>1, NatMinimum
  <2>3. n \in Nat /\ n # 0 /\ ~Good(n)
    BY <1>1, <2>2
  <2>4. n - 1 \in Nat /\ n - 1 \notin Bad
    BY <2>2, <2>3
  <2>5. Good((n - 1) + 1)
    BY <1>2, <2>4
  <2> QED BY <2>3, <2>5
<1>4. UpTo(S, Cardinality(S)) = SUBSET S
  BY FS_Subset DEF UpTo
<1>5. PICK h \in [SUBSET S -> Int] : \A s \in SUBSET S : h[s] = Step(h, s)
  BY <1>3, <1>4
<1> QED BY <1>5 DEF IsFold

LEMMA FoldUnique ==
  ASSUME NEW S, IsFiniteSet(S), NEW g, NEW c, Picks(c, S),
         NEW h, IsFold(h, g, c, S), NEW k, IsFold(k, g, c, S)
  PROVE  h = k
<1>0. \A s \in SUBSET S : IsFiniteSet(s) /\ Cardinality(s) \in Nat
  BY FS_Subset, FS_CardinalityType
<1> DEFINE Differ == {s \in SUBSET S : h[s] # k[s]}
           Sizes  == {n \in Nat : \E s \in Differ : Cardinality(s) = n}
<1>1. Differ = {}
  <2> SUFFICES ASSUME Differ # {} PROVE FALSE
    OBVIOUS
  <2>1. Sizes \in SUBSET Nat /\ Sizes # {}
    BY <1>0
  <2>2. PICK n \in Sizes : \A m \in Sizes : n <= m
    BY <2>1, NatMinimum
  <2>3. PICK s \in Differ : Cardinality(s) = n
    BY <2>2
  <2>4. s \in SUBSET S /\ h[s] # k[s]
    BY <2>3
  <2>5. /\ h[s] = IF s = {} THEN 0 ELSE g[c[s]] + h[s \ {c[s]}]
        /\ k[s] = IF s = {} THEN 0 ELSE g[c[s]] + k[s \ {c[s]}]
    BY <2>4 DEF IsFold
  <2>6. s # {} /\ c[s] \in s /\ h[s \ {c[s]}] # k[s \ {c[s]}]
    BY <2>4, <2>5 DEF Picks
  <2>7. s \ {c[s]} \in Differ
    BY <2>4, <2>6
  <2>8. Cardinality(s \ {c[s]}) = n - 1 /\ n \in Nat
    BY <1>0, <2>2, <2>3, <2>4, <2>6, FS_RemoveElement
  <2>9. n - 1 \in Sizes
    BY <1>0, <2>7, <2>8
  <2> QED BY <2>2, <2>8, <2>9
<1>2. \A s \in SUBSET S : h[s] = k[s]
  BY <1>1
<1>3. h = [s \in SUBSET S |-> h[s]] /\ k = [s \in SUBSET S |-> k[s]]
  BY DEF IsFold
<1> QED BY <1>2, <1>3

-----------------------------------------------------------------------------
(* SumFunction *)

\* A sum of integers is an integer.
LEMMA SumFunctionType ==
  ASSUME NEW S, IsFiniteSet(S), NEW f \in [S -> Int]
  PROVE  SumFunction(f) \in Int
<1> DEFINE c == [s \in SUBSET S |-> CHOOSE x \in s : TRUE]
           Eq(i) == i = [s \in SUBSET DOMAIN f |->
                           IF s = {} THEN 0
                           ELSE f[CHOOSE x \in s : TRUE] + i[s \ {CHOOSE x \in s : TRUE}]]
<1>1. Picks(c, S)
  BY DEF Picks
<1>2. PICK h \in [SUBSET S -> Int] : IsFold(h, f, c, S)
  BY <1>1, FoldExists
<1>3. SumFunction(f) = (CHOOSE i : Eq(i))[DOMAIN f]
  BY DEF SumFunction, SumFunctionOnSet, FoldFunctionOnSet, MapThenFoldSet
<1>4. \A i : Eq(i) <=> IsFold(i, f, c, S)
  BY DEF IsFold
<1> HIDE DEF Eq, c
<1>5. IsFold(CHOOSE i : Eq(i), f, c, S)
  BY <1>2, <1>4
<1>6. h = CHOOSE i : Eq(i)
  BY <1>1, <1>2, <1>5, FoldUnique
<1> QED BY <1>2, <1>3, <1>6

-----------------------------------------------------------------------------
(* Largest numbers *)

\* Numbers below a bound have a largest one, and Max finds it.
LEMMA MaxOfBounded ==
  ASSUME NEW n \in Nat, NEW s \in SUBSET (0..n), s # {}
  PROVE  Max(s) \in s /\ \A y \in s : Max(s) >= y
<1> DEFINE gaps == {m \in Nat : \E x \in s : x = n - m}
<1>1. gaps \in SUBSET Nat /\ gaps # {}
  <2>1. PICK x \in s : x \in 0..n
    OBVIOUS
  <2>2. n - x \in Nat /\ x = n - (n - x)
    BY <2>1
  <2> QED BY <2>1, <2>2
<1>2. PICK m \in gaps : \A k \in gaps : m <= k
  BY <1>1, NatMinimum
<1>3. PICK x \in s : x = n - m
  BY <1>2
<1>4. ASSUME NEW y \in s PROVE x >= y
  <2>1. y \in 0..n /\ n - y \in Nat /\ y = n - (n - y)
    OBVIOUS
  <2>2. m <= n - y
    BY <1>2, <2>1
  <2> QED BY <1>3, <2>1, <2>2
<1>5. \E z \in s : \A y \in s : z >= y
  BY <1>3, <1>4
<1> QED BY <1>5 DEF Max

\* A list of numbers that is not empty has a largest one.
LEMMA MaxOfList ==
  ASSUME NEW n \in Nat \ {0}, NEW f \in [1..n -> Nat]
  PROVE  Max({f[i] : i \in 1..n}) \in Nat /\ \A i \in 1..n : Max({f[j] : j \in 1..n}) >= f[i]
<1> DEFINE Bound(k) == \E b \in Nat : \A i \in 1..k : f[i] <= b
           Bad == {k \in 0..n : ~Bound(k)}
<1>1. Bound(n)
  <2> SUFFICES ASSUME ~Bound(n) PROVE FALSE
    OBVIOUS
  <2>1. Bound(0)
    <3>1. \A i \in 1..0 : f[i] <= 0
      OBVIOUS
    <3> QED BY <3>1
  <2>2. ASSUME NEW k \in 0..n, Bound(k), k + 1 \in 0..n PROVE Bound(k + 1)
    <3>1. PICK b \in Nat : \A i \in 1..k : f[i] <= b
      BY <2>2
    <3>2. k \in Nat /\ k + 1 \in 1..n
      BY <2>2
    <3> HIDE DEF Bound
    <3>3. f[k + 1] \in Nat /\ b + f[k + 1] \in Nat
      BY <3>2
    <3>4. ASSUME NEW i \in 1..(k + 1) PROVE f[i] <= b + f[k + 1]
      <4>1. CASE i = k + 1
        BY <3>3, <4>1
      <4>2. CASE i \in 1..k
        <5>1. i \in 1..n /\ f[i] <= b
          BY <3>1, <3>2, <4>2
        <5>2. f[i] \in Nat
          BY <5>1
        <5> QED BY <3>3, <5>1, <5>2
      <4> QED BY <3>2, <4>1, <4>2
    <3> QED BY <3>3, <3>4 DEF Bound
  <2> HIDE DEF Bound
  <2>3. Bad \in SUBSET Nat /\ Bad # {}
    OBVIOUS
  <2>4. PICK k \in Bad : \A m \in Bad : k <= m
    BY <2>3, NatMinimum
  <2>5. k \in 0..n /\ k # 0 /\ ~Bound(k)
    BY <2>1, <2>4
  <2>6. k - 1 \in 0..n /\ k - 1 \notin Bad /\ (k - 1) + 1 = k
    BY <2>4, <2>5
  <2> QED BY <2>2, <2>5, <2>6
<1>2. PICK b \in Nat : \A i \in 1..n : f[i] <= b
  BY <1>1
<1>3. {f[i] : i \in 1..n} \in SUBSET (0..b) /\ {f[i] : i \in 1..n} # {}
  BY <1>2
<1> QED BY <1>3, MaxOfBounded

=============================================================================
