-------------------------- MODULE GasStorageProofs --------------------------
(***************************************************************************)
(* What GasStorage keeps for every value of its constants.  The invariant  *)
(* of the proof is StorageInv.  For the total balance the sum over a list  *)
(* is described by the running total that ends in it.                      *)
(***************************************************************************)
EXTENDS GasStorage, SumProofs, SequenceTheorems, TLAPS

-----------------------------------------------------------------------------
(* Lists *)

\* A prefix of a list, as SubSeq takes it.
LEMMA PrefixOf ==
  ASSUME NEW S, NEW q \in Seq(S), NEW n \in 0..Len(q)
  PROVE  /\ SubSeq(q, 1, n) \in Seq(S)
         /\ Len(SubSeq(q, 1, n)) = n
         /\ \A i \in 1..n : SubSeq(q, 1, n)[i] = q[i]
  OBVIOUS

\* The rest of a list behind a prefix.
LEMMA RestOf ==
  ASSUME NEW S, NEW q \in Seq(S), NEW n \in 0..Len(q)
  PROVE  /\ SubSeq(q, n + 1, Len(q)) \in Seq(S)
         /\ Len(SubSeq(q, n + 1, Len(q))) = Len(q) - n
         /\ \A i \in 1..(Len(q) - n) : SubSeq(q, n + 1, Len(q))[i] = q[n + i]
  OBVIOUS

\* Putting a prefix back in front of the rest gives the list again.
LEMMA PrefixAndRest ==
  ASSUME NEW S, NEW q \in Seq(S), NEW n \in 0..Len(q)
  PROVE  SubSeq(q, 1, n) \o SubSeq(q, n + 1, Len(q)) = q
<1>1. /\ Len(q) \in Nat
      /\ 1 \in 1..(Len(q) + 1) /\ n \in (1 - 1)..Len(q) /\ Len(q) \in n..Len(q)
  BY LenProperties
<1>2. SubSeq(q, 1, n) \o SubSeq(q, n + 1, Len(q)) = SubSeq(q, 1, Len(q))
  BY <1>1, ConcatAdjacentSubSeq
<1> QED BY <1>2, SubSeqFull

\* Coins carry object ids.
LEMMA IdsAreObjectIDs ==
  ASSUME NEW q \in Seq(GasCoin)
  PROVE  Ids(q) \subseteq ObjectID
<1>1. \A i \in 1..Len(q) : q[i] \in GasCoin
  BY ElementOfSeq
<1> QED BY <1>1 DEF Ids, GasCoin

\* The object ids of a concatenation.
LEMMA IdsOfConcat ==
  ASSUME NEW q \in Seq(GasCoin), NEW t \in Seq(GasCoin)
  PROVE  Ids(q \o t) = Ids(q) \cup Ids(t)
<1>1. /\ Len(q \o t) = Len(q) + Len(t)
      /\ \A i \in 1..(Len(q) + Len(t)) :
           (q \o t)[i] = IF i <= Len(q) THEN q[i] ELSE t[i - Len(q)]
  BY ConcatProperties
<1>2. Len(q) \in Nat /\ Len(t) \in Nat
  BY LenProperties
<1>3. ASSUME NEW c \in Ids(q \o t) PROVE c \in Ids(q) \cup Ids(t)
  <2>1. PICK i \in 1..(Len(q) + Len(t)) : c = (q \o t)[i].id
    BY <1>1, <1>3 DEF Ids
  <2>2. CASE i <= Len(q)
    BY <1>1, <1>2, <2>1, <2>2 DEF Ids
  <2>3. CASE i > Len(q)
    <3>1. i - Len(q) \in 1..Len(t)
      BY <1>2, <2>3
    <3> QED BY <1>1, <1>2, <2>1, <2>3, <3>1 DEF Ids
  <2> QED BY <1>2, <2>2, <2>3
<1>4. ASSUME NEW c \in Ids(q) PROVE c \in Ids(q \o t)
  BY <1>1, <1>2, <1>4 DEF Ids
<1>5. ASSUME NEW c \in Ids(t) PROVE c \in Ids(q \o t)
  <2>1. PICK i \in 1..Len(t) : c = t[i].id
    BY <1>5 DEF Ids
  <2>2. /\ i + Len(q) \in 1..(Len(q) + Len(t)) /\ ~(i + Len(q) <= Len(q))
        /\ (i + Len(q)) - Len(q) = i
    BY <1>2
  <2>3. (q \o t)[i + Len(q)].id = c
    BY <1>1, <2>1, <2>2
  <2> QED BY <1>1, <2>2, <2>3 DEF Ids
<1> QED BY <1>3, <1>4, <1>5

DistinctIds(q) == \A i, j \in 1..Len(q) : q[i].id = q[j].id => i = j

\* Taking a prefix off a list of different coins splits its ids in two.
LEMMA IdsOfSplit ==
  ASSUME NEW q \in Seq(GasCoin), DistinctIds(q), NEW n \in 0..Len(q)
  PROVE  LET p == SubSeq(q, 1, n)
             t == SubSeq(q, n + 1, Len(q))
         IN  /\ p \in Seq(GasCoin) /\ t \in Seq(GasCoin)
             /\ Len(p) = n /\ Len(t) = Len(q) - n
             /\ Ids(q) = Ids(p) \cup Ids(t)
             /\ Ids(p) \cap Ids(t) = {}
             /\ DistinctIds(p) /\ DistinctIds(t)
<1> DEFINE p == SubSeq(q, 1, n)
           t == SubSeq(q, n + 1, Len(q))
<1>1. p \in Seq(GasCoin) /\ Len(p) = n /\ \A i \in 1..n : p[i] = q[i]
  BY PrefixOf
<1>2. /\ t \in Seq(GasCoin) /\ Len(t) = Len(q) - n
      /\ \A i \in 1..(Len(q) - n) : t[i] = q[n + i]
  BY RestOf
<1>3. p \o t = q
  BY PrefixAndRest
<1> HIDE DEF p, t
<1>4. Ids(q) = Ids(p) \cup Ids(t)
  BY <1>1, <1>2, <1>3, IdsOfConcat
<1>5. Len(q) \in Nat
  BY LenProperties
<1>6. ASSUME NEW c \in Ids(p), c \in Ids(t) PROVE FALSE
  <2>1. PICK i \in 1..n : c = q[i].id
    BY <1>1, <1>6 DEF Ids
  <2>2. PICK j \in 1..(Len(q) - n) : c = q[n + j].id
    BY <1>2, <1>6 DEF Ids
  <2>3. i \in 1..Len(q) /\ n + j \in 1..Len(q) /\ i # n + j
    BY <1>5
  <2> QED BY <2>1, <2>2, <2>3 DEF DistinctIds
<1>7. DistinctIds(p)
  BY <1>1, <1>5 DEF DistinctIds
<1>8. DistinctIds(t)
  <2>1. ASSUME NEW i \in 1..Len(t), NEW j \in 1..Len(t), t[i].id = t[j].id
        PROVE  i = j
    <3>1. n + i \in 1..Len(q) /\ n + j \in 1..Len(q)
      BY <1>2, <1>5
    <3>2. q[n + i].id = q[n + j].id
      BY <1>2, <2>1
    <3>3. n + i = n + j
      BY <3>1, <3>2 DEF DistinctIds
    <3> QED BY <3>3, <1>5
  <2> QED BY <2>1 DEF DistinctIds
<1> QED BY <1>1, <1>2, <1>4, <1>6, <1>7, <1>8 DEF p, t

\* Appending other coins keeps the coins different.
LEMMA DistinctConcat ==
  ASSUME NEW q \in Seq(GasCoin), NEW t \in Seq(GasCoin),
         DistinctIds(q), DistinctIds(t), Ids(q) \cap Ids(t) = {}
  PROVE  DistinctIds(q \o t)
<1>1. /\ Len(q \o t) = Len(q) + Len(t)
      /\ \A i \in 1..(Len(q) + Len(t)) :
           (q \o t)[i] = IF i <= Len(q) THEN q[i] ELSE t[i - Len(q)]
  BY ConcatProperties
<1>2. Len(q) \in Nat /\ Len(t) \in Nat
  BY LenProperties
<1>3. ASSUME NEW i \in 1..Len(q \o t), NEW j \in 1..Len(q \o t),
             (q \o t)[i].id = (q \o t)[j].id
      PROVE  i = j
  <2>1. CASE i <= Len(q) /\ j <= Len(q)
    BY <1>1, <1>2, <1>3, <2>1 DEF DistinctIds
  <2>2. CASE i > Len(q) /\ j > Len(q)
    <3>1. i - Len(q) \in 1..Len(t) /\ j - Len(q) \in 1..Len(t)
      BY <1>1, <1>2, <2>2
    <3>2. t[i - Len(q)].id = t[j - Len(q)].id
      BY <1>1, <1>2, <1>3, <2>2
    <3>3. i - Len(q) = j - Len(q)
      BY <3>1, <3>2 DEF DistinctIds
    <3> QED BY <1>1, <1>2, <3>3
  <2>3. CASE i <= Len(q) /\ j > Len(q)
    <3>1. j - Len(q) \in 1..Len(t) /\ i \in 1..Len(q)
      BY <1>1, <1>2, <2>3
    <3>2. q[i].id = t[j - Len(q)].id
      BY <1>1, <1>2, <1>3, <2>3
    <3> QED BY <3>1, <3>2 DEF Ids
  <2>4. CASE i > Len(q) /\ j <= Len(q)
    <3>1. i - Len(q) \in 1..Len(t) /\ j \in 1..Len(q)
      BY <1>1, <1>2, <2>4
    <3>2. q[j].id = t[i - Len(q)].id
      BY <1>1, <1>2, <1>3, <2>4
    <3> QED BY <3>1, <3>2 DEF Ids
  <2> QED BY <1>1, <1>2, <2>1, <2>2, <2>3, <2>4
<1> QED BY <1>3 DEF DistinctIds

-----------------------------------------------------------------------------
(* The balance of a list, as the sum that runs along it *)

IsRunningTotal(p, q) ==
  /\ p \in [0..Len(q) -> Int]
  /\ p[0] = 0
  /\ \A k \in 1..Len(q) : p[k] = p[k - 1] + q[k].balance

\* Balance is the end of a running total.
LEMMA BalanceRuns ==
  ASSUME NEW q \in Seq(GasCoin)
  PROVE  \E p : IsRunningTotal(p, q) /\ Balance(q) = p[Len(q)]
<1> DEFINE n == Len(q)
           g == [i \in 1..n |-> q[i].balance]
           c == [s \in SUBSET (1..n) |-> Max(s)]
           Eq(i) == i = [s \in SUBSET DOMAIN q |->
                           IF s = {} THEN 0 ELSE i[s \ {Max(s)}] + q[Max(s)].balance]
<1>1. n \in Nat /\ DOMAIN q = 1..n /\ IsFiniteSet(1..n)
  BY LenProperties, FS_Interval
<1>2. g \in [1..n -> Int]
  <2>1. \A i \in 1..n : q[i] \in GasCoin
    BY ElementOfSeq
  <2>2. \A i \in 1..n : q[i].balance \in Int
    BY <2>1 DEF GasCoin
  <2> QED BY <2>2
<1>3. \A s \in SUBSET (1..n) : s # {} => Max(s) \in s /\ \A y \in s : Max(s) >= y
  <2> SUFFICES ASSUME NEW s \in SUBSET (1..n), s # {}
               PROVE  Max(s) \in s /\ \A y \in s : Max(s) >= y
    OBVIOUS
  <2>1. s \in SUBSET (0..n)
    BY <1>1
  <2> QED BY <1>1, <2>1, MaxOfBounded
<1>4. Picks(c, 1..n)
  BY <1>3 DEF Picks
<1>5. Balance(q) = (CHOOSE i : Eq(i))[DOMAIN q]
  BY DEF Balance, FoldLeft, MapThenFoldSet
<1> HIDE DEF n, g, c
<1>6. PICK h \in [SUBSET (1..n) -> Int] : IsFold(h, g, c, 1..n)
  BY <1>1, <1>2, <1>4, FoldExists
<1>7. \A s \in SUBSET (1..n) : s # {} =>
        /\ c[s] = Max(s) /\ Max(s) \in 1..n /\ g[Max(s)] = q[Max(s)].balance
        /\ g[Max(s)] \in Int
  BY <1>2, <1>3 DEF c, g
<1>8. Eq(h)
  <2>1. \A s \in SUBSET (1..n) :
          h[s] = IF s = {} THEN 0 ELSE h[s \ {Max(s)}] + q[Max(s)].balance
    <3> SUFFICES ASSUME NEW s \in SUBSET (1..n), s # {}
                 PROVE  h[s] = h[s \ {Max(s)}] + q[Max(s)].balance
      BY <1>6 DEF IsFold
    <3>1. h[s] = g[c[s]] + h[s \ {c[s]}]
      BY <1>6 DEF IsFold
    <3>2. h[s \ {Max(s)}] \in Int
      OBVIOUS
    <3>3. c[s] = Max(s) /\ g[Max(s)] = q[Max(s)].balance /\ g[Max(s)] \in Int
      BY <1>7
    <3>4. h[s] = g[Max(s)] + h[s \ {Max(s)}]
      BY <3>1, <3>3
    <3> QED BY <3>2, <3>3, <3>4
  <2> QED BY <1>1, <2>1
<1>9. ASSUME NEW i, Eq(i) PROVE i = h
  <2>1. \A s \in SUBSET (1..n) :
          i[s] = IF s = {} THEN 0 ELSE i[s \ {Max(s)}] + q[Max(s)].balance
    BY <1>1, <1>9
  <2> DEFINE Typed(s) == i[s] = h[s]
             Bad   == {s \in SUBSET (1..n) : i[s] # h[s]}
             Sizes == {m \in Nat : \E s \in Bad : Cardinality(s) = m}
  <2>2. Bad = {}
    <3> SUFFICES ASSUME Bad # {} PROVE FALSE
      OBVIOUS
    <3>1. \A s \in SUBSET (1..n) : IsFiniteSet(s) /\ Cardinality(s) \in Nat
      BY <1>1, FS_Subset, FS_CardinalityType
    <3>2. Sizes \in SUBSET Nat /\ Sizes # {}
      BY <3>1
    <3>3. PICK m \in Sizes : \A k \in Sizes : m <= k
      BY <3>2, NatMinimum
    <3>4. PICK s \in Bad : Cardinality(s) = m
      BY <3>3
    <3>5. s # {} /\ i[s \ {Max(s)}] # h[s \ {Max(s)}]
      BY <1>1, <1>8, <2>1, <3>4
    <3>6. Cardinality(s \ {Max(s)}) = m - 1 /\ m \in Nat
      BY <1>3, <3>1, <3>3, <3>4, <3>5, FS_RemoveElement
    <3>7. m - 1 \in Sizes
      BY <3>1, <3>5, <3>6
    <3> QED BY <3>3, <3>6, <3>7
  <2>3. \A s \in SUBSET (1..n) : i[s] = h[s]
    BY <2>2
  <2>4. i = [s \in SUBSET (1..n) |-> i[s]] /\ h = [s \in SUBSET (1..n) |-> h[s]]
    BY <1>1, <1>9
  <2> QED BY <2>3, <2>4
<1>10. Balance(q) = h[1..n]
  <2> HIDE DEF Eq
  <2>1. Eq(CHOOSE i : Eq(i))
    BY <1>8
  <2> QED BY <1>1, <1>5, <1>9, <2>1
<1> DEFINE p == [k \in 0..n |-> h[1..k]]
<1>11. p \in [0..n -> Int]
  <2>1. \A k \in 0..n : 1..k \in SUBSET (1..n)
    BY <1>1
  <2> QED BY <2>1
<1>12. p[0] = 0
  <2>1. 1..0 = {} /\ 0 \in 0..n /\ h[{}] = 0
    BY <1>1, <1>6 DEF IsFold
  <2> QED BY <2>1
<1>13. ASSUME NEW k \in 1..n PROVE p[k] = p[k - 1] + q[k].balance
  <2>1. 1..k \in SUBSET (1..n) /\ 1..k # {} /\ k \in 0..n /\ k - 1 \in 0..n
    <3>1. k \in Nat /\ k <= n /\ k >= 1
      BY <1>1
    <3>2. k \in 1..k /\ k \in 0..n /\ k - 1 \in 0..n
      BY <1>1, <3>1
    <3>3. 1..k \subseteq 1..n
      BY <1>1, <3>1
    <3> QED BY <3>2, <3>3
  <2>2. Max(1..k) = k
    <3>1. Max(1..k) \in 1..k /\ \A y \in 1..k : Max(1..k) >= y
      BY <1>3, <2>1
    <3>2. k \in 1..k
      BY <1>1
    <3>3. Max(1..k) >= k
      BY <3>1, <3>2
    <3> QED BY <1>1, <3>1, <3>3
  <2>3. (1..k) \ {k} = 1..(k - 1)
    BY <1>1
  <2>4. h[1..k] = h[1..(k - 1)] + q[k].balance
    BY <1>1, <1>8, <2>1, <2>2, <2>3
  <2> QED BY <2>1, <2>4
<1>14. Balance(q) = p[n]
  BY <1>1, <1>10
<1> HIDE DEF p
<1> QED BY <1>11, <1>12, <1>13, <1>14 DEF IsRunningTotal, n

\* A list has one running total.
LEMMA RunningTotalUnique ==
  ASSUME NEW q \in Seq(GasCoin), NEW p, IsRunningTotal(p, q), NEW r, IsRunningTotal(r, q)
  PROVE  p[Len(q)] = r[Len(q)]
<1> DEFINE Bad == {k \in 0..Len(q) : p[k] # r[k]}
<1>1. Len(q) \in Nat
  BY LenProperties
<1>2. Bad = {}
  <2> SUFFICES ASSUME Bad # {} PROVE FALSE
    OBVIOUS
  <2>1. PICK k \in Bad : \A m \in Bad : k <= m
    <3>1. Bad \in SUBSET Nat
      BY <1>1
    <3> QED BY <3>1, NatMinimum
  <2>2. k \in 1..Len(q) /\ k - 1 \in 0..Len(q)
    BY <1>1, <2>1 DEF IsRunningTotal
  <2>3. p[k - 1] = r[k - 1]
    BY <1>1, <2>1, <2>2
  <2> QED BY <2>1, <2>2, <2>3 DEF IsRunningTotal
<1> QED BY <1>1, <1>2

LEMMA BalanceIs ==
  ASSUME NEW q \in Seq(GasCoin), NEW p, IsRunningTotal(p, q)
  PROVE  Balance(q) = p[Len(q)] /\ Balance(q) \in Int
<1>1. PICK r : IsRunningTotal(r, q) /\ Balance(q) = r[Len(q)]
  BY BalanceRuns
<1>2. p[Len(q)] = r[Len(q)]
  BY <1>1, RunningTotalUnique
<1>3. r[Len(q)] \in Int
  <2>1. Len(q) \in 0..Len(q)
    BY LenProperties
  <2> QED BY <1>1, <2>1 DEF IsRunningTotal
<1> QED BY <1>1, <1>2, <1>3

LEMMA BalanceIsInt ==
  ASSUME NEW q \in Seq(GasCoin)
  PROVE  Balance(q) \in Int
BY BalanceRuns, BalanceIs

LEMMA NextBalance == Balance(available)' = Balance(available')
BY DEF Balance, FoldLeft, MapThenFoldSet, Max

LEMMA BalanceOfEmpty == Balance(<<>>) = 0
<1> DEFINE p == [k \in 0..0 |-> 0]
<1>1. <<>> \in Seq(GasCoin) /\ Len(<<>>) = 0
  BY EmptySeq
<1>2. IsRunningTotal(p, <<>>)
  BY <1>1 DEF IsRunningTotal
<1> QED BY <1>1, <1>2, BalanceIs

LEMMA BalanceOfConcat ==
  ASSUME NEW q \in Seq(GasCoin), NEW t \in Seq(GasCoin)
  PROVE  Balance(q \o t) = Balance(q) + Balance(t)
<1>1. PICK p : IsRunningTotal(p, q) /\ Balance(q) = p[Len(q)]
  BY BalanceRuns
<1>2. PICK r : IsRunningTotal(r, t) /\ Balance(t) = r[Len(t)]
  BY BalanceRuns
<1>3. /\ Len(q \o t) = Len(q) + Len(t) /\ q \o t \in Seq(GasCoin)
      /\ \A i \in 1..(Len(q) + Len(t)) :
           (q \o t)[i] = IF i <= Len(q) THEN q[i] ELSE t[i - Len(q)]
  BY ConcatProperties
<1>4. Len(q) \in Nat /\ Len(t) \in Nat
  BY LenProperties
<1> DEFINE m == [k \in 0..(Len(q) + Len(t)) |->
                   IF k <= Len(q) THEN p[k] ELSE p[Len(q)] + r[k - Len(q)]]
<1>5. /\ p \in [0..Len(q) -> Int] /\ r \in [0..Len(t) -> Int] /\ p[0] = 0 /\ r[0] = 0
      /\ \A k \in 1..Len(q) : p[k] = p[k - 1] + q[k].balance
      /\ \A k \in 1..Len(t) : r[k] = r[k - 1] + t[k].balance
  BY <1>1, <1>2 DEF IsRunningTotal
<1>6. m \in [0..(Len(q) + Len(t)) -> Int]
  <2>1. p[Len(q)] \in Int
    <3>1. Len(q) \in 0..Len(q) /\ p \in [0..Len(q) -> Int]
      BY <1>4, <1>5
    <3> QED BY <3>1
  <2>2. ASSUME NEW k \in 0..(Len(q) + Len(t))
        PROVE  (IF k <= Len(q) THEN p[k] ELSE p[Len(q)] + r[k - Len(q)]) \in Int
    <3>1. CASE k <= Len(q)
      <4>1. k \in 0..Len(q)
        BY <1>4, <3>1
      <4> QED BY <1>5, <3>1, <4>1
    <3>2. CASE ~(k <= Len(q))
      <4>1. k - Len(q) \in 0..Len(t)
        BY <1>4, <3>2
      <4>2. r[k - Len(q)] \in Int
        BY <1>5, <4>1
      <4> QED BY <2>1, <3>2, <4>2
    <3> QED BY <3>1, <3>2
  <2> QED BY <2>2
<1>7. ASSUME NEW k \in 1..(Len(q) + Len(t))
      PROVE  m[k] = m[k - 1] + (q \o t)[k].balance
  <2>0. k \in Nat /\ k - 1 \in 0..(Len(q) + Len(t)) /\ k \in 0..(Len(q) + Len(t))
    BY <1>4
  <2>1. CASE k <= Len(q)
    BY <1>3, <1>4, <1>5, <2>0, <2>1
  <2>2. CASE k > Len(q)
    <3>1. k - Len(q) \in 1..Len(t)
      BY <1>4, <2>2
    <3>2. r[k - Len(q)] = r[(k - Len(q)) - 1] + t[k - Len(q)].balance
      BY <1>5, <3>1
    <3>3. (q \o t)[k] = t[k - Len(q)] /\ m[k] = p[Len(q)] + r[k - Len(q)]
      BY <1>3, <1>4, <2>0, <2>2
    <3>4. m[k - 1] = p[Len(q)] + r[(k - Len(q)) - 1]
      <4>1. CASE k - 1 <= Len(q)
        <5>1. k - 1 = Len(q) /\ (k - Len(q)) - 1 = 0
          BY <1>4, <2>0, <2>2, <4>1
        <5>2. m[k - 1] = p[Len(q)] /\ p[Len(q)] \in Int /\ r[0] = 0
          BY <1>4, <1>5, <2>0, <5>1
        <5> QED BY <5>1, <5>2
      <4>2. CASE k - 1 > Len(q)
        <5>1. (k - 1) - Len(q) = (k - Len(q)) - 1
          BY <1>4, <2>0
        <5> QED BY <1>4, <2>0, <4>2, <5>1
      <4> QED BY <1>4, <2>0, <4>1, <4>2
    <3>5. t[k - Len(q)].balance \in Int /\ r[(k - Len(q)) - 1] \in Int /\ p[Len(q)] \in Int
      <4>1. t[k - Len(q)] \in GasCoin
        BY <3>1, ElementOfSeq
      <4>2. t[k - Len(q)].balance \in Int
        BY <4>1 DEF GasCoin
      <4>3. (k - Len(q)) - 1 \in 0..Len(t) /\ Len(q) \in 0..Len(q)
        BY <1>4, <2>0, <3>1
      <4>4. r[(k - Len(q)) - 1] \in Int /\ p[Len(q)] \in Int
        BY <1>5, <4>3
      <4> QED BY <4>2, <4>4
    <3> QED BY <3>2, <3>3, <3>4, <3>5
  <2> QED BY <1>4, <2>0, <2>1, <2>2
<1>8. m[0] = 0 /\ m[Len(q) + Len(t)] = p[Len(q)] + r[Len(t)]
  <2>1. CASE Len(t) = 0
    BY <1>4, <1>5, <2>1
  <2>2. CASE Len(t) # 0
    <3>1. (Len(q) + Len(t)) - Len(q) = Len(t) /\ ~(Len(q) + Len(t) <= Len(q))
      BY <1>4, <2>2
    <3> QED BY <1>4, <1>5, <3>1
  <2> QED BY <2>1, <2>2
<1> HIDE DEF m
<1>9. IsRunningTotal(m, q \o t)
  BY <1>3, <1>6, <1>7, <1>8 DEF IsRunningTotal
<1> QED BY <1>1, <1>2, <1>3, <1>8, <1>9, BalanceIs

-----------------------------------------------------------------------------
(* The invariant, and every script of a connected server preserves it *)

StorageInv ==
  /\ StorageTypeOK
  /\ CountMatchesList
  /\ BalanceMatchesList
  /\ NoCoinInTwoPlaces
  /\ LiveReservationScheduled

LEMMA ReserveKeepsInv ==
  ASSUME StorageInv, connected # {}, NEW budget, NEW duration \in Nat,
         ReserveGasCoins(budget, duration)
  PROVE  StorageInv'
<1> USE DEF StorageInv
<1> DEFINE id == nextReservationId + 1
<1>1. PICK n \in 0..Len(available) :
        LET popped == SubSeq(available, 1, n)
        IN  /\ id <= MaxReservations
            /\ available' = SubSeq(available, n + 1, Len(available))
            /\ coinCount' = coinCount - n
            /\ totalBalance' = totalBalance - Balance(popped)
            /\ nextReservationId' = id
            /\ reservation' = [r \in DOMAIN reservation \cup {id} |->
                                 IF r = id THEN Ids(popped) ELSE reservation[r]]
            /\ expirationQueue' = [r \in DOMAIN expirationQueue \cup {id} |->
                                     IF r = id THEN duration ELSE expirationQueue[r]]
            /\ UNCHANGED <<initialized, connected>>
  BY Zenon DEF ReserveGasCoins, NewReservationId, Scheduled
<1> DEFINE popped == SubSeq(available, 1, n)
<1>2. /\ available \in Seq(GasCoin) /\ Len(available) \in Nat
      /\ n \in 0..Len(available) /\ DistinctIds(available)
  BY <1>1, LenProperties, StorageAssumption DEF StorageTypeOK, NoCoinInTwoPlaces, DistinctIds
<1>3. /\ popped \in Seq(GasCoin) /\ available' \in Seq(GasCoin)
      /\ Len(available') = Len(available) - n
      /\ Ids(available) = Ids(popped) \cup Ids(available')
      /\ Ids(popped) \cap Ids(available') = {}
      /\ DistinctIds(available')
  BY <1>1, <1>2, IdsOfSplit
<1> HIDE DEF popped
<1>4. /\ id \notin DOMAIN reservation /\ id \in 1..id
      /\ DOMAIN reservation \subseteq 1..id /\ DOMAIN expirationQueue \subseteq 1..id
      /\ id \in 0..MaxReservations
  BY <1>1, StorageAssumption DEF StorageTypeOK
<1>5. Ids(popped) \subseteq ObjectID
  BY <1>3, IdsAreObjectIDs
<1>6. StorageTypeOK'
  <2>1. coinCount' \in Nat
    BY <1>1, <1>2 DEF CountMatchesList, StorageTypeOK
  <2>2. reservation' \in [DOMAIN reservation' -> SUBSET ObjectID]
    BY <1>1, <1>5 DEF StorageTypeOK, popped
  <2>3. expirationQueue' \in [DOMAIN expirationQueue' -> Nat]
    BY <1>1 DEF StorageTypeOK
  <2> QED BY <1>1, <1>3, <1>4, <2>1, <2>2, <2>3 DEF StorageTypeOK
<1>7. CountMatchesList'
  BY <1>1, <1>2, <1>3, StorageAssumption DEF CountMatchesList, StorageTypeOK
<1>8. NoCoinInTwoPlaces'
  <2>1. \A r \in DOMAIN reservation' :
          IF r = id THEN reservation'[r] = Ids(popped)
          ELSE r \in DOMAIN reservation /\ reservation'[r] = reservation[r]
    BY <1>1 DEF popped
  <2>2. \A r \in DOMAIN reservation : reservation[r] \cap Ids(available) = {}
    BY DEF NoCoinInTwoPlaces, ReservedIds
  <2>3. CoinToOneCaller'
    BY <1>3, <2>1, <2>2 DEF NoCoinInTwoPlaces, CoinToOneCaller
  <2>4. Ids(available)' \cap ReservedIds' = {}
    <3>1. \A r \in DOMAIN reservation' : reservation'[r] \cap Ids(available') = {}
      BY <1>3, <2>1, <2>2
    <3> QED BY <3>1 DEF ReservedIds, Ids
  <2> QED BY <1>3, <2>3, <2>4 DEF NoCoinInTwoPlaces, DistinctIds
<1>9. LiveReservationScheduled'
  BY <1>1 DEF LiveReservationScheduled
<1>10. BalanceMatchesList'
  <2>1. Balance(available) = Balance(popped) + Balance(available')
    <3>1. available = popped \o available'
      BY <1>1, <1>2, PrefixAndRest DEF popped
    <3> QED BY <1>3, <3>1, BalanceOfConcat
  <2>2. Balance(popped) \in Int /\ Balance(available') \in Int
    BY <1>3, BalanceIsInt
  <2>3. totalBalance = Balance(available)
    BY DEF BalanceMatchesList
  <2>4. totalBalance' = Balance(available')
    BY <1>1, <2>1, <2>2, <2>3 DEF popped
  <2>5. totalBalance' # Nil
    BY <2>2, <2>4, StorageAssumption
  <2> QED BY <2>4, <2>5, NextBalance DEF BalanceMatchesList
<1> QED BY <1>6, <1>7, <1>8, <1>9, <1>10

LEMMA ReadyKeepsInv ==
  ASSUME StorageInv, NEW r, ReadyForExecution(r)
  PROVE  StorageInv'
<1> USE DEF StorageInv
<1>1. /\ DOMAIN reservation' = DOMAIN reservation \ {r}
      /\ \A q \in DOMAIN reservation' : reservation'[q] = reservation[q]
      /\ reservation' = [q \in DOMAIN reservation' |-> reservation[q]]
  BY DEF ReadyForExecution, Restrict
<1>2. UNCHANGED <<available, coinCount, totalBalance, expirationQueue,
                  nextReservationId, initialized, connected>>
  BY DEF ReadyForExecution
<1>3. StorageTypeOK'
  BY <1>1, <1>2 DEF StorageTypeOK
<1>4. CountMatchesList'
  BY <1>2 DEF CountMatchesList
<1>5. NoCoinInTwoPlaces'
  <2>1. ReservedIds' \subseteq ReservedIds
    BY <1>1 DEF ReservedIds
  <2>2. CoinToOneCaller'
    BY <1>1 DEF NoCoinInTwoPlaces, CoinToOneCaller
  <2> QED BY <1>2, <2>1, <2>2 DEF NoCoinInTwoPlaces, Ids
<1>6. LiveReservationScheduled'
  BY <1>1, <1>2 DEF LiveReservationScheduled
<1>7. BalanceMatchesList'
  BY <1>2, NextBalance DEF BalanceMatchesList
<1> QED BY <1>3, <1>4, <1>5, <1>6, <1>7

LEMMA ExpireKeepsInv ==
  ASSUME StorageInv, ExpireCoins
  PROVE  StorageInv'
<1> USE DEF StorageInv
<1>1. /\ DOMAIN reservation' = DOMAIN reservation \ Due
      /\ \A q \in DOMAIN reservation' : reservation'[q] = reservation[q]
      /\ reservation' = [q \in DOMAIN reservation' |-> reservation[q]]
  BY DEF ExpireCoins, Restrict
<1>2. /\ DOMAIN expirationQueue' = DOMAIN expirationQueue \ Due
      /\ expirationQueue' = [q \in DOMAIN expirationQueue' |-> expirationQueue[q]]
  BY DEF ExpireCoins, Restrict
<1>3. UNCHANGED <<available, coinCount, totalBalance, nextReservationId,
                  initialized, connected>>
  BY DEF ExpireCoins
<1>4. StorageTypeOK'
  <2>1. reservation' \in [DOMAIN reservation' -> SUBSET ObjectID]
    BY <1>1 DEF StorageTypeOK
  <2>2. expirationQueue' \in [DOMAIN expirationQueue' -> Nat]
    BY <1>2 DEF StorageTypeOK
  <2> QED BY <1>1, <1>2, <1>3, <2>1, <2>2 DEF StorageTypeOK
<1>5. CountMatchesList'
  BY <1>3 DEF CountMatchesList
<1>6. NoCoinInTwoPlaces'
  <2>1. ReservedIds' \subseteq ReservedIds
    BY <1>1 DEF ReservedIds
  <2>2. CoinToOneCaller'
    BY <1>1 DEF NoCoinInTwoPlaces, CoinToOneCaller
  <2> QED BY <1>3, <2>1, <2>2 DEF NoCoinInTwoPlaces, Ids
<1>7. LiveReservationScheduled'
  BY <1>1, <1>2 DEF LiveReservationScheduled
<1>8. BalanceMatchesList'
  BY <1>3, NextBalance DEF BalanceMatchesList
<1> QED BY <1>4, <1>5, <1>6, <1>7, <1>8

LEMMA AddKeepsInv ==
  ASSUME StorageInv, connected # {}, NEW coins \in Seq(GasCoin),
         DistinctIds(coins), Ids(coins) \cap InRedis = {},
         AddNewCoins(coins)
  PROVE  StorageInv'
<1> USE DEF StorageInv
<1>1. /\ available' = available \o coins
      /\ initialized' = (initialized \/ Len(coins) > 0)
      /\ coinCount' = coinCount + Len(coins)
      /\ totalBalance' = totalBalance + Balance(coins)
      /\ UNCHANGED <<reservation, expirationQueue, nextReservationId, connected>>
  BY DEF AddNewCoins, AddToStats
<1>2. /\ available \in Seq(GasCoin) /\ Len(available) \in Nat /\ Len(coins) \in Nat
      /\ DistinctIds(available)
  BY LenProperties DEF StorageTypeOK, NoCoinInTwoPlaces, DistinctIds
<1>3. /\ available' \in Seq(GasCoin)
      /\ Len(available') = Len(available) + Len(coins)
  BY <1>1, <1>2, ConcatProperties
<1>4. coinCount = Len(available)
  BY DEF CountMatchesList
<1>5. StorageTypeOK'
  BY <1>1, <1>2, <1>3, <1>4 DEF StorageTypeOK
<1>6. CountMatchesList'
  BY <1>1, <1>2, <1>3, <1>4, StorageAssumption DEF CountMatchesList
<1>7. NoCoinInTwoPlaces'
  <2>1. Ids(available') = Ids(available) \cup Ids(coins)
    BY <1>1, <1>2, IdsOfConcat
  <2>2. DistinctIds(available')
    BY <1>1, <1>2, DistinctConcat DEF InRedis
  <2>3. ReservedIds' = ReservedIds
    BY <1>1 DEF ReservedIds
  <2>4. CoinToOneCaller'
    BY <1>1 DEF NoCoinInTwoPlaces, CoinToOneCaller
  <2>5. Ids(available)' \cap ReservedIds' = {}
    <3>1. Ids(available)' = Ids(available')
      BY DEF Ids
    <3> QED BY <2>1, <2>3, <3>1 DEF NoCoinInTwoPlaces, InRedis
  <2> QED BY <2>2, <2>4, <2>5 DEF NoCoinInTwoPlaces, DistinctIds
<1>8. LiveReservationScheduled'
  BY <1>1 DEF LiveReservationScheduled
<1>9. BalanceMatchesList'
  <2>1. Balance(available') = Balance(available) + Balance(coins)
    BY <1>1, <1>2, BalanceOfConcat
  <2>2. Balance(available') \in Int
    BY <1>3, BalanceIsInt
  <2>3. totalBalance = Balance(available)
    BY DEF BalanceMatchesList
  <2> QED BY <1>1, <2>1, <2>2, <2>3, NextBalance, StorageAssumption DEF BalanceMatchesList
<1> QED BY <1>5, <1>6, <1>7, <1>8, <1>9

LEMMA TickKeepsInv ==
  ASSUME StorageInv, Tick
  PROVE  StorageInv'
<1> USE DEF StorageInv
<1>1. /\ DOMAIN expirationQueue' = DOMAIN expirationQueue
      /\ expirationQueue' = [r \in DOMAIN expirationQueue |->
                               IF expirationQueue[r] = 0 THEN 0 ELSE expirationQueue[r] - 1]
      /\ UNCHANGED <<available, coinCount, totalBalance, reservation,
                     nextReservationId, initialized, connected>>
  BY DEF Tick
<1>2. expirationQueue' \in [DOMAIN expirationQueue' -> Nat]
  BY <1>1 DEF StorageTypeOK
<1>3. StorageTypeOK'
  BY <1>1, <1>2 DEF StorageTypeOK
<1>4. CountMatchesList'
  BY <1>1 DEF CountMatchesList
<1>5. NoCoinInTwoPlaces'
  BY <1>1 DEF NoCoinInTwoPlaces, CoinToOneCaller, ReservedIds, Ids
<1>6. LiveReservationScheduled'
  BY <1>1 DEF LiveReservationScheduled
<1>7. BalanceMatchesList'
  BY <1>1, NextBalance DEF BalanceMatchesList
<1> QED BY <1>3, <1>4, <1>5, <1>6, <1>7

LEMMA ConnectionKeepsInv ==
  ASSUME StorageInv, NEW s \in Server, ConnectStorage(s) \/ Disconnect(s)
  PROVE  StorageInv'
<1> USE DEF StorageInv
<1>1. UNCHANGED <<available, reservation, expirationQueue, nextReservationId, initialized>>
  BY DEF ConnectStorage, Disconnect
<1>2. StorageTypeOK'
  BY <1>1, LenProperties DEF ConnectStorage, Disconnect, StorageTypeOK
<1>3. CountMatchesList'
  BY <1>1, LenProperties, StorageAssumption
  DEF ConnectStorage, Disconnect, CountMatchesList, StorageTypeOK
<1>4. NoCoinInTwoPlaces'
  BY <1>1 DEF NoCoinInTwoPlaces, CoinToOneCaller, ReservedIds, Ids
<1>5. LiveReservationScheduled'
  BY <1>1 DEF LiveReservationScheduled
<1>6. BalanceMatchesList'
  <2>1. Balance(available)' = Balance(available)
    BY <1>1, NextBalance
  <2>2. CASE ConnectStorage(s)
    BY <2>1, <2>2, BalanceOfEmpty, StorageAssumption DEF ConnectStorage, BalanceMatchesList
  <2>3. CASE Disconnect(s)
    BY <2>1, <2>3 DEF Disconnect, BalanceMatchesList
  <2> QED BY <2>2, <2>3
<1> QED BY <1>2, <1>3, <1>4, <1>5, <1>6

\* A rejected reservation puts the list back as it was.
LEMMA RejectChangesNothing ==
  ASSUME StorageTypeOK, NEW budget, RejectReservation(budget)
  PROVE  UNCHANGED storageVars
<1>1. PICK n \in 0..Len(available) :
        /\ available' = SubSeq(available, 1, n) \o SubSeq(available, n + 1, Len(available))
        /\ UNCHANGED <<coinCount, totalBalance, reservation, expirationQueue,
                       nextReservationId, initialized, connected>>
  BY DEF RejectReservation, PushedBack
<1>2. available \in Seq(GasCoin) /\ n \in 0..Len(available)
  BY <1>1, LenProperties, StorageAssumption DEF StorageTypeOK
<1>3. available' = available
  BY <1>1, <1>2, PrefixAndRest
<1> QED BY <1>1, <1>3 DEF storageVars

LEMMA StorageStutterKeepsInv ==
  ASSUME StorageInv, UNCHANGED storageVars
  PROVE  StorageInv'
<1>1. BalanceMatchesList'
  BY NextBalance DEF storageVars, StorageInv, BalanceMatchesList
<1> QED BY <1>1
    DEF storageVars, StorageInv, StorageTypeOK, CountMatchesList, NoCoinInTwoPlaces,
        CoinToOneCaller, LiveReservationScheduled, ReservedIds, Ids

\* What callers add in StorageSpec meets the conditions of AddKeepsInv.
LEMMA BatchIsLegal ==
  ASSUME NEW coins \in NewBatch
  PROVE  /\ coins \in Seq(GasCoin) /\ DistinctIds(coins)
         /\ Ids(coins) \cap InRedis = {}
<1>1. PICK m \in 0..MaxBatch : coins \in [1..m -> NewCoin]
  BY DEF NewBatch, SeqOf
<1>2. m \in Nat /\ coins \in [1..m -> GasCoin]
  BY <1>1, StorageAssumption
<1>3. coins \in Seq(GasCoin)
  BY <1>2, SeqDef
<1> QED BY <1>3 DEF NewBatch, DistinctIds

-----------------------------------------------------------------------------
(* What the scripts do to the coins in Redis *)

Popped == SubSeq(available, 1, Len(available) - Len(available'))

\* A reservation moves the popped coins from the queue to a new id.
LEMMA ReserveMoves ==
  ASSUME StorageInv, NEW budget, NEW duration, ReserveGasCoins(budget, duration)
  PROVE  /\ InRedis' = InRedis
         /\ nextReservationId' = nextReservationId + 1
         /\ nextReservationId' \notin DOMAIN reservation
         /\ Popped \in Seq(GasCoin)
         /\ Ids(available) = Ids(Popped) \cup Ids(available')
         /\ DOMAIN reservation' = DOMAIN reservation \cup {nextReservationId'}
         /\ reservation'[nextReservationId'] = Ids(Popped)
         /\ \A r \in DOMAIN reservation : reservation'[r] = reservation[r]
         /\ connected' = connected
         /\ \E n \in 0..Len(available) : available' = SubSeq(available, n + 1, Len(available))
<1> DEFINE id == nextReservationId + 1
<1>1. PICK n \in 0..Len(available) :
        /\ available' = SubSeq(available, n + 1, Len(available))
        /\ nextReservationId' = id
        /\ reservation' = [r \in DOMAIN reservation \cup {id} |->
                             IF r = id THEN Ids(SubSeq(available, 1, n)) ELSE reservation[r]]
        /\ connected' = connected
  BY Zenon DEF ReserveGasCoins, NewReservationId
<1>2. available \in Seq(GasCoin) /\ DistinctIds(available) /\ n \in 0..Len(available)
  BY <1>1, LenProperties, StorageAssumption
  DEF StorageInv, StorageTypeOK, NoCoinInTwoPlaces, DistinctIds
<1>3. /\ SubSeq(available, 1, n) \in Seq(GasCoin)
      /\ Len(available') = Len(available) - n
      /\ Ids(available) = Ids(SubSeq(available, 1, n)) \cup Ids(available')
  BY <1>1, <1>2, IdsOfSplit
<1>4. Len(available) - Len(available') = n
  BY <1>2, <1>3, LenProperties
<1>5. Popped = SubSeq(available, 1, n)
  BY <1>4 DEF Popped
<1>6. id \notin DOMAIN reservation
  BY StorageAssumption DEF StorageInv, StorageTypeOK
<1>7. ReservedIds' = ReservedIds \cup Ids(SubSeq(available, 1, n))
  BY <1>1, <1>6 DEF ReservedIds
<1>8. Ids(available)' = Ids(available')
  BY DEF Ids
<1>9. InRedis' = InRedis
  BY <1>3, <1>7, <1>8 DEF InRedis
<1> QED BY <1>1, <1>3, <1>5, <1>6, <1>9

\* ready_for_execution takes out the coins of its reservation.
LEMMA ReadyTakes ==
  ASSUME StorageInv, NEW r, ReadyForExecution(r)
  PROVE  /\ r \in DOMAIN reservation
         /\ reservation[r] \subseteq InRedis /\ reservation[r] \cap InRedis' = {}
         /\ InRedis = InRedis' \cup reservation[r]
         /\ DOMAIN reservation' = DOMAIN reservation \ {r}
         /\ \A q \in DOMAIN reservation' : reservation'[q] = reservation[q]
         /\ UNCHANGED <<available, nextReservationId, connected>>
<1>1. /\ DOMAIN reservation' = DOMAIN reservation \ {r} /\ r \in DOMAIN reservation
      /\ \A q \in DOMAIN reservation' : reservation'[q] = reservation[q]
      /\ UNCHANGED <<available, nextReservationId, connected>>
  BY DEF ReadyForExecution, Restrict
<1>2. Ids(available)' = Ids(available)
  BY <1>1 DEF Ids
<1>3. reservation[r] \cap Ids(available) = {}
  BY <1>1 DEF StorageInv, NoCoinInTwoPlaces, ReservedIds
<1>4. reservation[r] \cap ReservedIds' = {}
  BY <1>1 DEF StorageInv, NoCoinInTwoPlaces, CoinToOneCaller, ReservedIds
<1>5. ReservedIds = ReservedIds' \cup reservation[r]
  BY <1>1 DEF ReservedIds
<1> QED BY <1>1, <1>2, <1>3, <1>4, <1>5 DEF InRedis

\* expire_coins takes out the coins of every due reservation.
LEMMA ExpireTakes ==
  ASSUME StorageInv, ExpireCoins
  PROVE  /\ ExpiredIds \subseteq InRedis /\ ExpiredIds \cap InRedis' = {}
         /\ InRedis = InRedis' \cup ExpiredIds
         /\ DOMAIN reservation' = DOMAIN reservation \ Due
         /\ \A q \in DOMAIN reservation' : reservation'[q] = reservation[q]
         /\ \A q \in DOMAIN reservation \ DOMAIN reservation' :
              expirationQueue[q] = 0 /\ reservation[q] \subseteq ExpiredIds
         /\ UNCHANGED <<available, nextReservationId, connected>>
<1>1. /\ DOMAIN reservation' = DOMAIN reservation \ Due
      /\ \A q \in DOMAIN reservation' : reservation'[q] = reservation[q]
      /\ UNCHANGED <<available, nextReservationId, connected>>
  BY DEF ExpireCoins, Restrict
<1>2. Ids(available)' = Ids(available)
  BY <1>1 DEF Ids
<1>3. ReservedIds = ReservedIds' \cup ExpiredIds
  <2>1. ReservedIds \subseteq ReservedIds' \cup ExpiredIds
    BY <1>1 DEF ExpiredIds, ReservedIds, Due
  <2>2. ReservedIds' \subseteq ReservedIds /\ ExpiredIds \subseteq ReservedIds
    BY <1>1 DEF ExpiredIds, ReservedIds
  <2> QED BY <2>1, <2>2
<1>4. ExpiredIds \cap ReservedIds' = {}
  BY <1>1 DEF StorageInv, NoCoinInTwoPlaces, CoinToOneCaller, ReservedIds, ExpiredIds
<1>5. \A q \in DOMAIN reservation \ DOMAIN reservation' :
        expirationQueue[q] = 0 /\ reservation[q] \subseteq ExpiredIds
  BY <1>1 DEF Due, ExpiredIds
<1> QED BY <1>1, <1>2, <1>3, <1>4, <1>5 DEF InRedis, StorageInv, NoCoinInTwoPlaces

\* add_new_coins brings in the coins it is called with.
LEMMA AddBringsIn ==
  ASSUME StorageInv, NEW coins \in Seq(GasCoin), AddNewCoins(coins)
  PROVE  /\ InRedis' = InRedis \cup Ids(coins)
         /\ available' = available \o coins
         /\ UNCHANGED <<reservation, nextReservationId, connected>>
<1>1. available' = available \o coins /\ UNCHANGED <<reservation, nextReservationId, connected>>
  BY DEF AddNewCoins
<1>2. Ids(available') = Ids(available) \cup Ids(coins)
  BY <1>1, IdsOfConcat DEF StorageInv, StorageTypeOK
<1>3. Ids(available)' = Ids(available') /\ ReservedIds' = ReservedIds
  BY <1>1 DEF Ids, ReservedIds
<1> QED BY <1>1, <1>2, <1>3 DEF InRedis

-----------------------------------------------------------------------------
(* Theorems *)

\* StorageInv is inductive.
THEOREM StorageInvariant == StorageSpec => []StorageInv
<1>1. StorageInit => StorageInv
  <2> SUFFICES ASSUME StorageInit PROVE StorageInv
    OBVIOUS
  <2>1. Len(<<>>) = 0 /\ <<>> \in Seq(GasCoin) /\ 1..0 = {}
    BY EmptySeq
  <2>2. DOMAIN reservation = {} /\ DOMAIN expirationQueue = {}
    BY DEF StorageInit
  <2>3. /\ reservation \in [DOMAIN reservation -> SUBSET ObjectID]
        /\ expirationQueue \in [DOMAIN expirationQueue -> Nat]
    <3>1. reservation = [r \in {} |-> {}] /\ expirationQueue = [r \in {} |-> 0]
      BY DEF StorageInit
    <3> QED BY <3>1
  <2>4. StorageTypeOK
    <3>1. /\ available \in Seq(GasCoin) /\ coinCount \in Nat \cup {Nil}
          /\ connected \subseteq Server
      BY <2>1 DEF StorageInit
    <3>2. initialized \in BOOLEAN
      BY DEF StorageInit
    <3>3. nextReservationId \in 0..MaxReservations
      BY StorageAssumption DEF StorageInit
    <3> QED BY <2>2, <2>3, <3>1, <3>2, <3>3, Zenon DEF StorageTypeOK
  <2>5. CountMatchesList
    BY <2>1 DEF StorageInit, CountMatchesList
  <2>6. NoCoinInTwoPlaces
    <3>1. Len(available) = 0
      BY <2>1 DEF StorageInit
    <3>2. Ids(available) = {}
      BY <3>1 DEF Ids
    <3> QED BY <2>2, <3>1, <3>2 DEF NoCoinInTwoPlaces, CoinToOneCaller
  <2>7. LiveReservationScheduled
    BY <2>2 DEF LiveReservationScheduled
  <2>8. BalanceMatchesList
    BY DEF StorageInit, BalanceMatchesList
  <2> QED BY <2>4, <2>5, <2>6, <2>7, <2>8 DEF StorageInv
<1>2. StorageInv /\ [StorageNext]_storageVars => StorageInv'
  <2> SUFFICES ASSUME StorageInv, [StorageNext]_storageVars PROVE StorageInv'
    OBVIOUS
  <2>1. ASSUME NEW s \in Server, ConnectStorage(s) \/ Disconnect(s) PROVE StorageInv'
    BY <2>1, ConnectionKeepsInv
  <2>2. ASSUME connected # {}, NEW budget \in Budget, NEW duration \in Duration,
               ReserveGasCoins(budget, duration)
        PROVE  StorageInv'
    <3>1. duration \in Nat
      BY StorageAssumption
    <3> QED BY <2>2, <3>1, ReserveKeepsInv
  <2>3. CASE UNCHANGED storageVars
    BY <2>3, StorageStutterKeepsInv
  <2>4. ASSUME NEW budget \in Budget, RejectReservation(budget) PROVE StorageInv'
    BY <2>4, RejectChangesNothing, StorageStutterKeepsInv DEF StorageInv
  <2>5. ASSUME NEW r, ReadyForExecution(r) PROVE StorageInv'
    BY <2>5, ReadyKeepsInv
  <2>6. ASSUME connected # {}, NEW coins \in NewBatch, AddNewCoins(coins) PROVE StorageInv'
    BY <2>6, BatchIsLegal, AddKeepsInv
  <2> QED BY <2>1, <2>2, <2>3, <2>4, <2>5, <2>6, ExpireKeepsInv, TickKeepsInv
      DEF StorageNext, ServerCall
<1> QED BY <1>1, <1>2, PTL DEF StorageSpec

\* The keys keep their types.
THEOREM StorageTypeCorrect == StorageSpec => []StorageTypeOK
BY StorageInvariant, PTL DEF StorageInv

\* The count the scripts keep beside the list is the length of the list.
THEOREM CountIsExact == StorageSpec => []CountMatchesList
BY StorageInvariant, PTL DEF StorageInv

\* The total balance the scripts keep beside the list is the sum of the balances
\* in it, for lists of any length.
THEOREM BalanceIsExact == StorageSpec => []BalanceMatchesList
BY StorageInvariant, PTL DEF StorageInv

\* Storage never returns the same coin to two callers.
THEOREM CoinGivenOnce == StorageSpec => []NoCoinInTwoPlaces
BY StorageInvariant, PTL DEF StorageInv

\* Every reservation can be found by the clean-up.
THEOREM ReservationsCanExpire == StorageSpec => []LiveReservationScheduled
BY StorageInvariant, PTL DEF StorageInv

\* First in, first out, for queues and batches of any length.
THEOREM QueueIsFifo == StorageSpec => QueueOrder
<1> DEFINE Fifo ==
      \/ \E n \in 0..Len(available) : available' = SubSeq(available, n + 1, Len(available))
      \/ \E n \in 0..Len(available') : available = SubSeq(available', 1, n)
<1>1. StorageTypeOK /\ [StorageNext]_storageVars => [Fifo]_storageVars
  <2> SUFFICES ASSUME StorageTypeOK, [StorageNext]_storageVars PROVE Fifo
    OBVIOUS
  <2>1. available \in Seq(GasCoin) /\ Len(available) \in Nat
    BY LenProperties DEF StorageTypeOK
  <2>2. CASE available' = available
    <3>1. 0 \in 0..Len(available) /\ SubSeq(available, 0 + 1, Len(available)) = available
      BY <2>1, SubSeqFull
    <3> QED BY <2>2, <3>1
  <2>3. ASSUME NEW budget, NEW duration, ReserveGasCoins(budget, duration) PROVE Fifo
    BY <2>3, Zenon DEF ReserveGasCoins
  <2>4. ASSUME NEW coins \in NewBatch, AddNewCoins(coins) PROVE Fifo
    <3>1. coins \in Seq(GasCoin) /\ available' = available \o coins
      BY <2>4, BatchIsLegal DEF AddNewCoins
    <3>2. Len(available) \in 0..Len(available')
      BY <2>1, <3>1, ConcatProperties, LenProperties
    <3>3. available = SubSeq(available', 1, Len(available))
      <4>1. SubSeq(available', 1, Len(available)) \in Seq(GasCoin)
        BY <2>1, <3>1, <3>2, ConcatProperties, PrefixOf
      <4>2. Len(SubSeq(available', 1, Len(available))) = Len(available)
        BY <2>1, <3>1, <3>2, ConcatProperties, PrefixOf
      <4>3. ASSUME NEW i \in 1..Len(available)
            PROVE  available[i] = SubSeq(available', 1, Len(available))[i]
        <5>1. available'[i] = available[i]
          BY <2>1, <3>1, ConcatProperties, LenProperties
        <5>2. SubSeq(available', 1, Len(available))[i] = available'[i]
          BY <2>1, <3>1, <3>2, ConcatProperties, PrefixOf
        <5> QED BY <5>1, <5>2
      <4> QED BY <2>1, <4>1, <4>2, <4>3, SeqEqual
    <3> QED BY <3>2, <3>3
  <2>5. ASSUME NEW budget, RejectReservation(budget) PROVE Fifo
    BY <2>2, <2>5, RejectChangesNothing DEF storageVars
  <2> QED BY <2>2, <2>3, <2>4, <2>5
      DEF StorageNext, ServerCall, ConnectStorage, Disconnect, ReadyForExecution,
          ExpireCoins, Tick, storageVars
<1> QED BY <1>1, StorageTypeCorrect, PTL DEF StorageSpec, QueueOrder

\* No script loses or invents a coin.
THEOREM StorageConservesCoins == StorageSpec => CoinsConserved
<1> DEFINE Conserved ==
      /\ \A c \in InRedis \ InRedis' :
           \E r \in DOMAIN reservation \ DOMAIN reservation' : c \in reservation[r]
      /\ InRedis' \ InRedis \subseteq Ids(available')
<1>1. StorageInv /\ [StorageNext]_storageVars => [Conserved]_storageVars
  <2> SUFFICES ASSUME StorageInv, [StorageNext]_storageVars PROVE Conserved
    OBVIOUS
  <2>0. available \in Seq(GasCoin)
    BY DEF StorageInv, StorageTypeOK
  <2>1. CASE UNCHANGED <<available, reservation>>
    BY <2>1 DEF InRedis, ReservedIds, Ids
  <2>2. ASSUME NEW budget, NEW duration, ReserveGasCoins(budget, duration) PROVE Conserved
    BY <2>2, ReserveMoves
  <2>3. ASSUME NEW r, ReadyForExecution(r) PROVE Conserved
    <3>1. /\ DOMAIN reservation' = DOMAIN reservation \ {r} /\ available' = available
          /\ \A q \in DOMAIN reservation' : reservation'[q] = reservation[q]
      BY <2>3, ReadyTakes
    <3> QED BY <2>3, <3>1 DEF InRedis, ReservedIds, Ids
  <2>4. CASE ExpireCoins
    BY <2>4, ExpireTakes DEF InRedis, ReservedIds, Ids
  <2>5. ASSUME NEW coins \in NewBatch, AddNewCoins(coins) PROVE Conserved
    <3>1. coins \in Seq(GasCoin)
      BY BatchIsLegal
    <3>2. Ids(available') = Ids(available) \cup Ids(coins)
      BY <2>0, <2>5, <3>1, IdsOfConcat, AddBringsIn
    <3> QED BY <2>5, <3>1, <3>2, AddBringsIn DEF Ids
  <2>6. ASSUME NEW budget, RejectReservation(budget) PROVE Conserved
    BY <2>1, <2>6, RejectChangesNothing DEF storageVars, StorageInv
  <2> QED BY <2>1, <2>2, <2>3, <2>4, <2>5, <2>6
      DEF StorageNext, ServerCall, ConnectStorage, Disconnect, Tick, storageVars
<1> QED BY <1>1, StorageInvariant, PTL DEF StorageSpec, CoinsConserved

\* A granted reservation is not empty, because its budget is positive, and holds no
\* more coins than the loop of the script pops.
LEMMA GrantWithinLimits ==
  ASSUME StorageInv, NEW budget \in Nat \ {0}, NEW duration, ReserveGasCoins(budget, duration)
  PROVE  \A r \in DOMAIN reservation' :
           \/ r \in DOMAIN reservation /\ reservation'[r] = reservation[r]
           \/ reservation'[r] # {} /\ Cardinality(reservation'[r]) <= MaxGasPerQuery
<1> DEFINE id == nextReservationId + 1
<1>1. PICK n \in 0..Len(available) :
        LET popped == SubSeq(available, 1, n)
        IN  /\ PopsFor(budget, n)
            /\ Balance(popped) >= budget
            /\ reservation' = [r \in DOMAIN reservation \cup {id} |->
                                 IF r = id THEN Ids(popped) ELSE reservation[r]]
  BY Zenon DEF ReserveGasCoins, NewReservationId
<1> DEFINE popped == SubSeq(available, 1, n)
<1>2. available \in Seq(GasCoin) /\ n \in 0..Len(available)
  BY <1>1, LenProperties, StorageAssumption DEF StorageInv, StorageTypeOK
<1>3. popped \in Seq(GasCoin) /\ Len(popped) = n /\ n \in Nat
  BY <1>2, PrefixOf, LenProperties
<1>4. n <= MaxGasPerQuery /\ Balance(popped) >= budget
  BY <1>1 DEF PopsFor
<1>5. \A r \in DOMAIN reservation' :
        \/ reservation'[r] = Ids(popped)
        \/ r \in DOMAIN reservation /\ reservation'[r] = reservation[r]
  BY <1>1
<1> HIDE DEF popped
<1>6. Ids(popped) # {}
  <2>1. n # 0
    <3> SUFFICES ASSUME n = 0 PROVE FALSE
      OBVIOUS
    <3>1. popped = <<>>
      BY <1>3, EmptySeq
    <3> QED BY <1>4, <3>1, BalanceOfEmpty
  <2>2. 1 \in 1..Len(popped)
    BY <1>3, <2>1
  <2>3. popped[1].id \in Ids(popped)
    BY <2>2 DEF Ids
  <2> QED BY <2>3
<1>7. Cardinality(Ids(popped)) <= MaxGasPerQuery
  <2> DEFINE f == [i \in 1..n |-> popped[i].id]
  <2>1. f \in Surjection(1..n, Ids(popped))
    BY <1>3 DEF Surjection, Ids
  <2>2. ExistsSurjection(1..n, Ids(popped))
    BY <2>1 DEF ExistsSurjection
  <2>3. Cardinality(Ids(popped)) <= n /\ IsFiniteSet(Ids(popped))
    <3>1. IsFiniteSet(1..n)
      BY <1>3, FS_Interval
    <3> QED BY <1>3, <2>1, <2>2, <3>1, FS_SurjCardinalityBound, FS_Surjection
  <2>4. Cardinality(Ids(popped)) \in Nat
    BY <2>3, FS_CardinalityType
  <2> QED BY <1>3, <1>4, <2>3, <2>4, StorageAssumption
<1> QED BY <1>5, <1>6, <1>7

\* What expire_coins has to parse: reservations of at least one coin and at most
\* MaxGasPerQuery.
THEOREM ReservationsWithinLimits == StorageSpec => []ReservationWithinLimits
<1>1. StorageInit => ReservationWithinLimits
  <2> SUFFICES ASSUME StorageInit PROVE ReservationWithinLimits
    OBVIOUS
  <2>1. DOMAIN reservation = {}
    BY DEF StorageInit
  <2> QED BY <2>1 DEF ReservationWithinLimits
<1>2. StorageInv /\ ReservationWithinLimits /\ [StorageNext]_storageVars
        => ReservationWithinLimits'
  <2> SUFFICES ASSUME StorageInv, ReservationWithinLimits, [StorageNext]_storageVars
               PROVE  ReservationWithinLimits'
    OBVIOUS
  <2>1. CASE reservation' = reservation
    BY <2>1 DEF ReservationWithinLimits
  <2>2. ASSUME NEW budget \in Budget \ {0}, NEW duration, ReserveGasCoins(budget, duration)
        PROVE  ReservationWithinLimits'
    <3>1. \A r \in DOMAIN reservation' :
            \/ r \in DOMAIN reservation /\ reservation'[r] = reservation[r]
            \/ reservation'[r] # {} /\ Cardinality(reservation'[r]) <= MaxGasPerQuery
      BY <2>2, GrantWithinLimits, StorageAssumption
    <3> QED BY <3>1 DEF ReservationWithinLimits
  <2>3. ASSUME NEW r, ReadyForExecution(r) PROVE ReservationWithinLimits'
    BY <2>3 DEF ReadyForExecution, Restrict, ReservationWithinLimits
  <2>4. CASE ExpireCoins
    BY <2>4 DEF ExpireCoins, Restrict, ReservationWithinLimits
  <2> QED BY <2>1, <2>2, <2>3, <2>4
      DEF StorageNext, ServerCall, RejectReservation, ConnectStorage, Disconnect,
          AddNewCoins, Tick, storageVars
<1> QED BY <1>1, <1>2, StorageInvariant, PTL DEF StorageSpec
=============================================================================
